-------------------------- MODULE CodeDiscoveryProofs --------------------------
(***************************************************************************)
(* Theorems about CodeDiscovery.  The lemmas come first that replace        *)
(* induction, over sets of numbers because the provers cannot instantiate a *)
(* theorem about an operator; with them a recursive function of the model   *)
(* is shown to satisfy its own equation.                                    *)
(***************************************************************************)
EXTENDS CodeDiscovery, WellFoundedInduction, FiniteSetTheorems, TLAPS

-----------------------------------------------------------------------------
(***************************************************************************)
(* Numbers.                                                                 *)
(***************************************************************************)

\* A set of natural numbers has a least element.
LEMMA LeastNatural ==
  ASSUME NEW T \in SUBSET Nat, T # {}
  PROVE  \E x \in T : \A y \in T : x <= y
<1> DEFINE R == {ss \in Nat \X Nat : ss[1] < ss[2]}
<1>1. IsWellFoundedOn(R, Nat)
  BY NatLessThanWellFounded DEF OpToRel
<1>2. \A x, y \in Nat : <<y, x>> \in R <=> y < x
  OBVIOUS
<1> HIDE DEF R
<1>3. PICK x \in T : \A y \in T : <<y, x>> \notin R
  BY <1>1, WFMin
<1>4. \A y \in T : x \in Nat /\ y \in Nat /\ ~(y < x)
  BY <1>2, <1>3
<1>5. \A y \in T : x <= y
  BY <1>4
<1> QED BY <1>5

\* Induction, for the set of the numbers with a property.
LEMMA Upwards ==
  ASSUME NEW T \in SUBSET Nat, 0 \in T, \A n \in T : n + 1 \in T
  PROVE  T = Nat
<1> SUFFICES ASSUME T # Nat PROVE FALSE
  OBVIOUS
<1> DEFINE B == Nat \ T
<1>1. PICK x \in B : \A y \in B : x <= y
  BY LeastNatural
<1>2. x \in Nat /\ x # 0 /\ x - 1 \in Nat
  BY <1>1
<1>3. x - 1 \notin B
  BY <1>1, <1>2
<1>4. x - 1 + 1 \in T /\ x - 1 + 1 = x
  BY <1>2, <1>3
<1> QED BY <1>1, <1>4

\* Induction from the top of an interval down, with all that is above given.
LEMMA Downwards ==
  ASSUME NEW N \in Int, NEW T,
         \A n \in 0 .. N : (\A m \in n + 1 .. N : m \in T) => n \in T
  PROVE  0 .. N \subseteq T
<1> SUFFICES ASSUME NEW b \in 0 .. N, b \notin T PROVE FALSE
  OBVIOUS
<1> DEFINE B == {k \in Nat : k <= N /\ N - k \notin T}
<1>1. N - b \in B
  OBVIOUS
<1>2. PICK x \in B : \A y \in B : x <= y
  BY <1>1, LeastNatural
<1>3. N - x \in 0 .. N /\ x \in Nat
  BY <1>2
<1>4. ASSUME NEW m \in N - x + 1 .. N PROVE m \in T
  <2>1. N - m \in Nat /\ N - m < x /\ N - m <= N
    BY <1>3
  <2>2. N - m \notin B
    BY <1>2, <1>3, <2>1
  <2> QED BY <2>1, <2>2
<1> QED BY <1>2, <1>3, <1>4

\* A set of integers between two bounds has a greatest element.
LEMMA GreatestBelow ==
  ASSUME NEW N \in Int, NEW T \in SUBSET (0 .. N), T # {}
  PROVE  \E x \in T : \A y \in T : y <= x
<1> DEFINE B == {k \in Nat : N - k \in T}
<1>1. PICK t \in T : TRUE
  OBVIOUS
<1>2. N - t \in B
  BY <1>1
<1>3. PICK x \in B : \A y \in B : x <= y
  BY <1>2, LeastNatural
<1>4. N - x \in T
  BY <1>3
<1>5. ASSUME NEW y \in T PROVE y <= N - x
  BY <1>3
<1> QED BY <1>4, <1>5

\* A function may be defined by its first value and a step from each to the next.
LEMMA PrimitiveRecursion ==
  ASSUME NEW V, NEW base \in V, NEW step \in [V -> V]
  PROVE  \E g \in [Nat -> V] : g[0] = base /\ \A n \in Nat : g[n + 1] = step[g[n]]
<1> DEFINE Upto(n) == {h \in [0 .. n -> V] :
                         h[0] = base /\ \A i \in 0 .. n - 1 : h[i + 1] = step[h[i]]}
           Some == {n \in Nat : Upto(n) # {}}
           Agree(n) == \A m, k \in Nat : n <= m /\ n <= k =>
                         \A h \in Upto(m), l \in Upto(k) : h[n] = l[n]
           Same == {n \in Nat : Agree(n)}
           pick == [n \in Nat |-> CHOOSE h \in Upto(n) : TRUE]
           g == [n \in Nat |-> pick[n][n]]
<1>1. 0 \in Some
  <2> DEFINE h == [i \in 0 .. 0 |-> base]
  <2>1. h \in Upto(0)
    OBVIOUS
  <2> QED BY <2>1
<1>2. ASSUME NEW n \in Some PROVE n + 1 \in Some
  <2>1. PICK h \in Upto(n) : TRUE
    OBVIOUS
  <2> DEFINE l == [i \in 0 .. n + 1 |-> IF i = n + 1 THEN step[h[n]] ELSE h[i]]
  <2>2. l \in [0 .. n + 1 -> V] /\ l[0] = base
    BY <2>1
  <2>3. ASSUME NEW i \in 0 .. n PROVE l[i + 1] = step[l[i]]
    BY <2>1
  <2>4. l \in Upto(n + 1)
    BY <2>2, <2>3
  <2> QED BY <2>4
<1>3. Some = Nat
  <2> HIDE DEF Some
  <2> QED BY <1>1, <1>2, Upwards DEF Some
<1>4. Agree(0)
  OBVIOUS
<1>5. ASSUME NEW n \in Nat, Agree(n) PROVE Agree(n + 1)
  <2> SUFFICES ASSUME NEW m \in Nat, NEW k \in Nat, n + 1 <= m, n + 1 <= k,
                      NEW h \in Upto(m), NEW l \in Upto(k)
               PROVE  h[n + 1] = l[n + 1]
    OBVIOUS
  <2>1. h[n] = l[n]
    <3>1. n <= m /\ n <= k
      OBVIOUS
    <3> HIDE DEF Upto
    <3> QED BY <1>5, <3>1
  <2>2. n \in 0 .. m - 1 /\ n \in 0 .. k - 1
    OBVIOUS
  <2>3. h[n + 1] = step[h[n]] /\ l[n + 1] = step[l[n]]
    BY <2>2
  <2> QED BY <2>1, <2>3
<1>6. \A n \in Nat : Agree(n)
  <2>1. 0 \in Same /\ \A n \in Same : n + 1 \in Same
    <3> HIDE DEF Agree
    <3> QED BY <1>4, <1>5
  <2>2. Same = Nat
    <3> HIDE DEF Agree
    <3> QED BY <2>1, Upwards
  <2> HIDE DEF Agree
  <2> QED BY <2>2
<1>7. \A n \in Nat : pick[n] \in Upto(n)
  BY <1>3
<1> HIDE DEF pick
<1>8. g \in [Nat -> V] /\ g[0] = base
  BY <1>7
<1>9. ASSUME NEW n \in Nat PROVE g[n + 1] = step[g[n]]
  <2>1. pick[n + 1] \in Upto(n + 1) /\ pick[n] \in Upto(n)
    BY <1>7
  <2>2. pick[n + 1][n] = pick[n][n]
    <3>1. Agree(n) /\ n <= n /\ n <= n + 1 /\ n + 1 \in Nat
      <4> HIDE DEF Agree
      <4> QED BY <1>6
    <3> HIDE DEF Upto
    <3> QED BY <2>1, <3>1
  <2>3. n \in 0 .. (n + 1) - 1
    OBVIOUS
  <2>4. pick[n + 1][n + 1] = step[pick[n + 1][n]]
    BY <2>1, <2>3
  <2> QED BY <2>2, <2>4
<1> QED BY <1>8, <1>9

\* What step makes of a function depends, at each a, on its values further up.
LooksUp(N, Fns, step) ==
  \A f, h \in Fns : \A a \in 0 .. N :
    (\A b \in a + 1 .. N : f[b] = h[b]) => step[f][a] = step[h][a]

\* A function on 0 .. N may be defined from its values further up.
LEMMA DownwardRecursion ==
  ASSUME NEW N \in Nat, NEW V, V # {}, NEW Fns, Fns = [0 .. N -> V], NEW step \in [Fns -> Fns],
         LooksUp(N, Fns, step)
  PROVE  \E g \in Fns : g = step[g]
<1>1. PICK base \in Fns : TRUE
  <2>1. [a \in 0 .. N |-> CHOOSE v \in V : TRUE] \in Fns
    OBVIOUS
  <2> QED BY <2>1
<1>2. PICK g \in [Nat -> Fns] : \A n \in Nat : g[n + 1] = step[g[n]]
  BY ONLY base \in Fns, step \in [Fns -> Fns], PrimitiveRecursion
<1> DEFINE Settled(n) == \A a \in 0 .. N : a > N - n => g[n + 1][a] = g[n][a]
           T == {n \in Nat : Settled(n)}
<1>3. Settled(0)
  OBVIOUS
<1>4. ASSUME NEW n \in Nat, Settled(n) PROVE Settled(n + 1)
  <2> SUFFICES ASSUME NEW a \in 0 .. N, a > N - (n + 1)
               PROVE  g[n + 2][a] = g[n + 1][a]
    OBVIOUS
  <2>1. g[n] \in Fns /\ g[n + 1] \in Fns
    BY <1>2
  <2>2. \A b \in a + 1 .. N : g[n + 1][b] = g[n][b]
    BY <1>4
  <2>3. step[g[n + 1]][a] = step[g[n]][a]
    BY <2>1, <2>2 DEF LooksUp
  <2>4. g[n + 2] = step[g[n + 1]] /\ g[n + 1] = step[g[n]]
    <3>1. n + 1 \in Nat /\ n + 2 = n + 1 + 1
      OBVIOUS
    <3> QED BY <1>2, <3>1
  <2> QED BY <2>3, <2>4
<1>5. Settled(N + 1)
  <2> HIDE DEF Settled
  <2>1. 0 \in T /\ \A n \in T : n + 1 \in T
    BY <1>3, <1>4
  <2>2. T = Nat
    <3> HIDE DEF T
    <3> QED BY <2>1, Upwards DEF T
  <2> QED BY <2>2
<1>6. g[N + 1] \in Fns /\ g[N + 2] \in Fns
  BY <1>2
<1>7. g[N + 2] = step[g[N + 1]]
  <2>1. N + 1 \in Nat /\ N + 2 = N + 1 + 1
    OBVIOUS
  <2> QED BY <1>2, <2>1
<1>8. \A a \in 0 .. N : g[N + 2][a] = g[N + 1][a]
  <2>1. N + 2 = N + 1 + 1 /\ \A a \in 0 .. N : a > N - (N + 1)
    OBVIOUS
  <2> QED BY <1>5, <2>1
<1>9. g[N + 2] = g[N + 1]
  BY <1>6, <1>8
<1> QED BY <1>6, <1>7, <1>9

\* A growing sequence of subsets of a finite set stops growing before it is used up.
LEMMA Saturates ==
  ASSUME NEW D, IsFiniteSet(D), NEW W, \A n \in Nat : W[n] \subseteq D /\ W[n] \subseteq W[n + 1]
  PROVE  \E n \in 0 .. Cardinality(D) - Cardinality(W[0]) : W[n + 1] = W[n]
<1> DEFINE room == Cardinality(D) - Cardinality(W[0])
<1>1. \A n \in Nat : /\ IsFiniteSet(W[n]) /\ Cardinality(W[n]) \in Nat
                     /\ Cardinality(W[n]) <= Cardinality(D)
  BY FS_Subset, FS_CardinalityType
<1>2. Cardinality(D) \in Nat /\ room \in Nat
  BY <1>1, FS_CardinalityType
<1> SUFFICES ASSUME \A n \in 0 .. room : W[n + 1] # W[n] PROVE FALSE
  OBVIOUS
<1>3. \A n \in 0 .. room : Cardinality(W[n + 1]) > Cardinality(W[n])
  <2> TAKE n \in 0 .. room
  <2>1. n \in Nat /\ n + 1 \in Nat /\ W[n] \in SUBSET W[n + 1]
    BY <1>2
  <2>2. Cardinality(W[n]) <= Cardinality(W[n + 1]) /\ Cardinality(W[n + 1]) # Cardinality(W[n])
    BY <1>1, <2>1, FS_Subset
  <2> QED BY <1>1, <2>1, <2>2
<1> DEFINE T == {n \in Nat : n <= room + 1 => Cardinality(W[n]) >= Cardinality(W[0]) + n}
<1>4. 0 \in T
  BY <1>1
<1>5. ASSUME NEW n \in T PROVE n + 1 \in T
  <2> SUFFICES ASSUME n + 1 <= room + 1
               PROVE  Cardinality(W[n + 1]) >= Cardinality(W[0]) + n + 1
    BY <1>1
  <2>1. n \in 0 .. room /\ n \in Nat /\ n + 1 \in Nat /\ n <= room + 1
    BY <1>2
  <2>2. Cardinality(W[n]) >= Cardinality(W[0]) + n
    BY <2>1
  <2>3. Cardinality(W[n + 1]) > Cardinality(W[n])
    BY <1>3, <2>1
  <2>4. Cardinality(W[n]) \in Nat /\ Cardinality(W[n + 1]) \in Nat /\ Cardinality(W[0]) \in Nat
    BY <1>1, <2>1
  <2> QED BY <2>1, <2>2, <2>3, <2>4
<1>6. T = Nat
  <2> HIDE DEF T
  <2> QED BY <1>4, <1>5, Upwards DEF T
<1>7. Cardinality(W[room + 1]) >= Cardinality(W[0]) + (room + 1)
  <2>1. room + 1 \in T /\ room + 1 <= room + 1
    <3> HIDE DEF T
    <3> QED BY <1>2, <1>6
  <2> HIDE DEF room
  <2> QED BY <1>2, <2>1
<1> QED BY <1>1, <1>2, <1>7

-----------------------------------------------------------------------------
(***************************************************************************)
(* What the program does.                                                   *)
(***************************************************************************)
IsProgram == code \in [Addresses -> Instruction]

\* A set that control does not leave within the allocation.
Closed(C) == \A a \in C \cap Addresses : Successors(a) \subseteq C

\* Addresses are natural numbers, and the successors of one are integers.
LEMMA AddressesAre ==
  /\ Addresses \subseteq Nat /\ IsFiniteSet(Addresses) /\ Cardinality(Addresses) = Limit
  /\ IsProgram => \A a \in Addresses :
       /\ code[a].size \in {1, 2} /\ After(a) \in Nat /\ After(a) > a /\ After(a) <= Limit + 1
       /\ code[a].target \in Int /\ Successors(a) \subseteq Int
<1>1. Limit \in Nat \ {0}
  BY LimitAssumption
<1>2. IsFiniteSet(Addresses) /\ Cardinality(Addresses) = Limit
  BY <1>1, FS_Interval DEF Addresses
<1>3. ASSUME IsProgram, NEW a \in Addresses
      PROVE  /\ code[a].size \in {1, 2} /\ After(a) \in Nat /\ After(a) > a
             /\ After(a) <= Limit + 1 /\ code[a].target \in Int
  <2>1. code[a] \in Instruction
    BY <1>3 DEF IsProgram
  <2> QED BY <1>1, <2>1 DEF Instruction, Addresses, After, Unknown
<1>4. ASSUME IsProgram, NEW a \in Addresses PROVE Successors(a) \subseteq Int
  BY <1>3, <1>4 DEF Successors
<1> QED BY <1>1, <1>2, <1>3, <1>4 DEF Addresses

Onwards(B) == B \cup UNION {Successors(a) : a \in B \cap Addresses}

\* The function within that Reachable is defined by.
Within(e) == CHOOSE w : w = [n \in Nat |-> IF n = 0 THEN {e} ELSE Onwards(w[n - 1])]

\* The code a function reaches is the last value of that function.
LEMMA ReachableIsWithin == ASSUME NEW e PROVE Reachable(e) = Within(e)[Limit]
BY SMT DEF Within, Reachable, Onwards

\* It is what its equation says.
LEMMA WithinIs ==
  ASSUME IsProgram, NEW e \in Int
  PROVE  /\ Within(e) \in [Nat -> SUBSET Int] /\ Within(e)[0] = {e}
         /\ \A n \in Nat : Within(e)[n + 1] = Onwards(Within(e)[n])
<1> DEFINE step == [B \in SUBSET Int |-> Onwards(B)]
<1>1. step \in [SUBSET Int -> SUBSET Int]
  BY AddressesAre DEF Onwards
<1>2. PICK g \in [Nat -> SUBSET Int] : g[0] = {e} /\ \A n \in Nat : g[n + 1] = step[g[n]]
  <2> DEFINE V == SUBSET Int
             base == {e}
  <2>1. base \in V /\ step \in [V -> V]
    BY <1>1
  <2> HIDE DEF step, V, base
  <2>2. \E g \in [Nat -> V] : g[0] = base /\ \A n \in Nat : g[n + 1] = step[g[n]]
    BY <2>1, PrimitiveRecursion
  <2> QED BY <2>2 DEF V, base
<1>3. g = [n \in Nat |-> IF n = 0 THEN {e} ELSE Onwards(g[n - 1])]
  <2>1. \A n \in Nat : n # 0 => n - 1 \in Nat /\ n - 1 + 1 = n
    OBVIOUS
  <2>2. \A n \in Nat : n # 0 => g[n] = Onwards(g[n - 1])
    BY <1>2, <2>1
  <2> QED BY <1>2, <2>2
<1>4. Within(e) = [n \in Nat |-> IF n = 0 THEN {e} ELSE Onwards(Within(e)[n - 1])]
  BY <1>3, Zenon DEF Within
<1> DEFINE w == Within(e)
<1>5. w[0] = {e} /\ \A n \in Nat : w[n + 1] = Onwards(w[n])
  <2>1. \A n \in Nat : n + 1 \in Nat /\ n + 1 # 0 /\ n + 1 - 1 = n
    OBVIOUS
  <2> QED BY <1>4, <2>1
<1> DEFINE T == {n \in Nat : w[n] \in SUBSET Int}
<1>6. 0 \in T /\ \A n \in T : n + 1 \in T
  BY <1>1, <1>5
<1>7. T = Nat
  <2> HIDE DEF T
  <2> QED BY <1>6, Upwards DEF T
<1> QED BY <1>4, <1>5, <1>7

\* Reachable is contained in every closed set that holds the entry.
LEMMA ReachableLeast ==
  ASSUME IsProgram, NEW e \in Int, NEW C, e \in C, Closed(C)
  PROVE  Reachable(e) \subseteq C
<1> DEFINE w == Within(e)
           T == {n \in Nat : w[n] \subseteq C}
<1>1. 0 \in T
  BY WithinIs
<1>2. ASSUME NEW n \in T PROVE n + 1 \in T
  BY WithinIs DEF Onwards, Closed
<1>3. T = Nat
  <2> HIDE DEF T
  <2> QED BY <1>1, <1>2, Upwards DEF T
<1> QED BY <1>3, ReachableIsWithin, LimitAssumption

\* It holds the entry and is closed: Limit steps suffice in Limit words.
LEMMA ReachableClosed ==
  ASSUME IsProgram, NEW e \in Int
  PROVE  e \in Reachable(e) /\ Closed(Reachable(e)) /\ Reachable(e) \subseteq Int
<1> DEFINE w == Within(e)
           inside == [n \in Nat |-> w[n] \cap Addresses]
<1>1. \A n \in Nat : w[n] \in SUBSET Int /\ w[n + 1] = Onwards(w[n]) /\ w[n] \subseteq w[n + 1]
  BY WithinIs DEF Onwards
<1>2. w[0] = {e}
  BY WithinIs
<1> HIDE DEF w
<1>3. Limit \in Nat \ {0} /\ Cardinality(Addresses) = Limit /\ IsFiniteSet(Addresses)
  BY LimitAssumption, AddressesAre
<1>4. \E n \in 0 .. Limit - 1 : inside[n + 1] = inside[n]
  <2>1. CASE e \notin Addresses
    <3>1. inside[0] = {} /\ inside[1] = {}
      BY <1>1, <1>2, <2>1 DEF Onwards
    <3>2. 0 \in 0 .. Limit - 1 /\ 0 + 1 = 1
      BY <1>3
    <3> HIDE DEF inside
    <3> QED BY <3>1, <3>2
  <2>2. CASE e \in Addresses
    <3>1. inside[0] = {e} /\ Cardinality(inside[0]) = 1
      BY <1>2, <2>2, FS_Singleton
    <3>2. \A n \in Nat : inside[n] \subseteq Addresses /\ inside[n] \subseteq inside[n + 1]
      BY <1>1
    <3> HIDE DEF inside
    <3>3. \E n \in 0 .. Cardinality(Addresses) - Cardinality(inside[0]) :
            inside[n + 1] = inside[n]
      BY <1>3, <3>2, Saturates
    <3> QED BY <1>3, <3>1, <3>3
  <2> QED BY <2>1, <2>2
<1>5. PICK n \in 0 .. Limit - 1 : inside[n + 1] = inside[n]
  BY <1>4
<1>6. w[n + 1] \cap Addresses = w[n] \cap Addresses /\ n \in Nat
  <2>1. n \in Nat /\ n + 1 \in Nat
    BY <1>3
  <2> QED BY <1>5, <2>1
<1>7. Closed(w[n + 1])
  BY <1>1, <1>6 DEF Closed, Onwards
<1> DEFINE T == {k \in Nat : w[n + 1 + k] = w[n + 1]}
<1>8. 0 \in T
  BY <1>6
<1>9. ASSUME NEW k \in T PROVE k + 1 \in T
  <2>1. n + 1 + k \in Nat /\ n + 1 + (k + 1) = n + 1 + k + 1
    BY <1>6
  <2>2. w[n + 1 + (k + 1)] = Onwards(w[n + 1])
    BY <1>1, <2>1
  <2> QED BY <1>7, <2>2 DEF Onwards, Closed
<1>10. T = Nat
  <2> HIDE DEF T
  <2> QED BY <1>8, <1>9, Upwards DEF T
<1>11. w[Limit] = w[n + 1]
  <2>1. Limit - (n + 1) \in Nat /\ n + 1 + (Limit - (n + 1)) = Limit
    BY <1>3, <1>6
  <2> QED BY <1>10, <2>1
<1> DEFINE S == {k \in Nat : e \in w[k]}
<1>12. S = Nat
  <2>1. 0 \in S /\ \A k \in S : k + 1 \in S
    BY <1>1, <1>2 DEF Onwards
  <2> HIDE DEF S
  <2> QED BY <2>1, Upwards DEF S
<1>13. Reachable(e) = w[Limit]
  BY ReachableIsWithin DEF w
<1> QED BY <1>1, <1>3, <1>7, <1>11, <1>12, <1>13


-----------------------------------------------------------------------------
(***************************************************************************)
(* The linear sweep.                                                       *)
(***************************************************************************)
TracesInside == \A t \in traces : t.addrs \subseteq Addresses

SweepResult == [addrs : SUBSET Addresses, ok : BOOLEAN]

\* The value of the sweep at a, given its values further up.
SweepAt(start, f, a) ==
  CASE Covered(a)  -> [addrs |-> {}, ok |-> TRUE]
    [] a >= Limit  -> [addrs |-> {}, ok |-> start = 0]
    [] OTHER       ->
          IF ~Decodes(a) THEN [addrs |-> {}, ok |-> FALSE]
          ELSE IF EndsTrace(a) THEN [addrs |-> {a}, ok |-> TRUE]
          ELSE [f[After(a)] EXCEPT !.addrs = @ \cup {a}]

SweepFrom(start) == CHOOSE f : f = [a \in 0 .. Limit + 1 |-> SweepAt(start, f, a)]

\* A sweep from an address in memory is what its recursive function gives there.
LEMMA SweepIsSweepFrom ==
  ASSUME NEW start
  PROVE  Sweep(start) = IF start \in Addresses THEN SweepFrom(start)[start]
                        ELSE [addrs |-> {}, ok |-> TRUE]
BY SMT DEF Sweep, SweepFrom, SweepAt

\* The cases of the sweep exclude each other.
LEMMA SweepCases ==
  ASSUME IsProgram, TracesInside, NEW start \in Int,
         NEW f \in [0 .. Limit + 1 -> SweepResult], NEW a \in 0 .. Limit + 1
  PROVE  /\ Covered(a) => a < Limit /\ SweepAt(start, f, a) = [addrs |-> {}, ok |-> TRUE]
         /\ a >= Limit => SweepAt(start, f, a) = [addrs |-> {}, ok |-> start = 0]
         /\ ~Covered(a) /\ a < Limit =>
              /\ a \in Addresses
              /\ ~Decodes(a) => SweepAt(start, f, a) = [addrs |-> {}, ok |-> FALSE]
              /\ Decodes(a) /\ EndsTrace(a) => SweepAt(start, f, a) = [addrs |-> {a}, ok |-> TRUE]
              /\ Decodes(a) /\ ~EndsTrace(a) =>
                   /\ After(a) \in a + 1 .. Limit
                   /\ SweepAt(start, f, a) = [addrs |-> f[After(a)].addrs \cup {a},
                                              ok |-> f[After(a)].ok]
         /\ SweepAt(start, f, a) \in SweepResult
<1>1. Limit \in Nat \ {0}
  BY LimitAssumption
<1>2. ASSUME Covered(a) PROVE a < Limit /\ a \in Addresses
  BY <1>1, <1>2 DEF Covered, TracesInside, Addresses
<1>3. CASE Covered(a)
  <2>1. ~(a >= Limit)
    BY <1>1, <1>2, <1>3
  <2>2. SweepAt(start, f, a) = [addrs |-> {}, ok |-> TRUE]
    BY <1>3, <2>1, Zenon DEF SweepAt
  <2>3. [addrs |-> {}, ok |-> TRUE] \in SweepResult
    BY DEF SweepResult
  <2> QED BY <1>2, <1>3, <2>1, <2>2, <2>3
<1>4. CASE a >= Limit
  <2>1. ~Covered(a)
    BY <1>1, <1>2, <1>4
  <2>2. SweepAt(start, f, a) = [addrs |-> {}, ok |-> start = 0]
    BY <1>4, <2>1, Zenon DEF SweepAt
  <2>3. [addrs |-> {}, ok |-> start = 0] \in SweepResult
    BY DEF SweepResult
  <2> QED BY <1>1, <1>4, <2>1, <2>2, <2>3
<1>5. CASE ~Covered(a) /\ ~(a >= Limit)
  <2>1. a \in Addresses /\ a < Limit
    BY <1>1, <1>5 DEF Addresses
  <2>2. SweepAt(start, f, a) =
          IF ~Decodes(a) THEN [addrs |-> {}, ok |-> FALSE]
          ELSE IF EndsTrace(a) THEN [addrs |-> {a}, ok |-> TRUE]
          ELSE [f[After(a)] EXCEPT !.addrs = @ \cup {a}]
    BY <1>5, Zenon DEF SweepAt
  <2>3. ASSUME Decodes(a)
        PROVE  /\ After(a) \in a + 1 .. Limit /\ After(a) \in 0 .. Limit + 1
               /\ f[After(a)] \in SweepResult
               /\ [f[After(a)] EXCEPT !.addrs = @ \cup {a}] =
                    [addrs |-> f[After(a)].addrs \cup {a}, ok |-> f[After(a)].ok]
    <3>1. After(a) \in a + 1 .. Limit /\ After(a) \in 0 .. Limit + 1
      BY <1>1, <2>1, <2>3, AddressesAre DEF Decodes
    <3>2. f[After(a)] \in SweepResult
      BY <3>1
    <3> DEFINE rest == f[After(a)]
    <3>3. rest \in SweepResult
      BY <3>2
    <3> HIDE DEF rest
    <3>4. [rest EXCEPT !.addrs = @ \cup {a}] = [addrs |-> rest.addrs \cup {a}, ok |-> rest.ok]
      <4> DEFINE S == rest.addrs \cup {a}
      <4>1. [rest EXCEPT !.addrs = S] = [addrs |-> S, ok |-> rest.ok]
        <5> HIDE DEF S
        <5> QED BY <3>3 DEF SweepResult
      <4> QED BY <4>1, Zenon
    <3> QED BY <3>1, <3>2, <3>4 DEF rest
  <2>4. SweepAt(start, f, a) \in SweepResult
    <3>1. ASSUME NEW r \in SweepResult
          PROVE  [addrs |-> r.addrs \cup {a}, ok |-> r.ok] \in SweepResult
      BY <2>1 DEF SweepResult
    <3>2. /\ [addrs |-> {}, ok |-> FALSE] \in SweepResult
          /\ [addrs |-> {a}, ok |-> TRUE] \in SweepResult
      BY <2>1 DEF SweepResult
    <3>3. CASE Decodes(a) /\ ~EndsTrace(a)
      <4>1. SweepAt(start, f, a) = [addrs |-> f[After(a)].addrs \cup {a}, ok |-> f[After(a)].ok]
        BY <2>2, <2>3, <3>3, Zenon
      <4> QED BY <2>3, <3>1, <3>3, <4>1, Zenon
    <3> QED BY <2>2, <3>2, <3>3, Zenon
  <2> QED BY <1>5, <2>1, <2>2, <2>3, <2>4, Zenon
<1> QED BY <1>3, <1>4, <1>5, Zenon

\* The sweep satisfies its own equation.
LEMMA SweepFromIs ==
  ASSUME IsProgram, TracesInside, NEW start \in Int
  PROVE  /\ SweepFrom(start) \in [0 .. Limit + 1 -> SweepResult]
         /\ \A a \in 0 .. Limit + 1 :
              SweepFrom(start)[a] = SweepAt(start, SweepFrom(start), a)
<1> DEFINE N == Limit + 1
           Fns == [0 .. N -> SweepResult]
           step == [f \in Fns |-> [a \in 0 .. N |-> SweepAt(start, f, a)]]
<1>1. Limit \in Nat \ {0} /\ N \in Nat
  BY LimitAssumption
<1>2. \A f \in Fns : \A a \in 0 .. N : SweepAt(start, f, a) \in SweepResult
  BY SweepCases, Zenon
<1>3. step \in [Fns -> Fns]
  BY <1>2
<1>4. ASSUME NEW f \in Fns, NEW h \in Fns, NEW a \in 0 .. N,
             \A b \in a + 1 .. N : f[b] = h[b]
      PROVE  step[f][a] = step[h][a]
  <2>1. CASE ~Covered(a) /\ a < Limit /\ Decodes(a) /\ ~EndsTrace(a)
    <3>1. After(a) \in a + 1 .. Limit
      BY <2>1, SweepCases, Zenon
    <3>2. After(a) \in a + 1 .. N
      BY <1>1, <3>1
    <3>3. f[After(a)] = h[After(a)]
      BY <1>4, <3>2, Zenon
    <3>4. SweepAt(start, f, a) = SweepAt(start, h, a)
      BY <3>3, Zenon DEF SweepAt
    <3> QED BY <3>4
  <2>2. CASE ~(~Covered(a) /\ a < Limit /\ Decodes(a) /\ ~EndsTrace(a))
    <3>1. a >= Limit \/ a < Limit
      BY <1>1
    <3>2. SweepAt(start, f, a) = SweepAt(start, h, a)
      <4> DEFINE Is(k) == /\ Covered(a) => SweepAt(start, k, a) = [addrs |-> {}, ok |-> TRUE]
                          /\ a >= Limit => SweepAt(start, k, a) = [addrs |-> {}, ok |-> start = 0]
                          /\ ~Covered(a) /\ a < Limit /\ ~Decodes(a) =>
                               SweepAt(start, k, a) = [addrs |-> {}, ok |-> FALSE]
                          /\ ~Covered(a) /\ a < Limit /\ Decodes(a) /\ EndsTrace(a) =>
                               SweepAt(start, k, a) = [addrs |-> {a}, ok |-> TRUE]
      <4>0. Is(f) /\ Is(h)
        <5>1. \A k \in Fns : Is(k)
          BY SweepCases
        <5> QED BY <5>1
      <4>1. CASE Covered(a)
        BY <4>0, <4>1, Zenon
      <4>2. CASE a >= Limit
        BY <4>0, <4>2, Zenon
      <4>3. CASE ~Covered(a) /\ a < Limit
        BY <2>2, <4>0, <4>3, Zenon
      <4> QED BY <3>1, <4>1, <4>2, <4>3, Zenon
    <3> QED BY <3>2
  <2> QED BY <2>1, <2>2
<1>5. SweepResult # {}
  <2>1. [addrs |-> {}, ok |-> TRUE] \in SweepResult
    BY DEF SweepResult
  <2> QED BY <2>1
<1>6. PICK g \in Fns : g = step[g]
  <2> DEFINE F == Fns
             s == step
             M == N
  <2>1. M \in Nat
    BY <1>1
  <2>2. F = [0 .. M -> SweepResult]
    OBVIOUS
  <2>3. s \in [F -> F]
    BY <1>3
  <2>4. LooksUp(M, F, s)
    BY <1>4, Zenon DEF LooksUp
  <2> HIDE DEF F, s, M
  <2>5. \E x \in F : x = s[x]
    BY ONLY <2>1, <1>5, <2>2, <2>3, <2>4, DownwardRecursion
  <2> QED BY <2>5, Zenon DEF F, s
<1>7. g = [a \in 0 .. Limit + 1 |-> SweepAt(start, g, a)]
  BY <1>6
<1>8. SweepFrom(start) = [a \in 0 .. Limit + 1 |-> SweepAt(start, SweepFrom(start), a)]
  BY <1>7, Zenon DEF SweepFrom
<1> DEFINE s == SweepFrom(start)
           T == {a \in 0 .. N : s[a] \in SweepResult}
<1>9. ASSUME NEW a \in 0 .. N, \A b \in a + 1 .. N : b \in T PROVE a \in T
  <2> DEFINE h == [b \in 0 .. N |-> IF b \in a + 1 .. N THEN s[b] ELSE g[b]]
  <2>1. h \in Fns
    BY <1>6, <1>9
  <2>2. SweepAt(start, s, a) = SweepAt(start, h, a)
    <3>1. CASE ~Covered(a) /\ a < Limit /\ Decodes(a) /\ ~EndsTrace(a)
      <4>1. After(a) \in a + 1 .. Limit
        <5> HIDE DEF h
        <5> QED BY <2>1, <3>1, SweepCases, Zenon
      <4>2. After(a) \in a + 1 .. N /\ After(a) \in 0 .. N
        BY <1>1, <4>1
      <4>3. h[After(a)] = s[After(a)]
        BY <4>2
      <4> QED BY <4>3, Zenon DEF SweepAt
    <3>2. CASE Covered(a) \/ ~Decodes(a) \/ EndsTrace(a)
      <4>1. Covered(a) => ~(a >= Limit)
        BY <1>1 DEF Covered, TracesInside, Addresses
      <4> HIDE DEF s, h
      <4> QED BY <3>2, <4>1, Zenon DEF SweepAt
    <3>3. CASE ~Covered(a) /\ a >= Limit
      <4> HIDE DEF s, h
      <4> QED BY <3>3, Zenon DEF SweepAt
    <3>4. a >= Limit \/ a < Limit
      BY <1>1
    <3> QED BY <3>1, <3>2, <3>3, <3>4, Zenon
  <2>3. s[a] = SweepAt(start, s, a)
    BY <1>8
  <2>4. SweepAt(start, h, a) \in SweepResult
    <3> HIDE DEF h
    <3> QED BY <2>1, SweepCases, Zenon
  <2> HIDE DEF h
  <2> QED BY <2>2, <2>3, <2>4, Zenon
<1>10. 0 .. N \subseteq T
  <2> HIDE DEF T, N
  <2>1. N \in Int
    BY <1>1
  <2> QED BY <1>9, <2>1, Downwards
<1>11. s \in Fns
  <2>1. s = [a \in 0 .. N |-> s[a]]
    BY <1>8
  <2> HIDE DEF s
  <2> QED BY <1>10, <2>1
<1> QED BY <1>8, <1>11

\* One step of the sweep, by what is at a.
LEMMA SweepFromCases ==
  ASSUME IsProgram, TracesInside, NEW start \in Int, NEW a \in 0 .. Limit + 1,
         NEW s, s = SweepFrom(start)
  PROVE  /\ s[a].addrs \subseteq Addresses
         /\ \/ Covered(a) /\ a \in Addresses /\ s[a].addrs = {} /\ s[a].ok = TRUE
            \/ a >= Limit /\ s[a].addrs = {} /\ s[a].ok = (start = 0)
            \/ a \in Addresses /\ ~Decodes(a) /\ s[a].addrs = {} /\ s[a].ok = FALSE
            \/ /\ a \in Addresses /\ ~Covered(a) /\ Decodes(a) /\ EndsTrace(a)
               /\ s[a].addrs = {a} /\ s[a].ok = TRUE
            \/ /\ a \in Addresses /\ ~Covered(a) /\ Decodes(a) /\ ~EndsTrace(a)
               /\ After(a) \in a + 1 .. Limit
               /\ s[a].addrs = s[After(a)].addrs \cup {a} /\ s[a].ok = s[After(a)].ok
<1>1. s \in [0 .. Limit + 1 -> SweepResult] /\ s[a] = SweepAt(start, s, a)
  BY SweepFromIs
<1>2. s[a] \in SweepResult
  BY <1>1
<1>3. s[a].addrs \subseteq Addresses
  BY <1>2 DEF SweepResult
<1>4. Covered(a) => a \in Addresses
  BY DEF Covered, TracesInside
<1>5. a >= Limit \/ a < Limit
  BY LimitAssumption
<1>6. /\ Covered(a) => s[a] = [addrs |-> {}, ok |-> TRUE]
      /\ a >= Limit => s[a] = [addrs |-> {}, ok |-> start = 0]
      /\ ~Covered(a) /\ a < Limit =>
              /\ a \in Addresses
              /\ ~Decodes(a) => s[a] = [addrs |-> {}, ok |-> FALSE]
              /\ Decodes(a) /\ EndsTrace(a) => s[a] = [addrs |-> {a}, ok |-> TRUE]
              /\ Decodes(a) /\ ~EndsTrace(a) =>
                   /\ After(a) \in a + 1 .. Limit
                   /\ s[a] = [addrs |-> s[After(a)].addrs \cup {a}, ok |-> s[After(a)].ok]
  BY <1>1, SweepCases
<1>7. CASE Covered(a)
  BY <1>3, <1>4, <1>6, <1>7
<1>8. CASE a >= Limit
  BY <1>3, <1>6, <1>8
<1>9. CASE ~Covered(a) /\ a < Limit
  <2>1. CASE ~Decodes(a)
    BY <1>3, <1>6, <1>9, <2>1
  <2>2. CASE Decodes(a) /\ EndsTrace(a)
    BY <1>3, <1>6, <1>9, <2>2
  <2>3. CASE Decodes(a) /\ ~EndsTrace(a)
    BY <1>3, <1>6, <1>9, <2>3
  <2> QED BY <2>1, <2>2, <2>3
<1> QED BY <1>5, <1>7, <1>8, <1>9

\* What a sweep holds: instructions that no trace holds yet, each behind the one
\* before it without a gap; only the last ends the trace. If the sweep succeeds, it
\* starts where it was asked to and ends at a terminator or before known code.
LEMMA SweepHolds ==
  ASSUME IsProgram, TracesInside, NEW start \in Int, NEW a \in 0 .. Limit + 1,
         NEW s, s = SweepFrom(start)
  PROVE  /\ s[a].addrs \subseteq Addresses
         /\ \A x \in s[a].addrs : x >= a /\ ~Covered(x) /\ Decodes(x)
         /\ s[a].ok => Covered(a) \/ a >= Limit \/ a \in s[a].addrs
         /\ s[a].ok => \A x \in s[a].addrs :
              EndsTrace(x) \/ After(x) \in s[a].addrs \/ Covered(After(x)) \/ After(x) = Limit
         /\ \A x, y \in s[a].addrs :
              x < y => ~EndsTrace(x) /\ After(x) \in s[a].addrs /\ After(x) <= y
         /\ s[a].addrs # {} => a \in s[a].addrs
<1> DEFINE Holds(b) ==
             /\ s[b].addrs \subseteq Addresses
             /\ \A x \in s[b].addrs : x >= b /\ ~Covered(x) /\ Decodes(x)
             /\ s[b].ok => Covered(b) \/ b >= Limit \/ b \in s[b].addrs
             /\ s[b].ok => \A x \in s[b].addrs :
                  EndsTrace(x) \/ After(x) \in s[b].addrs \/ Covered(After(x)) \/ After(x) = Limit
             /\ \A x, y \in s[b].addrs :
                  x < y => ~EndsTrace(x) /\ After(x) \in s[b].addrs /\ After(x) <= y
             /\ s[b].addrs # {} => b \in s[b].addrs
           T == {b \in 0 .. Limit + 1 : Holds(b)}
<1>1. Limit \in Nat \ {0}
  BY LimitAssumption
<1>2. ASSUME NEW b \in 0 .. Limit + 1, \A m \in b + 1 .. Limit + 1 : m \in T PROVE b \in T
  <2>1. CASE (Covered(b) \/ b >= Limit \/ s[b].ok = FALSE) /\ s[b].addrs = {}
    BY <2>1
  <2>2. CASE /\ b \in Addresses /\ ~Covered(b) /\ Decodes(b) /\ EndsTrace(b)
             /\ s[b].addrs = {b}
    <3>1. b \in Int /\ s[b].addrs \subseteq Addresses
      BY <2>2, SweepFromCases
    <3> QED BY <2>2, <3>1
  <2>3. CASE /\ b \in Addresses /\ ~Covered(b) /\ Decodes(b) /\ ~EndsTrace(b)
             /\ After(b) \in b + 1 .. Limit
             /\ s[b].addrs = s[After(b)].addrs \cup {b} /\ s[b].ok = s[After(b)].ok
    <3> DEFINE n == After(b)
    <3>1. n \in b + 1 .. Limit + 1 /\ n \in 0 .. Limit + 1 /\ n <= Limit /\ b \in Int
      BY <1>1, <2>3
    <3>2. Holds(n)
      BY <1>2, <3>1
    <3>3. s[b].addrs \subseteq Addresses
      BY SweepFromCases
    <3>4. ASSUME NEW x \in s[b].addrs PROVE x >= b /\ ~Covered(x) /\ Decodes(x)
      <4>1. CASE x = b
        BY <2>3, <3>1, <4>1
      <4>2. CASE x \in s[n].addrs
        <5>1. x >= n /\ x \in Int /\ ~Covered(x) /\ Decodes(x)
          BY <3>2, <4>2 DEF Addresses
        <5> QED BY <3>1, <5>1
      <4> QED BY <2>3, <4>1, <4>2
    <3>5. ASSUME s[b].ok, NEW x \in s[b].addrs
          PROVE  EndsTrace(x) \/ After(x) \in s[b].addrs \/ Covered(After(x)) \/ After(x) = Limit
      <4>1. CASE x = b
        <5>1. Covered(n) \/ n >= Limit \/ n \in s[n].addrs
          BY <2>3, <3>2, <3>5
        <5>2. n >= Limit => n = Limit
          BY <1>1, <3>1
        <5> QED BY <2>3, <4>1, <5>1, <5>2
      <4>2. CASE x \in s[n].addrs
        BY <2>3, <3>2, <3>5, <4>2
      <4> QED BY <2>3, <4>1, <4>2
    <3>6. ASSUME NEW x \in s[b].addrs, NEW y \in s[b].addrs, x < y
          PROVE  ~EndsTrace(x) /\ After(x) \in s[b].addrs /\ After(x) <= y
      <4>1. x \in Int /\ y \in Int
        BY <3>3, <3>6 DEF Addresses
      <4>2. \A z \in s[n].addrs : z >= n /\ z \in Int
        BY <3>2 DEF Addresses
      <4>3. CASE x = b
        <5>1. y \in s[n].addrs
          BY <2>3, <3>6, <4>1, <4>3
        <5>2. n \in s[n].addrs /\ n <= y
          BY <3>1, <3>2, <4>2, <5>1
        <5> QED BY <2>3, <4>3, <5>2
      <4>4. CASE x # b
        <5>1. x \in s[n].addrs
          BY <2>3, <4>4
        <5>2. y # b
          BY <3>1, <3>6, <4>1, <4>2, <5>1
        <5>3. y \in s[n].addrs
          BY <2>3, <5>2
        <5> QED BY <2>3, <3>2, <3>6, <5>1, <5>3
      <4> QED BY <4>3, <4>4
    <3>7. b \in s[b].addrs
      BY <2>3
    <3> HIDE DEF n
    <3> QED BY <3>3, <3>4, <3>5, <3>6, <3>7
  <2>4. \/ (Covered(b) \/ b >= Limit \/ s[b].ok = FALSE) /\ s[b].addrs = {}
        \/ /\ b \in Addresses /\ ~Covered(b) /\ Decodes(b) /\ EndsTrace(b)
           /\ s[b].addrs = {b}
        \/ /\ b \in Addresses /\ ~Covered(b) /\ Decodes(b) /\ ~EndsTrace(b)
           /\ After(b) \in b + 1 .. Limit
           /\ s[b].addrs = s[After(b)].addrs \cup {b} /\ s[b].ok = s[After(b)].ok
    <3> HIDE DEF T
    <3> QED BY SweepFromCases
  <2> HIDE DEF T
  <2> QED BY <2>1, <2>2, <2>3, <2>4
<1>3. 0 .. Limit + 1 \subseteq T
  <2>1. Limit + 1 \in Int
    BY <1>1
  <2> HIDE DEF T
  <2> QED BY <1>2, <2>1, Downwards
<1> HIDE DEF Holds
<1>4. Holds(a)
  BY <1>3
<1> QED BY <1>4 DEF Holds

\* A sweep stays where control can go, and fails only if control runs into what is
\* not code.
LEMMA SweepStays ==
  ASSUME IsProgram, TracesInside, NEW start \in Int, NEW a \in 0 .. Limit + 1,
         NEW s, s = SweepFrom(start), NEW C, Closed(C), a \in C
  PROVE  /\ s[a].addrs \subseteq C
         /\ ~s[a].ok => \E x \in C : x \notin Addresses \/ ~Decodes(x)
<1> DEFINE Stays(b) == b \in C =>
             /\ s[b].addrs \subseteq C
             /\ ~s[b].ok => \E x \in C : x \notin Addresses \/ ~Decodes(x)
           T == {b \in 0 .. Limit + 1 : Stays(b)}
<1>1. Limit \in Nat \ {0}
  BY LimitAssumption
<1>2. ASSUME NEW b \in 0 .. Limit + 1, \A m \in b + 1 .. Limit + 1 : m \in T PROVE b \in T
  <2> SUFFICES ASSUME b \in C
               PROVE  /\ s[b].addrs \subseteq C
                      /\ ~s[b].ok => \E x \in C : x \notin Addresses \/ ~Decodes(x)
    OBVIOUS
  <2>2. CASE b >= Limit /\ s[b].addrs = {}
    <3>1. b \notin Addresses
      BY <1>1, <2>2 DEF Addresses
    <3> QED BY <2>2, <3>1
  <2>3. CASE b \in Addresses /\ ~Decodes(b) /\ s[b].addrs = {}
    BY <2>3
  <2>4. CASE s[b].addrs \subseteq {b} /\ s[b].ok = TRUE
    BY <2>4
  <2>5. CASE /\ b \in Addresses /\ Decodes(b) /\ ~EndsTrace(b)
             /\ After(b) \in b + 1 .. Limit
             /\ s[b].addrs = s[After(b)].addrs \cup {b} /\ s[b].ok = s[After(b)].ok
    <3>1. After(b) \in b + 1 .. Limit + 1
      BY <1>1, <2>5
    <3>2. code[b].op \in {"salu", "valu", "exec", "cond"}
      <4>1. code[b] \in Instruction
        BY <2>5 DEF IsProgram
      <4>2. code[b].op \in Ops
        BY <4>1 DEF Instruction
      <4> QED BY <2>5, <4>2 DEF Ops, EndsTrace, Decodes
    <3>3. After(b) \in Successors(b)
      BY <3>2 DEF Successors
    <3>4. After(b) \in C
      BY <2>5, <3>3 DEF Closed
    <3>5. Stays(After(b))
      BY <1>2, <3>1
    <3> QED BY <2>5, <3>4, <3>5
  <2> HIDE DEF T
  <2>6. \/ b >= Limit /\ s[b].addrs = {}
        \/ b \in Addresses /\ ~Decodes(b) /\ s[b].addrs = {}
        \/ s[b].addrs \subseteq {b} /\ s[b].ok = TRUE
        \/ /\ b \in Addresses /\ Decodes(b) /\ ~EndsTrace(b)
           /\ After(b) \in b + 1 .. Limit
           /\ s[b].addrs = s[After(b)].addrs \cup {b} /\ s[b].ok = s[After(b)].ok
    BY SweepFromCases
  <2> QED BY <2>2, <2>3, <2>4, <2>5, <2>6
<1>3. 0 .. Limit + 1 \subseteq T
  <2>1. Limit + 1 \in Int
    BY <1>1
  <2> HIDE DEF T
  <2> QED BY <1>2, <2>1, Downwards
<1> HIDE DEF Stays
<1>4. Stays(a)
  BY <1>3
<1> QED BY <1>4 DEF Stays

\* What one sweep adds to the traces there are.
LEMMA SweepAdds ==
  ASSUME IsProgram, TracesInside, NEW a \in Int, ~Covered(a),
         NEW w, w = Sweep(a), NEW C, Closed(C), a \in C
  PROVE  /\ w.addrs \subseteq Addresses \cap C
         /\ w.ok => (a \in Addresses => a \in w.addrs)
         /\ w.addrs # {} => a \in w.addrs
         /\ \A x \in w.addrs : x >= a /\ ~Covered(x) /\ Decodes(x)
         /\ w.ok => \A x \in w.addrs :
              EndsTrace(x) \/ After(x) \in w.addrs \/ Covered(After(x)) \/ After(x) = Limit
         /\ \A x, y \in w.addrs :
              x < y => ~EndsTrace(x) /\ After(x) \in w.addrs /\ After(x) <= y
         /\ ~w.ok => \E x \in C : x \notin Addresses \/ ~Decodes(x)
<1>1. CASE a \in Addresses
  <2>1. w = SweepFrom(a)[a]
    BY <1>1, SweepIsSweepFrom
  <2> DEFINE s == SweepFrom(a)
  <2>2. a \in 0 .. Limit + 1 /\ ~(a >= Limit)
    BY <1>1, LimitAssumption DEF Addresses
  <2>3. s = SweepFrom(a)
    OBVIOUS
  <2> HIDE DEF s
  <2>4. /\ s[a].addrs \subseteq C
        /\ ~s[a].ok => \E x \in C : x \notin Addresses \/ ~Decodes(x)
    BY <2>2, <2>3, SweepStays
  <2>5. /\ s[a].addrs \subseteq Addresses
        /\ \A x \in s[a].addrs : x >= a /\ ~Covered(x) /\ Decodes(x)
        /\ s[a].ok => Covered(a) \/ a >= Limit \/ a \in s[a].addrs
        /\ s[a].ok => \A x \in s[a].addrs :
             EndsTrace(x) \/ After(x) \in s[a].addrs \/ Covered(After(x)) \/ After(x) = Limit
        /\ \A x, y \in s[a].addrs :
             x < y => ~EndsTrace(x) /\ After(x) \in s[a].addrs /\ After(x) <= y
        /\ s[a].addrs # {} => a \in s[a].addrs
    BY <2>2, <2>3, SweepHolds
  <2>6. w = s[a]
    BY <2>1, <2>3
  <2> QED BY <2>2, <2>4, <2>5, <2>6
<1>2. CASE a \notin Addresses
  <2>1. w = [addrs |-> {}, ok |-> TRUE]
    BY <1>2, SweepIsSweepFrom
  <2>2. w.addrs = {} /\ w.ok = TRUE
    BY <2>1
  <2> QED BY <1>2, <2>2
<1> QED BY <1>1, <1>2

\* Integers that are bounded below have a lowest one.
LEMMA LowestIs ==
  ASSUME NEW S \in SUBSET Int, S # {}, NEW n \in Int, \A x \in S : n <= x
  PROVE  Lowest(S) \in S /\ \A x \in S : Lowest(S) <= x
<1> DEFINE B == {k \in Nat : k + n \in S}
<1>1. PICK t \in S : TRUE
  OBVIOUS
<1>2. t - n \in B
  BY <1>1
<1>3. PICK x \in B : \A y \in B : x <= y
  BY <1>2, LeastNatural
<1>4. ASSUME NEW y \in S PROVE x + n <= y
  <2>1. y - n \in B
    BY <1>4
  <2>2. x <= y - n /\ x \in Int /\ y \in Int
    BY <1>3, <2>1
  <2> QED BY <2>2
<1>5. x + n \in S
  BY <1>3
<1> QED BY <1>4, <1>5, Zenon DEF Lowest

-----------------------------------------------------------------------------
(***************************************************************************)
(* The traces of one function. R is the code the entry reaches.            *)
(***************************************************************************)
Undecodable(R) == \E x \in R : x \notin Addresses \/ ~Decodes(x)

\* Each trace is a run of instructions without a gap, and only its last ends it.
TraceIsRun(t) ==
  /\ t.first \in t.addrs
  /\ t.addrs \subseteq Addresses
  /\ \A x \in t.addrs : x >= t.first /\ Decodes(x)
  /\ \A x, y \in t.addrs : x < y => ~EndsTrace(x) /\ After(x) \in t.addrs /\ After(x) <= y

\* Nothing is lost on the way: what a traced instruction leads to is traced or waits.
TracesSoFar(R) ==
  /\ unvisitedTraceAddresses \subseteq R
  /\ TracedAddresses \subseteq R
  /\ \A t \in traces : TraceIsRun(t)
  /\ \A t, u \in traces : t # u => t.addrs \cap u.addrs = {}
  /\ entry \in TracedAddresses \cup unvisitedTraceAddresses
  /\ \A a \in TracedAddresses :
       /\ EndsTrace(a) \/ After(a) \in TracedAddresses \/ After(a) = Limit
       /\ IsDirectBranch(a) =>
            /\ code[a].target \in directBranchTargets
            /\ code[a].target \in Addresses =>
                 code[a].target \in TracedAddresses \cup unvisitedTraceAddresses
  /\ directBranchTargets \subseteq {code[a].target : a \in TracedAddresses}
  /\ sweepFailed \in BOOLEAN /\ (sweepFailed => Undecodable(R))

\* Where the program stays, so does all that is read off it.
LEMMA SameProgram ==
  ASSUME code' = code
  PROVE  /\ IsProgram' <=> IsProgram
         /\ \A a : After(a)' = After(a)
         /\ \A a : EndsTrace(a)' <=> EndsTrace(a)
         /\ \A a : Decodes(a)' <=> Decodes(a)
         /\ \A a : IsDirectBranch(a)' <=> IsDirectBranch(a)
         /\ \A a : Successors(a)' = Successors(a)
         /\ \A e : Reachable(e)' = Reachable(e)
<1>1. (IsProgram' <=> IsProgram) /\ \A a : After(a)' = After(a)
  BY DEF IsProgram, After
<1>2. /\ \A a : EndsTrace(a)' <=> EndsTrace(a)
      /\ \A a : Decodes(a)' <=> Decodes(a)
      /\ \A a : IsDirectBranch(a)' <=> IsDirectBranch(a)
  BY DEF EndsTrace, Decodes, IsDirectBranch, After
<1>3. ASSUME NEW a PROVE Successors(a)' = Successors(a)
  BY SMT DEF Successors, After
<1>4. ASSUME NEW e PROVE Reachable(e)' = Reachable(e)
  BY SMT DEF Reachable, Successors, After
<1> QED BY <1>1, <1>2, <1>3, <1>4

\* The traced addresses are those that a trace covers.
LEMMA TracedIs == \A a : a \in TracedAddresses <=> Covered(a)
BY DEF TracedAddresses, Covered

\* The code the entry reaches is closed and bounded below.
LEMMA ReachableFrom ==
  ASSUME IsProgram, entry \in Addresses
  PROVE  /\ Reachable(entry) \subseteq {x \in Int : x >= -1}
         /\ Closed(Reachable(entry)) /\ entry \in Reachable(entry) /\ entry \in Int
<1> DEFINE C == {x \in Int : x >= -1}
<1>1. entry \in Int /\ entry \in C
  BY AddressesAre
<1>2. ASSUME NEW a \in Addresses PROVE Successors(a) \subseteq C
  <2>1. code[a] \in Instruction
    BY DEF IsProgram
  <2>2. code[a].target \in C
    BY <2>1, LimitAssumption DEF Instruction, Addresses, Unknown
  <2>3. After(a) \in C
    BY AddressesAre
  <2> HIDE DEF C
  <2> QED BY <2>2, <2>3 DEF Successors
<1>3. Closed(C)
  <2> HIDE DEF C
  <2> QED BY <1>2 DEF Closed
<1>4. Reachable(entry) \subseteq C
  <2> HIDE DEF C
  <2> QED BY <1>1, <1>3, ReachableLeast
<1> QED BY <1>1, <1>4, ReachableClosed

\* The address that is swept next, or skipped, is in the code the entry reaches.
LEMMA NextAddress ==
  ASSUME IsProgram, entry \in Addresses, TracesSoFar(Reachable(entry)), unvisitedTraceAddresses # {}
  PROVE  /\ Lowest(unvisitedTraceAddresses) \in unvisitedTraceAddresses
         /\ Lowest(unvisitedTraceAddresses) \in Reachable(entry) \cap Int
<1> DEFINE U == unvisitedTraceAddresses
<1>1. U \subseteq Reachable(entry) /\ U \in SUBSET Int /\ U # {} /\ -1 \in Int /\ \A x \in U : -1 <= x
  BY ReachableFrom DEF TracesSoFar
<1>2. Lowest(U) \in U
  <2> HIDE DEF U
  <2> QED BY <1>1, LowestIs
<1> QED BY <1>1, <1>2

\* Any trace the analysis adds keeps what it has found.
LEMMA TracesGrow ==
  ASSUME IsProgram, entry \in Addresses, TracesSoFar(Reachable(entry)),
         DisassembleTrace, code' = code, entry' = entry
  PROVE  TracesSoFar(Reachable(entry))'
<1> DEFINE a == Lowest(unvisitedTraceAddresses)
           w == Sweep(a)
           targets == BranchTargetsOf(w.addrs)
           unseen == {t \in targets : t \notin w.addrs /\ ~Covered(t)}
           R == Reachable(entry)
           new == [first |-> a, last |-> Highest(w.addrs), addrs |-> w.addrs]
<1>1. /\ a \in unvisitedTraceAddresses /\ a \in R /\ a \in Int
      /\ Closed(R) /\ R \subseteq Int
  BY NextAddress, ReachableFrom DEF DisassembleTrace
<1>2. /\ ~Covered(a)
      /\ sweepFailed' = ~w.ok
      /\ IF w.ok
         THEN /\ directBranchTargets' = directBranchTargets \cup targets
              /\ unvisitedTraceAddresses' = (unvisitedTraceAddresses \cup unseen) \ {a}
              /\ traces' = IF w.addrs = {} THEN traces ELSE traces \cup {new}
         ELSE UNCHANGED <<unvisitedTraceAddresses, traces, directBranchTargets>>
  BY DEF DisassembleTrace
<1>3. TracesInside
  BY DEF TracesSoFar, TraceIsRun, TracesInside
<1>4. a = Lowest(unvisitedTraceAddresses) /\ w = Sweep(a) /\ R = Reachable(entry)
  OBVIOUS
<1>5. targets = {code[b].target : b \in {b \in w.addrs : IsDirectBranch(b)}}
  BY DEF BranchTargetsOf
<1> HIDE DEF a, w, R
<1>6. /\ w.addrs \subseteq Addresses \cap R
      /\ w.ok => (a \in Addresses => a \in w.addrs)
      /\ w.addrs # {} => a \in w.addrs
      /\ \A x \in w.addrs : x >= a /\ ~Covered(x) /\ Decodes(x)
      /\ w.ok => \A x \in w.addrs :
           EndsTrace(x) \/ After(x) \in w.addrs \/ Covered(After(x)) \/ After(x) = Limit
      /\ \A x, y \in w.addrs :
           x < y => ~EndsTrace(x) /\ After(x) \in w.addrs /\ After(x) <= y
      /\ ~w.ok => Undecodable(R)
  <2> HIDE DEF new, targets, unseen
  <2> QED BY <1>1, <1>2, <1>3, <1>4, SweepAdds DEF Undecodable
<1>7. R' = R
  BY SameProgram DEF R
<1>8. TracesSoFar(R)
  BY <1>4
<1>9. Undecodable(R)' <=> Undecodable(R)
  BY <1>7, SameProgram DEF Undecodable
<1> HIDE DEF targets, unseen, new
<1>10. CASE ~w.ok
  <2>1. UNCHANGED <<unvisitedTraceAddresses, traces, directBranchTargets>> /\ sweepFailed' = TRUE
    BY <1>2, <1>10
  <2>2. TracedAddresses' = TracedAddresses
    BY <2>1 DEF TracedAddresses
  <2>3. \A t \in traces : TraceIsRun(t)'
    BY <1>8, SameProgram DEF TracesSoFar, TraceIsRun
  <2>4. Undecodable(R)'
    BY <1>6, <1>9, <1>10
  <2>5. TracesSoFar(R)'
    BY <1>7, <1>8, <2>1, <2>2, <2>3, <2>4, SameProgram DEF TracesSoFar
  <2> QED BY <2>5 DEF R
<1>11. CASE w.ok
  <2>1. /\ directBranchTargets' = directBranchTargets \cup targets
        /\ unvisitedTraceAddresses' = (unvisitedTraceAddresses \cup unseen) \ {a}
        /\ traces' = IF w.addrs = {} THEN traces ELSE traces \cup {new}
        /\ sweepFailed' = FALSE
    BY <1>2, <1>11
  <2>2. new.first = a /\ new.addrs = w.addrs
    BY DEF new
  <2>3. TracedAddresses' = TracedAddresses \cup w.addrs
    <3>1. CASE w.addrs = {}
      BY <2>1, <3>1 DEF TracedAddresses
    <3>2. CASE w.addrs # {}
      BY <2>1, <2>2, <3>2 DEF TracedAddresses
    <3> QED BY <3>1, <3>2
  <2>4. ASSUME NEW b \in w.addrs, IsDirectBranch(b)
        PROVE  /\ code[b].target \in targets /\ code[b].target \in R
               /\ \/ code[b].target \in TracedAddresses \cup w.addrs
                  \/ code[b].target \in unseen
    <3>1. code[b].target \in targets
      BY <1>5, <2>4
    <3>2. code[b].target \in Successors(b)
      <4>1. code[b].op \in {"cond", "branch"}
        BY <2>4 DEF IsDirectBranch
      <4> QED BY <4>1 DEF Successors
    <3>3. code[b].target \in R
      BY <1>1, <1>6, <3>2 DEF Closed
    <3> QED BY <3>1, <3>3, TracedIs DEF unseen
  <2>5. unseen \subseteq R
    BY <1>5, <2>4 DEF unseen
  <2>6. unvisitedTraceAddresses' \subseteq R
    BY <1>8, <2>1, <2>5 DEF TracesSoFar
  <2>7. TracedAddresses' \subseteq R
    BY <1>6, <1>8, <2>3 DEF TracesSoFar
  <2>8. ASSUME w.addrs # {} PROVE TraceIsRun(new)
    BY <1>6, <2>2, <2>8 DEF TraceIsRun
  <2>9. \A t \in traces' : TraceIsRun(t)
    BY <1>8, <2>1, <2>8 DEF TracesSoFar
  <2>10. \A t \in traces' : TraceIsRun(t)'
    BY <2>9, SameProgram DEF TraceIsRun
  <2>11. \A t, u \in traces' : t # u => t.addrs \cap u.addrs = {}
    <3>1. \A t \in traces : t.addrs \cap w.addrs = {}
      BY <1>6 DEF Covered
    <3>2. \A t, u \in traces : t # u => t.addrs \cap u.addrs = {}
      BY <1>8 DEF TracesSoFar
    <3> QED BY <2>1, <2>2, <3>1, <3>2
  <2>12. a \in Addresses => a \in w.addrs
    BY <1>6, <1>11
  <2>13. entry' \in TracedAddresses' \cup unvisitedTraceAddresses'
    <3>1. entry \in TracedAddresses \cup unvisitedTraceAddresses
      BY <1>8 DEF TracesSoFar
    <3> QED BY <2>1, <2>3, <2>12, <3>1
  <2>14. ASSUME NEW b \in TracedAddresses'
         PROVE  /\ EndsTrace(b) \/ After(b) \in TracedAddresses' \/ After(b) = Limit
                /\ IsDirectBranch(b) =>
                     /\ code[b].target \in directBranchTargets'
                     /\ code[b].target \in Addresses =>
                          code[b].target \in TracedAddresses' \cup unvisitedTraceAddresses'
    <3>1. CASE b \in TracedAddresses
      <4>1. /\ EndsTrace(b) \/ After(b) \in TracedAddresses \/ After(b) = Limit
            /\ IsDirectBranch(b) =>
                 /\ code[b].target \in directBranchTargets
                 /\ code[b].target \in Addresses =>
                      code[b].target \in TracedAddresses \cup unvisitedTraceAddresses
        BY <1>8, <3>1 DEF TracesSoFar
      <4> QED BY <2>1, <2>3, <2>12, <4>1
    <3>2. CASE b \in w.addrs
      <4>1. EndsTrace(b) \/ After(b) \in TracedAddresses' \/ After(b) = Limit
        BY <1>6, <1>11, <2>3, <3>2, TracedIs
      <4>2. ASSUME IsDirectBranch(b), code[b].target \in Addresses
            PROVE  code[b].target \in TracedAddresses' \cup unvisitedTraceAddresses'
        BY <2>1, <2>3, <2>4, <2>12, <3>2, <4>2
      <4> QED BY <2>1, <2>4, <3>2, <4>1, <4>2
    <3> QED BY <2>3, <3>1, <3>2
  <2>15. \A b \in TracedAddresses' :
           /\ EndsTrace(b)' \/ After(b)' \in TracedAddresses' \/ After(b)' = Limit
           /\ IsDirectBranch(b)' =>
                /\ code'[b].target \in directBranchTargets'
                /\ code'[b].target \in Addresses =>
                     code'[b].target \in TracedAddresses' \cup unvisitedTraceAddresses'
    BY <2>14, SameProgram
  <2>16. directBranchTargets' \subseteq {code'[b].target : b \in TracedAddresses'}
    <3>1. directBranchTargets \subseteq {code[b].target : b \in TracedAddresses}
      BY <1>8 DEF TracesSoFar
    <3> QED BY <1>5, <2>1, <2>3, <3>1
  <2>17. TracesSoFar(R)'
    BY <1>7, <2>1, <2>6, <2>7, <2>10, <2>11, <2>13, <2>15, <2>16 DEF TracesSoFar
  <2> QED BY <2>17 DEF R
<1> QED BY <1>10, <1>11

\* Nor does an address that is skipped take anything away.
LEMMA TracesShrink ==
  ASSUME IsProgram, entry \in Addresses, TracesSoFar(Reachable(entry)),
         SkipCoveredAddress, code' = code, entry' = entry
  PROVE  TracesSoFar(Reachable(entry))'
<1> DEFINE a == Lowest(unvisitedTraceAddresses)
           R == Reachable(entry)
<1>1. /\ Covered(a) /\ unvisitedTraceAddresses' = unvisitedTraceAddresses \ {a}
      /\ UNCHANGED <<traces, directBranchTargets, sweepFailed>>
  BY DEF SkipCoveredAddress
<1>2. a \in TracedAddresses
  BY <1>1, TracedIs
<1>3. TracedAddresses' = TracedAddresses
  BY <1>1 DEF TracedAddresses
<1> HIDE DEF a
<1>4. R' = R
  BY SameProgram
<1>5. TracesSoFar(R)
  OBVIOUS
<1> HIDE DEF R
<1>6. \A t \in traces : TraceIsRun(t)'
  BY <1>5, SameProgram DEF TracesSoFar, TraceIsRun
<1>7. Undecodable(R)' <=> Undecodable(R)
  BY <1>4, SameProgram DEF Undecodable
<1>8. TracesSoFar(R)'
  BY <1>1, <1>2, <1>3, <1>4, <1>5, <1>6, <1>7, SameProgram DEF TracesSoFar
<1> QED BY <1>8 DEF R

\* When nothing waits any more, the traces are the code the entry reaches.
LEMMA TracesAreReachable ==
  ASSUME IsProgram, entry \in Addresses, TracesSoFar(Reachable(entry)), TracesDone
  PROVE  TracedAddresses = Reachable(entry) \cap Addresses
<1> DEFINE C == TracedAddresses \cup {x \in Int : x \notin Addresses}
<1>1. TracedAddresses \subseteq Reachable(entry) \cap Addresses
  BY DEF TracesSoFar, TraceIsRun, TracedAddresses
<1>2. entry \in C /\ entry \in Int
  BY AddressesAre DEF TracesSoFar, TracesDone
<1>3. ASSUME NEW b \in C \cap Addresses PROVE Successors(b) \subseteq C
  <2>1. b \in TracedAddresses
    BY <1>3
  <2>2. Successors(b) \subseteq Int
    BY <1>3, AddressesAre
  <2>3. /\ EndsTrace(b) \/ After(b) \in TracedAddresses \/ After(b) = Limit
        /\ IsDirectBranch(b) /\ code[b].target \in Addresses => code[b].target \in TracedAddresses
    BY <2>1 DEF TracesSoFar, TracesDone
  <2>4. Limit \notin Addresses
    BY LimitAssumption DEF Addresses
  <2>5. ASSUME NEW x \in Successors(b), x \in Addresses PROVE x \in TracedAddresses
    <3>1. CASE code[b].op = "branch"
      BY <2>3, <2>5, <3>1 DEF Successors, IsDirectBranch
    <3>2. CASE code[b].op = "cond"
      <4>1. ~EndsTrace(b) /\ IsDirectBranch(b)
        BY <3>2 DEF EndsTrace, IsDirectBranch
      <4>2. x \in {After(b), code[b].target}
        BY <2>5, <3>2 DEF Successors
      <4> QED BY <2>3, <2>4, <2>5, <4>1, <4>2
    <3>3. CASE code[b].op \in {"salu", "valu", "exec"}
      <4>1. ~EndsTrace(b)
        BY <3>3 DEF EndsTrace
      <4>2. x = After(b)
        BY <2>5, <3>3 DEF Successors
      <4> QED BY <2>3, <2>4, <2>5, <4>1, <4>2
    <3>4. CASE code[b].op \notin {"branch", "cond", "salu", "valu", "exec"}
      BY <2>5, <3>4 DEF Successors
    <3> QED BY <3>1, <3>2, <3>3, <3>4
  <2> QED BY <2>2, <2>5
<1>4. Closed(C)
  <2> HIDE DEF C
  <2> QED BY <1>3 DEF Closed
<1>5. Reachable(entry) \subseteq C
  <2> HIDE DEF C
  <2> QED BY <1>2, <1>4, ReachableLeast
<1> QED BY <1>1, <1>5

-----------------------------------------------------------------------------
(***************************************************************************)
(* Sorting a finite set.                                                   *)
(***************************************************************************)
\* R orders S.
Orders(R, S) ==
  /\ \A x, y \in S : x = y \/ <<x, y>> \in R \/ <<y, x>> \in R
  /\ \A x \in S : <<x, x>> \notin R
  /\ \A x, y, z \in S : <<x, y>> \in R /\ <<y, z>> \in R => <<x, z>> \in R

\* q lists each member of S once, in the order of R.
Lists(q, S, R) ==
  /\ q \in [1 .. Cardinality(S) -> S] /\ q \in Seq(S)
  /\ DOMAIN q = 1 .. Cardinality(S) /\ Len(q) = Cardinality(S)
  /\ \A x \in S : \E i \in DOMAIN q : q[i] = x
  /\ \A i, j \in DOMAIN q : i < j => <<q[i], q[j]>> \in R
  /\ \A i, j \in DOMAIN q : q[i] = q[j] => i = j
  /\ \A i, j \in DOMAIN q : <<q[i], q[j]>> \in R => i < j

\* How many members come before each.
Rank(S, R) == [x \in S |-> Cardinality({y \in S : <<y, x>> \in R})]

\* Before a member come as many as its rank says: each rank is taken once.
LEMMA Ranks ==
  ASSUME NEW S, IsFiniteSet(S), NEW R, Orders(R, S),
         NEW r, r = Rank(S, R)
  PROVE  /\ r \in [S -> 0 .. Cardinality(S) - 1]
         /\ \A x, y \in S : <<x, y>> \in R <=> r[x] < r[y]
         /\ \A x, y \in S : r[x] = r[y] => x = y
         /\ \A v \in 0 .. Cardinality(S) - 1 : \E x \in S : r[x] = v
<1> DEFINE n == Cardinality(S)
           below(x) == {y \in S : <<y, x>> \in R}
<1>1. n \in Nat
  BY FS_CardinalityType
<1>r. r = [x \in S |-> Cardinality(below(x))]
  BY DEF Rank
<1>2. ASSUME NEW x \in S
      PROVE  /\ IsFiniteSet(below(x)) /\ Cardinality(below(x)) \in 0 .. n - 1
             /\ r[x] = Cardinality(below(x))
  <2>1. IsFiniteSet(below(x)) /\ Cardinality(below(x)) <= n
    BY FS_Subset
  <2>2. Cardinality(below(x)) \in Nat
    BY <2>1, FS_CardinalityType
  <2>3. x \notin below(x)
    BY DEF Orders
  <2>4. below(x) # S
    BY <2>3
  <2>5. Cardinality(S) # Cardinality(below(x))
    BY <2>4, FS_Subset
  <2>6. Cardinality(below(x)) \in 0 .. n - 1
    <3> HIDE DEF below
    <3> QED BY <1>1, <2>1, <2>2, <2>5
  <2> QED BY <1>r, <2>1, <2>6
<1>3. ASSUME NEW x \in S, NEW y \in S, <<x, y>> \in R PROVE r[x] < r[y]
  <2>1. below(x) \in SUBSET below(y)
    BY <1>3 DEF Orders
  <2>2. x \in below(y) /\ x \notin below(x)
    BY <1>3 DEF Orders
  <2>3. Cardinality(below(x)) <= Cardinality(below(y)) /\ Cardinality(below(x)) # Cardinality(below(y))
    <3>1. below(y) # below(x) /\ IsFiniteSet(below(y))
      BY <1>2, <2>2
    <3> HIDE DEF below
    <3> QED BY <2>1, <3>1, FS_Subset
  <2> HIDE DEF below, n
  <2> QED BY <1>1, <1>2, <2>3
<1>4. r \in [S -> 0 .. n - 1]
  <2>1. DOMAIN r = S /\ r = [x \in S |-> r[x]]
    BY <1>r
  <2> HIDE DEF below, n
  <2> QED BY <1>2, <2>1
<1>0. \A x \in S : r[x] \in Int
  <2> HIDE DEF n
  <2> QED BY <1>1, <1>4
<1>5. ASSUME NEW x \in S, NEW y \in S, r[x] = r[y] PROVE x = y
  <2>1. ~(r[x] < r[y]) /\ ~(r[y] < r[x])
    BY <1>0, <1>5
  <2> QED BY <1>3, <2>1 DEF Orders
<1>6. ASSUME NEW x \in S, NEW y \in S, r[x] < r[y] PROVE <<x, y>> \in R
  <2>1. x # y /\ ~(r[y] < r[x])
    BY <1>0, <1>6
  <2> QED BY <1>3, <2>1 DEF Orders
<1>7. \A v \in 0 .. n - 1 : \E x \in S : r[x] = v
  <2>1. r \in Injection(S, 0 .. n - 1)
    BY <1>4, <1>5 DEF Injection, IsInjective
  <2>2. IsFiniteSet(0 .. n - 1) /\ Cardinality(0 .. n - 1) = n
    BY <1>1, FS_Interval
  <2>3. r \in Surjection(S, 0 .. n - 1)
    BY <2>1, <2>2, FS_Injection
  <2> QED BY <2>3 DEF Surjection
<1> QED BY <1>3, <1>4, <1>5, <1>6, <1>7

\* A sequence that gives each rank its member is in order.
LEMMA ListedByRank ==
  ASSUME NEW S, IsFiniteSet(S), NEW R, Orders(R, S),
         NEW r, r = Rank(S, R),
         NEW q \in [1 .. Cardinality(S) -> S], \A i \in 1 .. Cardinality(S) : r[q[i]] = i - 1
  PROVE  Lists(q, S, R)
<1> DEFINE n == Cardinality(S)
<1>1. n \in Nat
  BY FS_CardinalityType
<1>2. /\ r \in [S -> 0 .. n - 1]
      /\ \A x, y \in S : <<x, y>> \in R <=> r[x] < r[y]
      /\ \A x, y \in S : r[x] = r[y] => x = y
  BY Ranks
<1>3. q \in [1 .. n -> S] /\ \A i \in 1 .. n : r[q[i]] = i - 1
  OBVIOUS
<1> HIDE DEF n
<1>4. \A x \in S : \E i \in 1 .. n : q[i] = x
  <2> TAKE x \in S
  <2>1. r[x] + 1 \in 1 .. n /\ r[x] \in Int
    BY <1>1, <1>2
  <2>2. r[q[r[x] + 1]] = r[x] /\ q[r[x] + 1] \in S
    <3> DEFINE k == r[x] + 1
    <3>1. k \in 1 .. n /\ k - 1 = r[x]
      BY <2>1
    <3> HIDE DEF k
    <3>2. r[q[k]] = k - 1 /\ q[k] \in S
      BY <1>3, <3>1
    <3> QED BY <3>1, <3>2 DEF k
  <2>3. q[r[x] + 1] = x
    BY <1>2, <2>2
  <2> QED BY <2>1, <2>3
<1>5. \A i, j \in 1 .. n : <<q[i], q[j]>> \in R <=> i < j
  <2> TAKE i, j \in 1 .. n
  <2>1. q[i] \in S /\ q[j] \in S /\ r[q[i]] = i - 1 /\ r[q[j]] = j - 1
    BY <1>3
  <2>2. i \in Int /\ j \in Int
    BY <1>1
  <2>3. <<q[i], q[j]>> \in R <=> r[q[i]] < r[q[j]]
    BY <1>2, <2>1
  <2> QED BY <2>1, <2>2, <2>3
<1>6. ASSUME NEW i \in 1 .. n, NEW j \in 1 .. n, q[i] = q[j] PROVE i = j
  <2>1. r[q[i]] = i - 1 /\ r[q[j]] = j - 1
    BY <1>3
  <2> QED BY <1>1, <1>6, <2>1
<1>7. q \in Seq(S) /\ Len(q) = n /\ DOMAIN q = 1 .. n
  <2>1. q \in [1 .. n -> S]
    BY <1>3
  <2> QED BY ONLY <1>1, <2>1
<1> QED BY <1>3, <1>4, <1>5, <1>6, <1>7 DEF Lists, n

Ascending == {xy \in Int \X Int : xy[1] < xy[2]}

\* Numbers in ascending order.
LEMMA InOrderNumbers ==
  ASSUME NEW S \in SUBSET Int, IsFiniteSet(S)
  PROVE  Lists(InOrder(S, <), S, Ascending)
<1> DEFINE n == Cardinality(S)
           q == InOrder(S, <)
           r == Rank(S, Ascending)
<1>1. \A x, y \in Int : <<x, y>> \in Ascending <=> x < y
  BY DEF Ascending
<1>2. Orders(Ascending, S)
  BY <1>1 DEF Orders
<1>3. ASSUME NEW x \in S PROVE Cardinality({y \in S : y < x}) = r[x]
  <2>1. {y \in S : y < x} = {y \in S : <<y, x>> \in Ascending}
    BY <1>1
  <2> QED BY <2>1 DEF Rank
<1>4. q = [i \in 1 .. n |-> CHOOSE x \in S : Cardinality({y \in S : y < x}) = i - 1]
  BY DEF InOrder
<1>5. r = Rank(S, Ascending)
  OBVIOUS
<1>6. n = Cardinality(S) /\ n \in Nat
  BY FS_CardinalityType
<1> HIDE DEF r, q, n
<1>7. \A v \in 0 .. n - 1 : \E x \in S : r[x] = v
  <2>1. IsFiniteSet(S)
    OBVIOUS
  <2>2. \A v \in 0 .. Cardinality(S) - 1 : \E x \in S : r[x] = v
    BY ONLY <2>1, <1>2, <1>5, Ranks
  <2> QED BY <1>6, <2>2
<1>8. ASSUME NEW i \in 1 .. n PROVE q[i] \in S /\ r[q[i]] = i - 1
  <2>1. i - 1 \in 0 .. n - 1
    BY <1>6
  <2>2. \E x \in S : Cardinality({y \in S : y < x}) = i - 1
    BY <1>3, <1>7, <2>1
  <2>3. q[i] = CHOOSE x \in S : Cardinality({y \in S : y < x}) = i - 1
    BY <1>4
  <2>4. q[i] \in S /\ Cardinality({y \in S : y < q[i]}) = i - 1
    BY <2>2, <2>3, Zenon
  <2> QED BY <1>3, <2>4
<1>9. q \in [1 .. n -> S]
  BY <1>4, <1>8
<1>10. Lists(q, S, Ascending)
  BY <1>2, <1>5, <1>6, <1>8, <1>9, ListedByRank
<1> QED BY <1>10 DEF q

-----------------------------------------------------------------------------
(***************************************************************************)
(* The layout of a function's instructions.                                *)
(***************************************************************************)
StartOf(a) == (CHOOSE t \in traces : a \in t.addrs).first

LaidOutBefore == {xy \in Addresses \X Addresses :
                    \/ StartOf(xy[1]) < StartOf(xy[2])
                    \/ StartOf(xy[1]) = StartOf(xy[2]) /\ xy[1] < xy[2]}

TracesAreRuns == /\ \A t \in traces : TraceIsRun(t)
                 /\ \A t, u \in traces : t # u => t.addrs \cap u.addrs = {}

\* Addresses are integers.
LEMMA AddressesAreIntegers == \A x \in Addresses : x \in Int
BY LimitAssumption DEF Addresses

\* The trace an address is in, and where it starts.
LEMMA StartOfIs ==
  ASSUME TracesAreRuns, NEW t \in traces, NEW a \in t.addrs
  PROVE  /\ StartOf(a) = t.first /\ t.first \in Int /\ a \in Int /\ a \in Addresses
         /\ t.first <= a /\ t.first \in t.addrs /\ a \in TracedAddresses
<1>1. TraceIsRun(t)
  BY DEF TracesAreRuns
<1>2. t.addrs \subseteq Int
  BY <1>1, AddressesAreIntegers DEF TraceIsRun
<1>3. (CHOOSE u \in traces : a \in u.addrs) = t
  BY DEF TracesAreRuns
<1>4. StartOf(a) = t.first
  BY <1>3, Zenon DEF StartOf
<1> QED BY <1>1, <1>2, <1>4 DEF TraceIsRun, TracedAddresses

\* Each traced address is in a trace, and in memory.
LEMMA TracedInTrace ==
  ASSUME TracesAreRuns, NEW a \in TracedAddresses
  PROVE  \E t \in traces : a \in t.addrs /\ StartOf(a) = t.first /\ t.first \in Int
                           /\ a \in Int /\ a \in Addresses
<1>1. PICK t \in traces : a \in t.addrs
  BY DEF TracedAddresses
<1>2. a \in t.addrs
  BY <1>1
<1> QED BY <1>2, StartOfIs

\* Traces with the same start are the same trace.
LEMMA SameStart ==
  ASSUME TracesAreRuns, NEW t \in traces, NEW a \in TracedAddresses, StartOf(a) = t.first
  PROVE  a \in t.addrs
<1>1. PICK u \in traces : a \in u.addrs /\ StartOf(a) = u.first
  BY TracedInTrace
<1>2. u.first \in u.addrs /\ t.first \in t.addrs
  BY DEF TracesAreRuns, TraceIsRun
<1> QED BY <1>1, <1>2 DEF TracesAreRuns

\* The order of the layout, for traced addresses.
LEMMA BeforeIs ==
  ASSUME TracesAreRuns, NEW a \in TracedAddresses, NEW b \in TracedAddresses
  PROVE  /\ StartOf(a) \in Int /\ StartOf(b) \in Int /\ a \in Int /\ b \in Int
         /\ <<a, b>> \in LaidOutBefore <=>
              StartOf(a) < StartOf(b) \/ (StartOf(a) = StartOf(b) /\ a < b)
BY TracedInTrace DEF LaidOutBefore

\* The layout has each traced instruction once, in that order.
LEMMA LayoutLists ==
  ASSUME TracesAreRuns
  PROVE  /\ IsFiniteSet(TracedAddresses) /\ TracedAddresses \subseteq Addresses
         /\ Lists(Layout, TracedAddresses, LaidOutBefore)
<1> DEFINE S == TracedAddresses
           n == Cardinality(S)
           q == Layout
           r == Rank(S, LaidOutBefore)
           before(x) == {y \in S : \/ StartOf(y) < StartOf(x)
                                   \/ StartOf(y) = StartOf(x) /\ y < x}
<1>1. S \subseteq Addresses
  BY DEF TracesAreRuns, TraceIsRun, TracedAddresses
<1>2. IsFiniteSet(S)
  BY <1>1, AddressesAre, FS_Subset
<1>3. Orders(LaidOutBefore, S)
  <2>1. \A x, y \in S :
          /\ StartOf(x) \in Int /\ x \in Int
          /\ <<x, y>> \in LaidOutBefore <=>
               StartOf(x) < StartOf(y) \/ (StartOf(x) = StartOf(y) /\ x < y)
    BY BeforeIs
  <2>2. ASSUME NEW x \in S, NEW y \in S
        PROVE  x = y \/ <<x, y>> \in LaidOutBefore \/ <<y, x>> \in LaidOutBefore
    <3>1. /\ StartOf(x) \in Int /\ x \in Int /\ StartOf(y) \in Int /\ y \in Int
      BY <2>1
    <3>2. /\ StartOf(x) < StartOf(y) \/ (StartOf(x) = StartOf(y) /\ x < y) =>
               <<x, y>> \in LaidOutBefore
          /\ StartOf(y) < StartOf(x) \/ (StartOf(y) = StartOf(x) /\ y < x) =>
               <<y, x>> \in LaidOutBefore
      BY <2>1
    <3> QED BY <3>1, <3>2
  <2>3. \A x \in S : <<x, x>> \notin LaidOutBefore
    BY <2>1
  <2>4. \A x, y, z \in S : <<x, y>> \in LaidOutBefore /\ <<y, z>> \in LaidOutBefore =>
                             <<x, z>> \in LaidOutBefore
    <3> TAKE x, y, z \in S
    <3>1. /\ StartOf(x) \in Int /\ x \in Int /\ StartOf(y) \in Int /\ y \in Int
          /\ StartOf(z) \in Int /\ z \in Int
      BY <2>1
    <3>2. /\ <<x, y>> \in LaidOutBefore =>
               StartOf(x) < StartOf(y) \/ (StartOf(x) = StartOf(y) /\ x < y)
          /\ <<y, z>> \in LaidOutBefore =>
               StartOf(y) < StartOf(z) \/ (StartOf(y) = StartOf(z) /\ y < z)
          /\ StartOf(x) < StartOf(z) \/ (StartOf(x) = StartOf(z) /\ x < z) =>
               <<x, z>> \in LaidOutBefore
      BY <2>1
    <3> QED BY <3>1, <3>2
  <2> HIDE DEF S
  <2> QED BY <2>2, <2>3, <2>4 DEF Orders
<1>4. ASSUME NEW x \in S PROVE Cardinality(before(x)) = r[x]
  <2>1. before(x) = {y \in S : <<y, x>> \in LaidOutBefore}
    BY BeforeIs
  <2> QED BY <2>1 DEF Rank
<1>5. q = [i \in 1 .. n |-> CHOOSE x \in S : Cardinality(before(x)) = i - 1]
  BY Zenon DEF Layout, InOrder, StartOf
<1>6. n = Cardinality(S) /\ n \in Nat /\ r = Rank(S, LaidOutBefore)
  BY <1>2, FS_CardinalityType
<1> HIDE DEF S, r, q, n, before
<1>7. \A v \in 0 .. n - 1 : \E x \in S : r[x] = v
  <2>1. \A v \in 0 .. Cardinality(S) - 1 : \E x \in S : r[x] = v
    BY ONLY <1>2, <1>3, <1>6, Ranks
  <2> QED BY <1>6, <2>1
<1>8. ASSUME NEW i \in 1 .. n PROVE q[i] \in S /\ r[q[i]] = i - 1
  <2>1. i - 1 \in 0 .. n - 1
    BY <1>6
  <2>2. \E x \in S : Cardinality(before(x)) = i - 1
    BY <1>4, <1>7, <2>1
  <2>3. q[i] = CHOOSE x \in S : Cardinality(before(x)) = i - 1
    BY <1>5
  <2>4. q[i] \in S /\ Cardinality(before(q[i])) = i - 1
    BY <2>2, <2>3, Zenon
  <2> QED BY <1>4, <2>4
<1>9. q \in [1 .. n -> S]
  BY <1>5, <1>8
<1>10. Lists(q, S, LaidOutBefore)
  BY <1>2, <1>3, <1>6, <1>8, <1>9, ListedByRank
<1> QED BY <1>1, <1>2, <1>10 DEF q, S

\* No traced instruction starts inside another.
Disjointed == \A x, y \in TracedAddresses : ~(x < y /\ y < After(x))

\* Where no reachable instruction starts inside another one, no traced one does.
LEMMA NoOverlapMeans ==
  ASSUME IsProgram, TracesAreRuns, NEW e, NoOverlap(e), TracedAddresses \subseteq Reachable(e)
  PROVE  Disjointed
<1> SUFFICES ASSUME NEW x \in TracedAddresses, NEW y \in TracedAddresses, x < y, y < After(x)
             PROVE  FALSE
  BY DEF Disjointed
<1>1. x \in Addresses /\ x \in Int /\ y \in Int
  BY TracedInTrace
<1>2. code[x].size \in {1, 2} /\ After(x) = x + code[x].size
  BY <1>1, AddressesAre DEF After
<1>3. code[x].size = 2 /\ y = x + 1
  BY <1>1, <1>2
<1> QED BY <1>1, <1>3 DEF NoOverlap

\* An instruction that control falls through to is laid out next, whether it is in
\* the same trace or starts another one.
LEMMA FallThroughIsNext ==
  ASSUME IsProgram, TracesAreRuns, Disjointed,
         NEW a \in TracedAddresses, After(a) \in TracedAddresses
  PROVE  /\ <<a, After(a)>> \in LaidOutBefore
         /\ \A c \in TracedAddresses :
              ~(<<a, c>> \in LaidOutBefore /\ <<c, After(a)>> \in LaidOutBefore)
<1> DEFINE b == After(a)
<1>1. PICK t \in traces : a \in t.addrs /\ StartOf(a) = t.first /\ t.first \in Int
                           /\ a \in Int /\ a \in Addresses
  BY TracedInTrace
<1>2. PICK u \in traces : b \in u.addrs /\ StartOf(b) = u.first /\ u.first \in Int
                           /\ b \in Int
  BY TracedInTrace
<1>0. b \in TracedAddresses
  OBVIOUS
<1>3. a < b /\ b <= a + 2
  BY <1>1, AddressesAre DEF After
<1>4. TraceIsRun(t) /\ TraceIsRun(u)
  BY DEF TracesAreRuns
<1>5. \A x \in t.addrs : x \in TracedAddresses /\ x \in Addresses /\ x \in Int
  BY StartOfIs
<1>6. \A x \in u.addrs : x \in TracedAddresses /\ x \in Addresses /\ x \in Int
  BY StartOfIs
<1>7. CASE t = u
  <2>1. <<a, b>> \in LaidOutBefore
    BY <1>1, <1>2, <1>3, <1>7, BeforeIs
  <2>2. ASSUME NEW c \in TracedAddresses, <<a, c>> \in LaidOutBefore, <<c, b>> \in LaidOutBefore
        PROVE  FALSE
    <3>1. StartOf(c) \in Int /\ c \in Int
      BY TracedInTrace
    <3>2. StartOf(c) = t.first /\ a < c /\ c < b
      <4> HIDE DEF b
      <4> QED BY <1>0, <1>1, <1>2, <1>7, <2>2, <3>1, BeforeIs
    <3> QED BY <2>2, <3>2 DEF Disjointed
  <2> QED BY <2>1, <2>2
<1>8. CASE t # u
  <2>1. t.addrs \cap u.addrs = {}
    BY <1>8 DEF TracesAreRuns
  <2>2. u.first = b
    <3> SUFFICES ASSUME u.first # b PROVE FALSE
      OBVIOUS
    <3> DEFINE P == {x \in u.addrs : x < b}
    <3>1. u.first \in P
      BY <1>2, <1>4 DEF TraceIsRun
    <3>2. Limit - 1 \in Int /\ P \in SUBSET (0 .. Limit - 1) /\ P # {}
      BY <1>6, <3>1, LimitAssumption DEF Addresses
    <3>3. PICK p \in P : \A y \in P : y <= p
      <4> HIDE DEF P
      <4> QED BY <3>2, GreatestBelow
    <3>4. After(p) \in u.addrs /\ After(p) <= b /\ p \in Int /\ p < b
      BY <1>2, <1>4, <1>6, <3>3 DEF TraceIsRun
    <3>5. p < After(p) /\ After(p) \in Int
      BY <1>6, <3>3, AddressesAre
    <3>6. After(p) = b
      <4> SUFFICES ASSUME After(p) < b PROVE FALSE
        BY <1>2, <3>4, <3>5
      <4>1. After(p) \in P
        BY <3>4
      <4> QED BY <3>3, <3>4, <3>5, <4>1
    <3>7. p # a /\ p \in TracedAddresses
      BY <1>1, <1>6, <2>1, <3>3
    <3>8. p < a => FALSE
      BY <1>3, <3>6, <3>7 DEF Disjointed
    <3>9. a < p => FALSE
      BY <3>4, <3>7 DEF Disjointed
    <3> QED BY <1>1, <3>4, <3>7, <3>8, <3>9
  <2>3. t.first <= a /\ t.first < b
    <3>1. t.first <= a
      BY <1>1, <1>4 DEF TraceIsRun
    <3> HIDE DEF b
    <3> QED BY <1>1, <1>2, <1>3, <3>1
  <2>4. <<a, b>> \in LaidOutBefore
    BY <1>1, <1>2, <2>2, <2>3, BeforeIs
  <2>5. ASSUME NEW c \in TracedAddresses, <<a, c>> \in LaidOutBefore, <<c, b>> \in LaidOutBefore
        PROVE  FALSE
    <3>1. PICK v \in traces : c \in v.addrs /\ StartOf(c) = v.first /\ v.first \in Int /\ c \in Int
      BY TracedInTrace
    <3> DEFINE s == v.first
    <3>2. s \in v.addrs /\ s <= c /\ TraceIsRun(v)
      BY <3>1 DEF TracesAreRuns, TraceIsRun
    <3>3. s \in TracedAddresses
      BY <3>2 DEF TracedAddresses
    <3>4. /\ t.first < s \/ (t.first = s /\ a < c)
          /\ s < b \/ (s = b /\ c < b)
      <4> HIDE DEF b
      <4> QED BY <1>0, <1>1, <1>2, <2>2, <2>5, <3>1, BeforeIs
    <3>5. s < b
      BY <1>2, <3>1, <3>2, <3>4
    <3>6. CASE t.first = s
      <4>1. c \in t.addrs /\ a < c
        BY <1>1, <3>1, <3>4, <3>6, SameStart
      <4>2. b \in t.addrs
        BY <1>1, <1>4, <4>1 DEF TraceIsRun
      <4> QED BY <1>2, <2>1, <4>2
    <3>7. CASE t.first < s
      <4>1. s \notin t.addrs
        <5> SUFFICES ASSUME s \in t.addrs PROVE FALSE
          OBVIOUS
        <5>1. v = t
          BY <3>2 DEF TracesAreRuns
        <5> QED BY <1>1, <3>7, <5>1
      <4>2. s # a /\ ~(a < s)
        BY <1>1, <3>3, <3>5, <4>1 DEF Disjointed
      <4>3. s < a
        BY <1>1, <3>1, <4>2
      <4> DEFINE P == {x \in t.addrs : x <= s}
      <4>4. t.first \in P
        BY <1>1, <1>4, <3>1, <3>7 DEF TraceIsRun
      <4>5. Limit - 1 \in Int /\ P \in SUBSET (0 .. Limit - 1) /\ P # {}
        BY <1>5, <4>4, LimitAssumption DEF Addresses
      <4>6. PICK p \in P : \A y \in P : y <= p
        <5> HIDE DEF P
        <5> QED BY <4>5, GreatestBelow
      <4>7. p \in t.addrs /\ p < s /\ p < a /\ p \in TracedAddresses /\ p \in Int
        BY <1>1, <1>5, <3>1, <4>1, <4>3, <4>6
      <4>8. After(p) \in t.addrs /\ p < After(p) /\ After(p) \in Int
        BY <1>1, <1>4, <1>5, <4>7, AddressesAre DEF TraceIsRun
      <4>9. ~(After(p) <= s)
        <5> SUFFICES ASSUME After(p) <= s PROVE FALSE
          OBVIOUS
        <5>1. After(p) \in P
          BY <4>8
        <5>2. After(p) <= p
          BY <4>6, <5>1
        <5> QED BY <4>7, <4>8, <5>2
      <4>10. s < After(p)
        BY <3>1, <4>8, <4>9
      <4> QED BY <3>3, <4>7, <4>10 DEF Disjointed
    <3> QED BY <3>4, <3>6, <3>7
  <2> QED BY <2>4, <2>5
<1> QED BY <1>7, <1>8

-----------------------------------------------------------------------------
(***************************************************************************)
(* The blocks of a layout.                                                 *)
(***************************************************************************)
StartIndices(layout) == {i \in DOMAIN layout : StartsBlock(layout, i)}
BlockStarts(layout) == InOrder(StartIndices(layout), <)
BlockEnd(layout, k) == IF k = Len(BlockStarts(layout)) THEN Len(layout)
                       ELSE BlockStarts(layout)[k + 1] - 1

\* The blocks cut the layout into pieces that follow one another.
LEMMA BlocksCut ==
  ASSUME NEW layout, NEW S, layout \in Seq(S), NEW n, n = Len(layout),
         NEW st, st = BlockStarts(layout), NEW m, m = Len(st)
  PROVE  /\ n \in Nat /\ m \in Nat /\ DOMAIN st = 1 .. m
         /\ \A k \in 1 .. m : /\ st[k] \in 1 .. n /\ StartsBlock(layout, st[k])
                              /\ BlockEnd(layout, k) \in st[k] .. n
         /\ \A k, l \in 1 .. m : k < l => BlockEnd(layout, k) < st[l]
         /\ \A k \in 1 .. m - 1 : BlockEnd(layout, k) + 1 = st[k + 1]
         /\ \A i \in 1 .. n : \E k \in 1 .. m : i \in st[k] .. BlockEnd(layout, k)
         /\ \A i \in 1 .. n : StartsBlock(layout, i) => \E k \in 1 .. m : st[k] = i
<1> DEFINE T == StartIndices(layout)
<1>1. n \in Nat /\ DOMAIN layout = 1 .. n
  OBVIOUS
<1>2. T \in SUBSET (1 .. n) /\ T \in SUBSET Int /\ IsFiniteSet(T)
  <2>1. T \in SUBSET (1 .. n)
    BY <1>1 DEF StartIndices
  <2> HIDE DEF T
  <2>2. IsFiniteSet(1 .. n)
    BY <1>1, FS_Interval
  <2>3. IsFiniteSet(T)
    BY <2>1, <2>2, FS_Subset
  <2> QED BY <1>1, <2>1, <2>3
<1>3. Lists(st, T, Ascending)
  <2> HIDE DEF T
  <2>1. Lists(InOrder(T, <), T, Ascending)
    BY <1>2, InOrderNumbers
  <2> QED BY <2>1 DEF BlockStarts, T
<1>4. m \in Nat /\ DOMAIN st = 1 .. m
  <2>1. Cardinality(T) \in Nat
    BY <1>2, FS_CardinalityType
  <2> QED BY <1>3, <2>1 DEF Lists
<1>5. \A k \in 1 .. m : st[k] \in T
  BY <1>3, <1>4 DEF Lists
<1>6. \A k \in 1 .. m : st[k] \in 1 .. n /\ st[k] \in Int /\ StartsBlock(layout, st[k])
  BY <1>1, <1>5 DEF StartIndices
<1>7. \A k, l \in 1 .. m : k < l => st[k] < st[l]
  BY <1>3, <1>4 DEF Lists, Ascending
<1>8. \A i \in 1 .. n : StartsBlock(layout, i) => \E k \in 1 .. m : st[k] = i
  BY <1>1, <1>3, <1>4 DEF Lists, StartIndices
<1> DEFINE end(k) == BlockEnd(layout, k)
<1>9. ASSUME NEW k \in 1 .. m
      PROVE  /\ k = m => end(k) = n
             /\ k # m => k + 1 \in 1 .. m /\ end(k) = st[k + 1] - 1
  BY <1>4 DEF BlockEnd
<1> HIDE DEF end, T
<1>10. \A k \in 1 .. m : end(k) \in st[k] .. n
  <2> TAKE k \in 1 .. m
  <2>1. CASE k = m
    BY <1>1, <1>6, <1>9, <2>1
  <2>2. CASE k # m
    <3>1. st[k] < st[k + 1] /\ st[k + 1] \in 1 .. n /\ end(k) = st[k + 1] - 1
      BY <1>4, <1>6, <1>7, <1>9, <2>2
    <3> QED BY <1>1, <1>6, <3>1
  <2> QED BY <2>1, <2>2
<1>11. \A k, l \in 1 .. m : k < l => end(k) < st[l]
  <2> TAKE k, l \in 1 .. m
  <2> HAVE k < l
  <2>1. k # m /\ k + 1 \in 1 .. m /\ end(k) = st[k + 1] - 1
    BY <1>4, <1>9
  <2>2. st[k + 1] <= st[l] /\ st[l] \in Int /\ st[k + 1] \in Int
    <3>1. k + 1 = l \/ k + 1 < l
      BY <1>4
    <3> QED BY <1>6, <1>7, <2>1, <3>1
  <2> QED BY <2>1, <2>2
<1>12. \A k \in 1 .. m - 1 : end(k) + 1 = st[k + 1]
  <2> TAKE k \in 1 .. m - 1
  <2>1. k \in 1 .. m /\ k # m
    BY <1>4
  <2>2. end(k) = st[k + 1] - 1 /\ st[k + 1] \in Int
    BY <1>6, <1>9, <2>1
  <2> QED BY <2>2
<1>13. \A i \in 1 .. n : \E k \in 1 .. m : i \in st[k] .. end(k)
  <2> TAKE i \in 1 .. n
  <2> DEFINE P == {k \in 1 .. m : st[k] <= i}
  <2>1. PICK j \in 1 .. m : st[j] = 1
    <3>1. 1 \in 1 .. n
      BY <1>1
    <3>2. StartsBlock(layout, 1)
      BY DEF StartsBlock
    <3> QED BY <1>8, <3>1, <3>2
  <2>2. m \in Int /\ P \in SUBSET (0 .. m) /\ P # {}
    <3>1. j \in P
      BY <1>1, <2>1
    <3> QED BY <1>4, <3>1
  <2>3. PICK k \in P : \A l \in P : l <= k
    <3> HIDE DEF P
    <3> QED BY <2>2, GreatestBelow
  <2>4. i <= end(k)
    <3>1. CASE k = m
      BY <1>1, <1>9, <2>3, <3>1
    <3>2. CASE k # m
      <4>1. k + 1 \in 1 .. m /\ end(k) = st[k + 1] - 1 /\ st[k + 1] \in Int
        BY <1>6, <1>9, <2>3, <3>2
      <4>2. k + 1 \notin P
        BY <1>4, <2>3
      <4>3. ~(st[k + 1] <= i)
        BY <4>1, <4>2
      <4> QED BY <1>1, <4>1, <4>3
    <3> QED BY <3>1, <3>2
  <2>5. k \in 1 .. m /\ st[k] <= i /\ st[k] \in Int /\ end(k) \in Int
    BY <1>1, <1>6, <1>10, <2>3
  <2> QED BY <1>1, <2>4, <2>5
<1> QED BY <1>1, <1>4, <1>6, <1>8, <1>10, <1>11, <1>12, <1>13 DEF end

\* A block is its piece of the layout.
LEMMA BlocksAre ==
  ASSUME NEW layout, NEW S, layout \in Seq(S),
         NEW st, st = BlockStarts(layout), NEW m, m = Len(st),
         NEW B, B = BlocksOf(layout)
  PROVE  /\ B \in Seq(Seq(S)) /\ Len(B) = m /\ DOMAIN B = 1 .. m
         /\ \A k \in 1 .. m :
              /\ Len(B[k]) = BlockEnd(layout, k) - st[k] + 1
              /\ Len(B[k]) \in Nat \ {0} /\ DOMAIN B[k] = 1 .. Len(B[k])
              /\ \A i \in 1 .. Len(B[k]) : B[k][i] = layout[st[k] + i - 1]
              /\ \A i \in st[k] .. BlockEnd(layout, k) :
                    /\ i - st[k] + 1 \in 1 .. Len(B[k])
                    /\ B[k][i - st[k] + 1] = layout[i]
              /\ Head(B[k]) = layout[st[k]] /\ Last(B[k]) = layout[BlockEnd(layout, k)]
<1> DEFINE n == Len(layout)
           end(k) == BlockEnd(layout, k)
<1>1. /\ n \in Nat /\ m \in Nat /\ DOMAIN st = 1 .. m
      /\ \A k \in 1 .. m : st[k] \in 1 .. n /\ end(k) \in st[k] .. n
  BY BlocksCut
<1>2. B = [k \in 1 .. m |-> SubSeq(layout, st[k], end(k))]
  BY <1>1 DEF BlocksOf, BlockStarts, BlockEnd, StartIndices
<1> HIDE DEF end
<1>3. ASSUME NEW k \in 1 .. m
      PROVE  /\ B[k] \in Seq(S)
             /\ Len(B[k]) = end(k) - st[k] + 1
             /\ Len(B[k]) \in Nat \ {0} /\ DOMAIN B[k] = 1 .. Len(B[k])
             /\ \A i \in 1 .. Len(B[k]) : B[k][i] = layout[st[k] + i - 1]
  <2>1. B[k] = SubSeq(layout, st[k], end(k))
    BY <1>2
  <2> DEFINE p == st[k]
             r == end(k)
  <2>2. p \in 1 .. n /\ r \in p .. n
    BY <1>1
  <2>3. SubSeq(layout, p, r) = [i \in 1 .. r - p + 1 |-> layout[i + p - 1]]
    <3> HIDE DEF p, r
    <3> QED BY <1>1, <2>2
  <2> HIDE DEF p, r
  <2>4. \A i \in 1 .. r - p + 1 : i + p - 1 \in 1 .. n /\ i + p - 1 = p + i - 1
    BY <1>1, <2>2
  <2>5. r - p + 1 \in Nat \ {0}
    BY <1>1, <2>2
  <2>6. B[k] = [i \in 1 .. r - p + 1 |-> layout[i + p - 1]]
    BY <2>1, <2>3 DEF p, r
  <2>7. \A i \in 1 .. r - p + 1 : layout[i + p - 1] \in S
    BY <2>4
  <2>8. B[k] \in Seq(S) /\ Len(B[k]) = r - p + 1 /\ DOMAIN B[k] = 1 .. r - p + 1
    BY <2>5, <2>6, <2>7
  <2>9. \A i \in 1 .. r - p + 1 : B[k][i] = layout[p + i - 1]
    BY <2>4, <2>6
  <2> QED BY <2>5, <2>8, <2>9 DEF p, r
<1>4. B \in Seq(Seq(S)) /\ Len(B) = m /\ DOMAIN B = 1 .. m
  <2>1. \A k \in 1 .. m : SubSeq(layout, st[k], end(k)) \in Seq(S)
    BY <1>2, <1>3
  <2> DEFINE Q == Seq(S)
             f(k) == SubSeq(layout, st[k], end(k))
  <2>2. \A k \in 1 .. m : f(k) \in Q
    BY <2>1
  <2>3. B = [k \in 1 .. m |-> f(k)]
    BY <1>2
  <2> HIDE DEF Q, f
  <2>4. B \in Seq(Q) /\ Len(B) = m /\ DOMAIN B = 1 .. m
    BY <1>1, <2>2, <2>3
  <2> QED BY <2>4 DEF Q
<1>5. ASSUME NEW k \in 1 .. m
      PROVE  /\ \A i \in st[k] .. end(k) :
                    /\ i - st[k] + 1 \in 1 .. Len(B[k])
                    /\ B[k][i - st[k] + 1] = layout[i]
             /\ Head(B[k]) = layout[st[k]] /\ Last(B[k]) = layout[end(k)]
  <2> DEFINE b == B[k]
             p == st[k]
             r == end(k)
  <2>1. p \in 1 .. n /\ r \in p .. n
    BY <1>1
  <2>2. /\ Len(b) = r - p + 1 /\ Len(b) \in Nat \ {0} /\ DOMAIN b = 1 .. Len(b) /\ b \in Seq(S)
        /\ \A i \in 1 .. Len(b) : b[i] = layout[p + i - 1]
    BY <1>3
  <2> HIDE DEF b, p, r
  <2>3. \A i \in p .. r : i - p + 1 \in 1 .. Len(b) /\ b[i - p + 1] = layout[i]
    <3> TAKE i \in p .. r
    <3>1. i - p + 1 \in 1 .. Len(b) /\ p + (i - p + 1) - 1 = i
      BY <1>1, <2>1, <2>2
    <3> QED BY <2>2, <3>1
  <2>4. Head(b) = layout[p]
    <3>1. Head(b) = b[1] /\ 1 \in 1 .. Len(b) /\ p + 1 - 1 = p
      BY <1>1, <2>1, <2>2
    <3> QED BY <2>2, <3>1
  <2>5. Last(b) = layout[r]
    <3>1. Last(b) = b[Len(b)] /\ Len(b) \in 1 .. Len(b) /\ p + Len(b) - 1 = r
      BY <1>1, <2>1, <2>2 DEF Last
    <3> QED BY <2>2, <3>1
  <2> QED BY <2>3, <2>4, <2>5 DEF b, p, r
<1> QED BY <1>3, <1>4, <1>5 DEF end

InPiece(layout, k, x) ==
  \E i \in BlockStarts(layout)[k] .. BlockEnd(layout, k) : x = layout[i]

\* A block holds the addresses of its piece of the layout.
LEMMA BlockHolds ==
  ASSUME NEW layout, NEW S, layout \in Seq(S), NEW k \in 1 .. Len(BlockStarts(layout)), NEW x
  PROVE  x \in ToSet(BlocksOf(layout)[k]) <=> InPiece(layout, k, x)
<1> DEFINE b == BlocksOf(layout)[k]
           p == BlockStarts(layout)[k]
           r == BlockEnd(layout, k)
           n == Len(layout)
<1>1. n \in Nat /\ p \in 1 .. n /\ r \in p .. n
  BY BlocksCut
<1>2. /\ Len(b) = r - p + 1 /\ DOMAIN b = 1 .. Len(b)
      /\ \A i \in 1 .. Len(b) : b[i] = layout[p + i - 1]
      /\ \A i \in p .. r : i - p + 1 \in 1 .. Len(b) /\ b[i - p + 1] = layout[i]
  <2>1. /\ Len(b) = r - p + 1 /\ DOMAIN b = 1 .. Len(b)
    BY BlocksAre
  <2>2. \A i \in 1 .. Len(b) : b[i] = layout[p + i - 1]
    BY BlocksAre
  <2>3. \A i \in p .. r : i - p + 1 \in 1 .. Len(b) /\ b[i - p + 1] = layout[i]
    BY BlocksAre
  <2> QED BY <2>1, <2>2, <2>3
<1> HIDE DEF b, p, r
<1>3. ASSUME x \in ToSet(b) PROVE \E i \in p .. r : x = layout[i]
  <2>1. PICK i \in 1 .. Len(b) : x = b[i]
    BY <1>2, <1>3 DEF ToSet
  <2>2. p + i - 1 \in p .. r
    BY <1>1, <1>2
  <2> QED BY <1>2, <2>1, <2>2
<1>4. ASSUME NEW i \in p .. r, x = layout[i] PROVE x \in ToSet(b)
  <2>1. i - p + 1 \in DOMAIN b /\ b[i - p + 1] = x
    BY <1>2, <1>4
  <2> QED BY <2>1 DEF ToSet
<1> QED BY <1>3, <1>4 DEF b, p, r, InPiece

Distinct(s) == \A i, j \in DOMAIN s : s[i] = s[j] => i = j

\* The blocks B and z empty ones behind them.
Padded(bs, B, m, z) ==
  /\ z \in Nat /\ DOMAIN bs = 1 .. m + z
  /\ \A k \in 1 .. m : bs[k] = B[k]
  /\ \A k \in m + 1 .. m + z : bs[k] = << >>

\* Each address is in one block, whatever empty blocks are added behind.
LEMMA InOneBlock ==
  ASSUME NEW layout, NEW S, layout \in Seq(S), Distinct(layout),
         NEW st, st = BlockStarts(layout), NEW m, m = Len(st),
         NEW B, B = BlocksOf(layout), NEW bs, NEW z, Padded(bs, B, m, z),
         NEW k \in 1 .. m, NEW i \in st[k] .. BlockEnd(layout, k)
  PROVE  BlockOf(bs, layout[i]) = k /\ i \in DOMAIN layout /\ layout[i] \in ToSet(bs[k])
<1> DEFINE n == Len(layout)
           end(l) == BlockEnd(layout, l)
<1>1. /\ n \in Nat /\ m \in Nat /\ DOMAIN st = 1 .. m
      /\ \A l \in 1 .. m : st[l] \in 1 .. n /\ end(l) \in st[l] .. n
      /\ \A j, l \in 1 .. m : j < l => end(j) < st[l]
  BY BlocksCut
<1>2. ASSUME NEW l \in 1 .. m
      PROVE  \A x : x \in ToSet(B[l]) <=> \E j \in st[l] .. end(l) : x = layout[j]
  <2>1. \A x : x \in ToSet(BlocksOf(layout)[l]) <=> InPiece(layout, l, x)
    BY BlockHolds
  <2> QED BY <2>1 DEF InPiece
<1> HIDE DEF end
<1>3. DOMAIN layout = 1 .. n /\ k \in DOMAIN bs
  BY <1>1 DEF Padded
<1>4. i \in st[k] .. end(k)
  BY DEF end
<1>5. \A l \in 1 .. m : \A j \in st[l] .. end(l) : j \in 1 .. n
  BY <1>1
<1>6. ASSUME NEW l \in DOMAIN bs, layout[i] \in ToSet(bs[l]) PROVE l = k
  <2>1. l \in 1 .. m
    <3> SUFFICES ASSUME l \in m + 1 .. m + z PROVE FALSE
      BY <1>1 DEF Padded
    <3>1. bs[l] = << >>
      BY DEF Padded
    <3> QED BY <1>6, <3>1 DEF ToSet
  <2>2. PICK j \in st[l] .. end(l) : layout[i] = layout[j]
    <3>1. layout[i] \in ToSet(B[l])
      BY <1>6, <2>1 DEF Padded
    <3>2. \A x : x \in ToSet(B[l]) <=> \E j \in st[l] .. end(l) : x = layout[j]
      BY <1>2, <2>1
    <3> QED BY <3>1, <3>2
  <2>3. i = j
    BY <1>3, <1>4, <1>5, <2>1, <2>2 DEF Distinct
  <2>4. ~(l < k) /\ ~(k < l)
    <3>1. st[k] <= i /\ i <= end(k) /\ st[l] <= i /\ i <= end(l) /\ i \in Int
      BY <1>1, <1>4, <2>2, <2>3
    <3>2. st[k] \in Int /\ st[l] \in Int /\ end(k) \in Int /\ end(l) \in Int
      BY <1>1, <2>1
    <3> QED BY <1>1, <2>1, <3>1, <3>2
  <2> QED BY <1>1, <2>1, <2>4
<1>7. layout[i] \in ToSet(bs[k])
  BY <1>2, <1>4 DEF Padded
<1>8. BlockOf(bs, layout[i]) = k
  <2>1. BlockOf(bs, layout[i]) \in DOMAIN bs /\ layout[i] \in ToSet(bs[BlockOf(bs, layout[i])])
    BY <1>3, <1>7, Zenon DEF BlockOf
  <2> QED BY <1>6, <2>1
<1> QED BY <1>3, <1>4, <1>5, <1>7, <1>8

-----------------------------------------------------------------------------
(***************************************************************************)
(* The function that is populated: the blocks of the layout, and behind    *)
(* them blocks that hold nothing.                                          *)
(***************************************************************************)
\* mf has the layout's m blocks, z empty ones, and edges between its blocks.
Formed(mf, m, z) ==
  /\ z \in Nat
  /\ mf.blocks \in Seq(Seq(TracedAddresses)) /\ Len(mf.blocks) = m + z /\ DOMAIN mf.blocks = 1 .. m + z
  /\ \A k \in 1 .. m : mf.blocks[k] = BlocksOf(Layout)[k]
  /\ \A k \in m + 1 .. m + z : mf.blocks[k] = << >>
  /\ \A e \in mf.edges : e[1] \in 1 .. m + z /\ e[2] \in 1 .. m + z

LayoutLength == Len(BlockStarts(Layout))

\* The layout, once more, as what the lemmas about blocks ask for.
LEMMA LayoutIs ==
  ASSUME TracesAreRuns, NEW m, m = LayoutLength
  PROVE  /\ Layout \in Seq(TracedAddresses)
         /\ Distinct(Layout)
         /\ m \in Nat
         /\ \A a \in TracedAddresses : \E k \in 1 .. m :
              \E i \in BlockStarts(Layout)[k] .. BlockEnd(Layout, k) : Layout[i] = a
<1>1. Lists(Layout, TracedAddresses, LaidOutBefore)
  BY LayoutLists
<1>2. /\ Layout \in Seq(TracedAddresses)
      /\ Distinct(Layout)
  BY <1>1 DEF Lists, Distinct
<1>3. /\ m \in Nat
      /\ \A i \in 1 .. Len(Layout) : \E k \in 1 .. m :
           i \in BlockStarts(Layout)[k] .. BlockEnd(Layout, k)
  BY <1>2, BlocksCut DEF LayoutLength
<1>4. \A a \in TracedAddresses : \E i \in 1 .. Len(Layout) : Layout[i] = a
  BY <1>1 DEF Lists
<1> QED BY <1>2, <1>3, <1>4

\* The address at a place of the layout is in the block of that place.
LEMMA BlockOfPlace ==
  ASSUME TracesAreRuns, NEW m, m = LayoutLength, NEW z, NEW mf, Formed(mf, m, z),
         NEW k \in 1 .. m, NEW i \in BlockStarts(Layout)[k] .. BlockEnd(Layout, k)
  PROVE  BlockOf(mf.blocks, Layout[i]) = k /\ Layout[i] \in ToSet(mf.blocks[k])
<1>1. /\ Layout \in Seq(TracedAddresses)
      /\ Distinct(Layout)
  BY LayoutIs
<1> DEFINE bs == mf.blocks
           B == BlocksOf(Layout)
           st == BlockStarts(Layout)
<1>2. Padded(bs, B, m, z)
  BY DEF Formed, Padded
<1>3. B = BlocksOf(Layout) /\ st = BlockStarts(Layout) /\ m = Len(st) /\ i \in st[k] .. BlockEnd(Layout, k)
  BY DEF LayoutLength
<1> HIDE DEF bs, B, st
<1>4. BlockOf(bs, Layout[i]) = k /\ Layout[i] \in ToSet(bs[k])
  BY <1>1, <1>2, <1>3, InOneBlock
<1> QED BY <1>4 DEF bs

\* Each traced address has a block, which is none of the empty ones.
LEMMA BlockOfTraced ==
  ASSUME TracesAreRuns, NEW m, m = LayoutLength, NEW z, NEW mf, Formed(mf, m, z),
         NEW a \in TracedAddresses
  PROVE  BlockOf(mf.blocks, a) \in 1 .. m /\ a \in ToSet(mf.blocks[BlockOf(mf.blocks, a)])
<1>1. PICK k \in 1 .. m : \E i \in BlockStarts(Layout)[k] .. BlockEnd(Layout, k) : Layout[i] = a
  BY LayoutIs
<1>2. PICK i \in BlockStarts(Layout)[k] .. BlockEnd(Layout, k) : Layout[i] = a
  BY <1>1
<1>3. BlockOf(mf.blocks, Layout[i]) = k /\ Layout[i] \in ToSet(mf.blocks[k])
  BY BlockOfPlace
<1> QED BY <1>2, <1>3

\* Such a function holds the traced instructions.
LEMMA FormedHolds ==
  ASSUME TracesAreRuns, NEW m, m = LayoutLength, NEW z, NEW mf, Formed(mf, m, z)
  PROVE  AddressesOf(mf) = TracedAddresses
<1>1. m \in Nat
  BY LayoutIs
<1>2. ASSUME NEW b \in DOMAIN mf.blocks PROVE ToSet(mf.blocks[b]) \subseteq TracedAddresses
  <2>1. mf.blocks[b] \in Seq(TracedAddresses)
    BY DEF Formed
  <2> QED BY <2>1 DEF ToSet
<1>3. ASSUME NEW a \in TracedAddresses PROVE \E b \in DOMAIN mf.blocks : a \in ToSet(mf.blocks[b])
  <2>1. BlockOf(mf.blocks, a) \in 1 .. m /\ a \in ToSet(mf.blocks[BlockOf(mf.blocks, a)])
    BY BlockOfTraced
  <2>2. BlockOf(mf.blocks, a) \in DOMAIN mf.blocks
    BY <1>1, <2>1 DEF Formed
  <2> QED BY <2>1, <2>2
<1> QED BY <1>2, <1>3 DEF AddressesOf

\* populateMF's steps keep that form.
LEMMA BodyFormed ==
  ASSUME TracesAreRuns, NEW m, m = LayoutLength
  PROVE  Formed(Body, m, 0)
<1> DEFINE B == BlocksOf(Layout)
           Q == Seq(TracedAddresses)
<1>1. Layout \in Q /\ m \in Nat
  BY LayoutIs
<1>2. B \in Seq(Q) /\ Len(B) = m /\ DOMAIN B = 1 .. m
  BY <1>1, BlocksAre DEF LayoutLength
<1>3. Body.blocks = B /\ Body.edges = FallThroughEdges(B)
  BY DEF Body
<1>4. \A e \in FallThroughEdges(B) : e[1] \in 1 .. m /\ e[2] \in 1 .. m
  <2> HIDE DEF B
  <2> QED BY <1>1, <1>2 DEF FallThroughEdges
<1> HIDE DEF B
<1>5. m + 0 = m /\ \A k \in m + 1 .. m : FALSE
  BY <1>1
<1> QED BY <1>2, <1>3, <1>4, <1>5 DEF Formed, B

\* The calls of a function are finitely many and in address order.
LEMMA CallsAreFinite ==
  ASSUME TracesAreRuns
  PROVE  /\ IsFiniteSet(TracedCalls) /\ Cardinality(TracedCalls) \in Nat
         /\ TracedCalls \subseteq TracedAddresses
         /\ Lists(InOrder(TracedCalls, <), TracedCalls, Ascending)
<1>1. TracedCalls \subseteq TracedAddresses
  BY DEF TracedCalls
<1>2. IsFiniteSet(TracedCalls)
  BY <1>1, LayoutLists, FS_Subset
<1>3. TracedCalls \in SUBSET Int
  BY <1>1, TracedInTrace
<1> QED BY <1>1, <1>2, <1>3, FS_CardinalityType, InOrderNumbers

\* The blocks of the calls are isolated, the other edges stay.
LEMMA IsolateCallsFormed ==
  ASSUME TracesAreRuns, NEW m, m = LayoutLength, NEW mf, mf = IsolateCalls(Body)
  PROVE  /\ Formed(mf, m, Cardinality(TracedCalls))
         /\ \A k \in 1 .. m - 1 :
              /\ code[Last(BlocksOf(Layout)[k])].op # "branch"
              /\ \A c \in TracedCalls : BlockOf(Body.blocks, c) # k
              => <<k, k + 1>> \in mf.edges
<1> DEFINE calls == InOrder(TracedCalls, <)
           z == Cardinality(TracedCalls)
           B == Body.blocks
           none == [i \in DOMAIN calls |-> << >>]
           callBlock == [i \in DOMAIN calls |-> BlockOf(B, calls[i])]
           Q == Seq(TracedAddresses)
<1>1. m \in Nat /\ z \in Nat /\ DOMAIN calls = 1 .. z /\ \A i \in 1 .. z : calls[i] \in TracedCalls
  BY LayoutIs, CallsAreFinite DEF Lists
<1>2. Formed(Body, m, 0)
  BY BodyFormed
<1>3. B \in Seq(Q) /\ Len(B) = m /\ DOMAIN B = 1 .. m
  <2>1. B \in Seq(Q) /\ Len(B) = m + 0
    BY <1>2 DEF Formed
  <2>2. m + 0 = m
    <3> HIDE DEF calls, z, B, none, callBlock, Q
    <3> QED BY <1>1
  <2> QED BY <2>1, <2>2
<1>4. /\ mf.blocks = B \o none
      /\ mf.edges = {e \in Body.edges : e[1] \notin ToSet(callBlock)} \cup
                    {<<callBlock[i], m + i>> : i \in DOMAIN calls}
  BY <1>3 DEF IsolateCalls
<1> HIDE DEF calls, z, B, Q
<1>5. none \in Seq(Q) /\ Len(none) = z /\ \A i \in 1 .. z : none[i] = << >>
  <2>1. << >> \in Q
    BY DEF Q
  <2> QED BY <1>1, <2>1
<1> HIDE DEF none
<1>6. mf.blocks \in Seq(Q) /\ Len(mf.blocks) = m + z /\ DOMAIN mf.blocks = 1 .. m + z
  <2>1. B \o none \in Seq(Q) /\ Len(B \o none) = Len(B) + Len(none)
    BY <1>3, <1>5
  <2>2. Len(B \o none) = m + z /\ DOMAIN (B \o none) = 1 .. m + z
    BY <1>3, <1>5, <2>1
  <2> QED BY <1>4, <2>1, <2>2
<1>7. \A k \in 1 .. m : mf.blocks[k] = BlocksOf(Layout)[k]
  <2>1. \A k \in 1 .. m : (B \o none)[k] = B[k]
    BY <1>1, <1>3, <1>5
  <2> QED BY <1>2, <1>4, <2>1 DEF Formed, B
<1>8. \A k \in m + 1 .. m + z : mf.blocks[k] = << >>
  <2> TAKE k \in m + 1 .. m + z
  <2>1. (B \o none)[k] = none[k - m] /\ k - m \in 1 .. z
    BY <1>1, <1>3, <1>5
  <2> QED BY <1>4, <1>5, <2>1
<1>9. \A i \in 1 .. z : callBlock[i] \in 1 .. m
  <2> TAKE i \in 1 .. z
  <2>1. calls[i] \in TracedAddresses
    BY <1>1, CallsAreFinite
  <2> QED BY <1>1, <1>2, <2>1, BlockOfTraced DEF B
<1>10. \A e \in mf.edges : e[1] \in 1 .. m + z /\ e[2] \in 1 .. m + z
  <2> TAKE e \in mf.edges
  <2>1. CASE e \in Body.edges
    <3>1. e[1] \in 1 .. m /\ e[2] \in 1 .. m
      BY <1>1, <1>2, <2>1 DEF Formed
    <3> QED BY <1>1, <3>1
  <2>2. CASE e \in {<<callBlock[i], m + i>> : i \in DOMAIN calls}
    <3>1. PICK i \in 1 .. z : e = <<callBlock[i], m + i>>
      BY <1>1, <2>2
    <3>2. callBlock[i] \in 1 .. m /\ e[1] = callBlock[i] /\ e[2] = m + i
      BY <1>9, <3>1
    <3> HIDE DEF callBlock
    <3> QED BY <1>1, <3>2
  <2> QED BY <1>4, <2>1, <2>2
<1>11. ASSUME NEW k \in 1 .. m - 1, code[Last(BlocksOf(Layout)[k])].op # "branch",
              \A c \in TracedCalls : BlockOf(Body.blocks, c) # k
       PROVE  <<k, k + 1>> \in mf.edges
  <2>1. <<k, k + 1>> \in Body.edges
    <3> DEFINE BB == BlocksOf(Layout)
    <3>1. Len(BB) = m
      BY <1>3 DEF B, Body
    <3> HIDE DEF BB
    <3>2. <<k, k + 1>> \in FallThroughEdges(BB)
      BY <1>11, <3>1 DEF FallThroughEdges, BB
    <3> QED BY <3>2 DEF Body, BB
  <2>2. k \notin ToSet(callBlock)
    BY <1>1, <1>11 DEF ToSet, B
  <2> HIDE DEF callBlock
  <2>3. <<k, k + 1>>[1] = k
    OBVIOUS
  <2> QED BY <1>4, <2>1, <2>2, <2>3
<1> QED BY <1>1, <1>6, <1>7, <1>8, <1>10, <1>11 DEF Formed, z, Q

\* Each branch adds an edge.
LEMMA ResolveBranchesFormed ==
  ASSUME TracesAreRuns, NEW m, m = LayoutLength, NEW z, NEW mf, Formed(mf, m, z),
         mf = [blocks |-> mf.blocks, edges |-> mf.edges],
         BranchesResolve, NEW rf, rf = ResolveBranches(mf)
  PROVE  /\ Formed(rf, m, z) /\ rf = [blocks |-> rf.blocks, edges |-> rf.edges]
         /\ rf.blocks = mf.blocks /\ mf.edges \subseteq rf.edges
         /\ \A a \in TracedBranches :
              <<BlockOf(mf.blocks, a), BlockOf(mf.blocks, code[a].target)>> \in rf.edges
<1> DEFINE new == {<<BlockOf(mf.blocks, a), BlockOf(mf.blocks, code[a].target)>> : a \in TracedBranches}
<1>1. m \in Nat /\ z \in Nat
  BY LayoutIs DEF Formed
<1>2. \A e \in new : e[1] \in 1 .. m /\ e[2] \in 1 .. m
  <2>1. \A a \in TracedBranches : a \in TracedAddresses /\ code[a].target \in TracedAddresses
    BY DEF TracedBranches, BranchesResolve
  <2>2. \A a \in TracedBranches : /\ BlockOf(mf.blocks, a) \in 1 .. m
                                  /\ BlockOf(mf.blocks, code[a].target) \in 1 .. m
    BY <2>1, BlockOfTraced
  <2> QED BY <2>2
<1>3. rf = [mf EXCEPT !.edges = @ \cup new]
  BY DEF ResolveBranches
<1> HIDE DEF new
<1>4. rf = [blocks |-> mf.blocks, edges |-> mf.edges \cup new]
  <2> DEFINE es == mf.edges \cup new
             bs == mf.blocks
             old == mf.edges
  <2>1. mf = [blocks |-> bs, edges |-> old] /\ rf = [mf EXCEPT !.edges = es]
    BY <1>3
  <2> HIDE DEF es, bs, old
  <2>2. rf = [blocks |-> bs, edges |-> es]
    BY <2>1
  <2> QED BY <2>2 DEF es, bs
<1>5. rf.blocks = mf.blocks /\ rf.edges = mf.edges \cup new
  BY <1>4
<1>6. \A e \in rf.edges : e[1] \in 1 .. m + z /\ e[2] \in 1 .. m + z
  <2> TAKE e \in rf.edges
  <2>1. CASE e \in mf.edges
    BY <2>1 DEF Formed
  <2>2. CASE e \in new
    BY <1>1, <1>2, <2>2
  <2> QED BY <1>5, <2>1, <2>2
<1>7. Formed(rf, m, z)
  BY <1>5, <1>6 DEF Formed
<1>8. \A a \in TracedBranches :
        <<BlockOf(mf.blocks, a), BlockOf(mf.blocks, code[a].target)>> \in rf.edges
  BY <1>5 DEF new
<1> QED BY <1>4, <1>5, <1>7, <1>8

JumpTo(f, b) == [blocks |-> Append(f.blocks, << >>),
                 edges  |-> f.edges \cup {<<Len(f.blocks) + 1, b>>},
                 front  |-> Len(f.blocks) + 1]

\* The function with a block that jumps to the entry, if the entry is not first.
Entered(mf) == IF entry # FirstTraceStart
               THEN JumpTo(mf, BlockOf(mf.blocks, entry))
               ELSE [blocks |-> mf.blocks, edges |-> mf.edges, front |-> 1]

\* The blocks in front of the entry, one after the other.
LEMMA AddEntryBlocksIs ==
  ASSUME NEW mf
  PROVE  AddEntryBlocks(mf) =
           IF \E e \in Entered(mf).edges : e[2] = Entered(mf).front
           THEN JumpTo(Entered(mf), Entered(mf).front) ELSE Entered(mf)
BY Zenon DEF AddEntryBlocks, Entered, JumpTo

\* A block that jumps keeps the form, and nothing jumps to it.
LEMMA JumpToFormed ==
  ASSUME TracesAreRuns, NEW m, m = LayoutLength, NEW z, NEW f, Formed(f, m, z),
         NEW b \in 1 .. m + z, NEW g, g = JumpTo(f, b)
  PROVE  /\ Formed(g, m, z + 1) /\ f.edges \subseteq g.edges
         /\ g.front = m + z + 1 /\ g.blocks[g.front] = << >>
         /\ \A e \in g.edges : e[2] # g.front
         /\ {e[2] : e \in {x \in g.edges : x[1] = g.front}} = {b}
<1>1. m \in Nat /\ z \in Nat
  BY LayoutIs DEF Formed
<1> DEFINE Q == Seq(TracedAddresses)
           bs == f.blocks
           n == m + z
<1>2. /\ bs \in Seq(Q) /\ Len(bs) = n /\ DOMAIN bs = 1 .. n /\ n \in Nat
      /\ \A k \in 1 .. m : bs[k] = BlocksOf(Layout)[k]
      /\ \A k \in m + 1 .. n : bs[k] = << >>
      /\ \A e \in f.edges : e[1] \in 1 .. n /\ e[2] \in 1 .. n
  BY <1>1 DEF Formed
<1>3. /\ g.blocks = Append(bs, << >>) /\ g.edges = f.edges \cup {<<n + 1, b>>}
      /\ g.front = n + 1
  BY <1>2 DEF JumpTo
<1>4. << >> \in Q /\ b \in 1 .. n /\ z + 1 \in Nat /\ m + (z + 1) = n + 1
  BY <1>1
<1> HIDE DEF Q, bs, n
<1>5. /\ g.blocks \in Seq(Q) /\ Len(g.blocks) = n + 1 /\ DOMAIN g.blocks = 1 .. n + 1
      /\ \A k \in 1 .. n : g.blocks[k] = bs[k]
      /\ g.blocks[n + 1] = << >>
  <2> DEFINE e == << >>
             q == Append(bs, e)
  <2>1. e \in Q /\ bs \in Seq(Q) /\ Len(bs) = n /\ n \in Nat
    BY <1>2, <1>4
  <2> HIDE DEF e
  <2>2. q \in Seq(Q) /\ Len(q) = n + 1
    BY <2>1
  <2>3. DOMAIN q = 1 .. n + 1
    <3> HIDE DEF q
    <3> QED BY <2>2
  <2>4. \A k \in 1 .. n : q[k] = bs[k]
    BY <2>1
  <2>5. q[n + 1] = e
    BY <2>1
  <2> QED BY <1>3, <2>2, <2>3, <2>4, <2>5 DEF e
<1>6. \A e \in g.edges : /\ e[1] \in 1 .. n + 1 /\ e[2] \in 1 .. n + 1 /\ e[2] # n + 1
                         /\ e[1] = n + 1 => e[2] = b
  <2> TAKE e \in g.edges
  <2>1. CASE e \in f.edges
    <3>1. e[1] \in 1 .. n /\ e[2] \in 1 .. n
      BY <1>2, <2>1
    <3> QED BY <1>2, <3>1
  <2>2. CASE e = <<n + 1, b>>
    <3>1. e[1] = n + 1 /\ e[2] = b
      BY <2>2
    <3> QED BY <1>2, <1>4, <3>1
  <2> QED BY <1>3, <2>1, <2>2
<1>7. \A k \in 1 .. m : g.blocks[k] = BlocksOf(Layout)[k]
  <2> TAKE k \in 1 .. m
  <2>1. k \in 1 .. n
    BY <1>1 DEF n
  <2> QED BY <1>2, <1>5, <2>1
<1>8. \A k \in m + 1 .. n + 1 : g.blocks[k] = << >>
  <2> TAKE k \in m + 1 .. n + 1
  <2>1. (k \in m + 1 .. n /\ k \in 1 .. n) \/ k = n + 1
    BY <1>1, <1>2
  <2> QED BY <1>2, <1>5, <2>1
<1>9. Formed(g, m, z + 1)
  BY <1>4, <1>5, <1>6, <1>7, <1>8 DEF Formed, Q
<1>10. {e[2] : e \in {x \in g.edges : x[1] = n + 1}} = {b}
  <2>1. <<n + 1, b>> \in g.edges /\ <<n + 1, b>>[1] = n + 1 /\ <<n + 1, b>>[2] = b
    BY <1>3
  <2> QED BY <1>6, <2>1
<1> QED BY <1>3, <1>5, <1>6, <1>9, <1>10 DEF n

\* The lifted function enters at the block of the entry.
EntersAt(mf, home) ==
  /\ \A e \in mf.edges : e[2] # mf.front
  /\ \/ home = mf.front
     \/ /\ mf.blocks[mf.front] = << >>
        /\ {e[2] : e \in {x \in mf.edges : x[1] = mf.front}} = {home}

\* The entry, if its trace is the first, is the first instruction of the layout.
LEMMA FirstIsFirst ==
  ASSUME TracesAreRuns, entry \in TracedAddresses, entry = FirstTraceStart, NEW m, m = LayoutLength
  PROVE  /\ 1 \in 1 .. m /\ BlockStarts(Layout)[1] = 1 /\ 1 \in 1 .. BlockEnd(Layout, 1)
         /\ Layout[1] = entry
<1>1. PICK t \in traces : entry \in t.addrs
  BY DEF TracedAddresses
<1> DEFINE F == {u.first : u \in traces}
<1>2. \A u \in traces : u.first \in u.addrs /\ u.first \in Addresses
  BY DEF TracesAreRuns, TraceIsRun
<1>3. Lowest(F) \in F /\ \A x \in F : Lowest(F) <= x
  <2>1. F \in SUBSET Int /\ F # {} /\ \A x \in F : 0 <= x
    BY <1>1, <1>2, LimitAssumption DEF Addresses
  <2>2. 0 \in Int
    OBVIOUS
  <2> HIDE DEF F
  <2> QED BY <2>1, <2>2, LowestIs
<1>4. entry \in F /\ \A x \in F : entry <= x
  BY <1>3 DEF FirstTraceStart
<1>5. PICK u \in traces : u.first = entry
  BY <1>4
<1>6. StartOf(entry) = entry
  BY <1>2, <1>5, StartOfIs
<1>7. \A x \in TracedAddresses : ~(<<x, entry>> \in LaidOutBefore)
  <2> SUFFICES ASSUME NEW x \in TracedAddresses, <<x, entry>> \in LaidOutBefore PROVE FALSE
    OBVIOUS
  <2>1. PICK v \in traces : x \in v.addrs /\ StartOf(x) = v.first /\ v.first \in Int /\ x \in Int
    BY TracedInTrace
  <2>2. entry <= v.first /\ v.first <= x /\ entry \in Int
    BY <1>4, <2>1, StartOfIs, TracedInTrace
  <2>3. StartOf(x) < StartOf(entry) \/ (StartOf(x) = StartOf(entry) /\ x < entry)
    BY BeforeIs
  <2> QED BY <1>6, <2>1, <2>2, <2>3
<1>8. Lists(Layout, TracedAddresses, LaidOutBefore) /\ IsFiniteSet(TracedAddresses)
  BY LayoutLists
<1> DEFINE n == Cardinality(TracedAddresses)
<1>9. PICK i \in 1 .. n : Layout[i] = entry
  BY <1>8 DEF Lists
<1>10. i = 1 /\ n \in Nat /\ 1 \in 1 .. n
  <2>1. n \in Nat /\ 1 \in 1 .. n
    BY <1>8, FS_CardinalityType
  <2>2. ~(1 < i)
    <3> HIDE DEF n
    <3>1. Layout[1] \in TracedAddresses /\ 1 \in DOMAIN Layout /\ i \in DOMAIN Layout
      BY <1>8, <2>1 DEF Lists, n
    <3>2. 1 < i => <<Layout[1], Layout[i]>> \in LaidOutBefore
      BY <1>8, <3>1 DEF Lists
    <3> QED BY <1>7, <1>9, <3>1, <3>2
  <2> QED BY <2>1, <2>2
<1>11. Layout[1] = entry /\ Len(Layout) = n
  BY <1>8, <1>9, <1>10 DEF Lists
<1> HIDE DEF n
<1> DEFINE st == BlockStarts(Layout)
<1>12. /\ m \in Nat
       /\ \A k \in 1 .. m : st[k] \in 1 .. n /\ BlockEnd(Layout, k) \in st[k] .. n
       /\ \A k, l \in 1 .. m : k < l => BlockEnd(Layout, k) < st[l]
       /\ \E k \in 1 .. m : st[k] = 1
  <2>1. Layout \in Seq(TracedAddresses) /\ StartsBlock(Layout, 1)
    BY LayoutIs DEF StartsBlock
  <2>0. m = Len(st) /\ st = BlockStarts(Layout)
    BY DEF LayoutLength
  <2>2. /\ m \in Nat
        /\ \A k \in 1 .. m : st[k] \in 1 .. n /\ BlockEnd(Layout, k) \in st[k] .. n
        /\ \A k, l \in 1 .. m : k < l => BlockEnd(Layout, k) < st[l]
        /\ \A j \in 1 .. n : StartsBlock(Layout, j) => \E k \in 1 .. m : st[k] = j
    <3> HIDE DEF st
    <3>1. m \in Nat
      BY <2>0, <2>1, BlocksCut
    <3>2. \A k \in 1 .. m : st[k] \in 1 .. n /\ BlockEnd(Layout, k) \in st[k] .. n
      BY <1>11, <2>0, <2>1, BlocksCut
    <3>3. \A k, l \in 1 .. m : k < l => BlockEnd(Layout, k) < st[l]
      BY <2>0, <2>1, BlocksCut
    <3>4. \A j \in 1 .. n : StartsBlock(Layout, j) => \E k \in 1 .. m : st[k] = j
      BY <1>11, <2>0, <2>1, BlocksCut
    <3> QED BY <3>1, <3>2, <3>3, <3>4
  <2> HIDE DEF st
  <2> QED BY <1>10, <2>1, <2>2
<1> HIDE DEF st
<1>13. PICK k \in 1 .. m : st[k] = 1
  BY <1>12
<1>14. 1 \in 1 .. m /\ st[1] \in 1 .. n /\ BlockEnd(Layout, 1) \in st[1] .. n
  BY <1>12, <1>13
<1>15. k = 1
  <2>1. ~(1 < k)
    <3> SUFFICES ASSUME 1 < k PROVE FALSE
      OBVIOUS
    <3>1. BlockEnd(Layout, 1) < st[k]
      BY <1>12, <1>14
    <3> QED BY <1>10, <1>13, <1>14, <3>1
  <2> QED BY <1>12, <2>1
<1> QED BY <1>10, <1>11, <1>13, <1>14, <1>15 DEF st

\* With its entry blocks the function keeps its form and enters where it should.
LEMMA AddEntryBlocksFormed ==
  ASSUME TracesAreRuns, NEW m, m = LayoutLength, NEW z, NEW f, Formed(f, m, z),
         f = [blocks |-> f.blocks, edges |-> f.edges],
         entry \in TracedAddresses, NEW mf, mf = AddEntryBlocks(f)
  PROVE  /\ \E y : Formed(mf, m, y)
         /\ f.edges \subseteq mf.edges
         /\ EntersAt(mf, BlockOf(mf.blocks, entry))
<1> DEFINE home == BlockOf(f.blocks, entry)
           en == Entered(f)
<1>1. m \in Nat /\ z \in Nat /\ home \in 1 .. m
  BY LayoutIs, BlockOfTraced DEF Formed
<1> HIDE DEF home, en
<1>2. mf = IF \E e \in en.edges : e[2] = en.front THEN JumpTo(en, en.front) ELSE en
  BY AddEntryBlocksIs DEF en
<1>3. ASSUME NEW y, NEW g, Formed(g, m, y) PROVE BlockOf(g.blocks, entry) = home
  <2>1. PICK k \in 1 .. m : \E i \in BlockStarts(Layout)[k] .. BlockEnd(Layout, k) : Layout[i] = entry
    BY LayoutIs
  <2>2. PICK i \in BlockStarts(Layout)[k] .. BlockEnd(Layout, k) : Layout[i] = entry
    BY <2>1
  <2>3. BlockOf(g.blocks, Layout[i]) = k
    BY <1>3, BlockOfPlace
  <2>4. BlockOf(f.blocks, Layout[i]) = k
    BY BlockOfPlace
  <2> QED BY <2>2, <2>3, <2>4 DEF home
<1>4. CASE entry # FirstTraceStart
  <2>1. en = JumpTo(f, home)
    BY <1>4 DEF en, Entered, home
  <2>2. home \in 1 .. m + z
    BY <1>1
  <2>3. /\ Formed(en, m, z + 1) /\ f.edges \subseteq en.edges
        /\ en.blocks[en.front] = << >>
        /\ \A e \in en.edges : e[2] # en.front
        /\ {e[2] : e \in {x \in en.edges : x[1] = en.front}} = {home}
    BY <2>1, <2>2, JumpToFormed
  <2>4. mf = en
    BY <1>2, <2>3
  <2>5. BlockOf(mf.blocks, entry) = home
    BY <1>3, <2>3, <2>4
  <2> QED BY <2>3, <2>4, <2>5 DEF EntersAt
<1>5. CASE entry = FirstTraceStart
  <2>1. en = [blocks |-> f.blocks, edges |-> f.edges, front |-> 1]
    BY <1>5 DEF en, Entered
  <2>2. en.blocks = f.blocks /\ en.edges = f.edges /\ en.front = 1
    BY <2>1
  <2>3. home = 1
    <3>1. /\ 1 \in 1 .. m /\ BlockStarts(Layout)[1] = 1 /\ 1 \in 1 .. BlockEnd(Layout, 1)
          /\ Layout[1] = entry
      BY <1>5, FirstIsFirst
    <3>2. 1 \in BlockStarts(Layout)[1] .. BlockEnd(Layout, 1)
      BY <3>1
    <3>3. BlockOf(f.blocks, Layout[1]) = 1
      BY <3>1, <3>2, BlockOfPlace
    <3> QED BY <3>1, <3>3 DEF home
  <2>4. Formed(en, m, z)
    BY <2>2 DEF Formed
  <2>5. CASE \E e \in en.edges : e[2] = en.front
    <3>1. mf = JumpTo(en, 1) /\ 1 \in 1 .. m + z
      BY <1>1, <1>2, <2>2, <2>3, <2>5
    <3>2. /\ Formed(mf, m, z + 1) /\ en.edges \subseteq mf.edges
          /\ mf.blocks[mf.front] = << >>
          /\ \A e \in mf.edges : e[2] # mf.front
          /\ {e[2] : e \in {x \in mf.edges : x[1] = mf.front}} = {1}
      BY <2>4, <3>1, JumpToFormed
    <3>3. BlockOf(mf.blocks, entry) = 1
      BY <1>3, <2>3, <3>2
    <3> QED BY <2>2, <3>2, <3>3 DEF EntersAt
  <2>6. CASE ~\E e \in en.edges : e[2] = en.front
    <3>1. mf = en
      BY <1>2, <2>6
    <3>2. BlockOf(mf.blocks, entry) = mf.front
      BY <1>3, <2>2, <2>3, <2>4, <3>1
    <3> QED BY <2>2, <2>4, <2>6, <3>1, <3>2 DEF EntersAt
  <2> QED BY <2>5, <2>6
<1> QED BY <1>4, <1>5

-----------------------------------------------------------------------------
(***************************************************************************)
(* Control flow in the function that is populated.                         *)
(***************************************************************************)
Flows(mf, a, b) ==
  LET from == BlockOf(mf.blocks, a)
      to   == BlockOf(mf.blocks, b)
  IN  \/ \E i \in 1 .. Len(mf.blocks[from]) - 1 :
            mf.blocks[from][i] = a /\ mf.blocks[from][i + 1] = b
      \/ /\ <<from, to>> \in mf.edges
         /\ Last(mf.blocks[from]) = a
         /\ Head(mf.blocks[to]) = b

\* A traced instruction's place: its index in the layout and the block of that.
LEMMA PlaceOf ==
  ASSUME TracesAreRuns, NEW m, m = LayoutLength, NEW y, NEW mf, Formed(mf, m, y),
         NEW a \in TracedAddresses
  PROVE  \E k \in 1 .. m : \E i \in 1 .. Len(Layout) :
           /\ Layout[i] = a /\ i \in BlockStarts(Layout)[k] .. BlockEnd(Layout, k)
           /\ BlockOf(mf.blocks, a) = k /\ mf.blocks[k] = BlocksOf(Layout)[k]
<1>1. PICK k \in 1 .. m : \E i \in BlockStarts(Layout)[k] .. BlockEnd(Layout, k) : Layout[i] = a
  BY LayoutIs
<1>2. PICK i \in BlockStarts(Layout)[k] .. BlockEnd(Layout, k) : Layout[i] = a
  BY <1>1
<1>3. BlockOf(mf.blocks, a) = k
  BY <1>2, BlockOfPlace
<1>4. i \in 1 .. Len(Layout)
  <2> DEFINE st == BlockStarts(Layout)
             n == Len(Layout)
  <2>1. Layout \in Seq(TracedAddresses) /\ st = BlockStarts(Layout) /\ m = Len(st)
    BY LayoutIs DEF LayoutLength
  <2> HIDE DEF st
  <2>2. n \in Nat /\ st[k] \in 1 .. n /\ BlockEnd(Layout, k) \in st[k] .. n
    BY <2>1, BlocksCut
  <2> QED BY <2>1, <2>2
<1> QED BY <1>2, <1>3, <1>4 DEF Formed

\* The blocks B of the layout: the k-th is its piece from st[k] to end[k].
Pieces(m, st, end, n, B) ==
  /\ n = Len(Layout) /\ n \in Nat /\ m \in Nat /\ st = BlockStarts(Layout) /\ B = BlocksOf(Layout)
  /\ \A k \in 1 .. m : end[k] = BlockEnd(Layout, k)
  /\ \A k \in 1 .. m : st[k] \in 1 .. n /\ end[k] \in 1 .. n /\ st[k] <= end[k]
  /\ \A k, l \in 1 .. m : k < l => end[k] < st[l]
  /\ \A k \in 1 .. m - 1 : end[k] + 1 = st[k + 1]
  /\ \A i \in 1 .. n : StartsBlock(Layout, i) => \E k \in 1 .. m : st[k] = i
  /\ \A k \in 1 .. m : Len(B[k]) = end[k] - st[k] + 1
  /\ \A k \in 1 .. m : \A i \in st[k] .. end[k] : B[k][i - st[k] + 1] = Layout[i]
  /\ \A k \in 1 .. m : Head(B[k]) = Layout[st[k]] /\ Last(B[k]) = Layout[end[k]]

\* The layout's blocks are such pieces.
LEMMA PiecesAre ==
  ASSUME TracesAreRuns, NEW m, m = LayoutLength
  PROVE  \E st, end, n, B : Pieces(m, st, end, n, B)
<1> DEFINE n == Len(Layout)
           st == BlockStarts(Layout)
           end == [k \in 1 .. m |-> BlockEnd(Layout, k)]
           B == BlocksOf(Layout)
<1>0. \A k \in 1 .. m : end[k] = BlockEnd(Layout, k)
  OBVIOUS
<1>1. Layout \in Seq(TracedAddresses) /\ st = BlockStarts(Layout) /\ m = Len(st) /\ B = BlocksOf(Layout)
      /\ n = Len(Layout)
  BY LayoutIs DEF LayoutLength
<1> HIDE DEF st, end, B, n
<1>2. n \in Nat /\ m \in Nat
  BY <1>1, BlocksCut
<1>3. \A k \in 1 .. m : st[k] \in 1 .. n /\ BlockEnd(Layout, k) \in st[k] .. n
  BY <1>1, BlocksCut
<1>4. \A k, l \in 1 .. m : k < l => BlockEnd(Layout, k) < st[l]
  BY <1>1, BlocksCut
<1>5. \A k \in 1 .. m - 1 : BlockEnd(Layout, k) + 1 = st[k + 1]
  <2> TAKE k \in 1 .. m - 1
  <2>1. k \in 1 .. m /\ k # m
    BY <1>2
  <2>2. BlockEnd(Layout, k) = st[k + 1] - 1
    BY <1>1, <2>1 DEF BlockEnd
  <2>3. k + 1 \in 1 .. m
    BY <1>2
  <2> QED BY <1>2, <1>3, <2>2, <2>3
<1>7. \A i \in 1 .. n : StartsBlock(Layout, i) => \E k \in 1 .. m : st[k] = i
  BY <1>1, BlocksCut
<1>9. \A k \in 1 .. m : st[k] \in 1 .. n /\ end[k] \in 1 .. n /\ st[k] <= end[k]
  BY <1>0, <1>2, <1>3
<1>11. \A k \in 1 .. m - 1 : end[k] + 1 = st[k + 1]
  <2> TAKE k \in 1 .. m - 1
  <2>1. k \in 1 .. m
    BY <1>2
  <2> QED BY <1>0, <1>5, <2>1
<1>12. \A k, l \in 1 .. m : k < l => end[k] < st[l]
  BY <1>0, <1>4
<1>13. ASSUME NEW k \in 1 .. m
       PROVE  /\ Len(B[k]) = end[k] - st[k] + 1
              /\ \A i \in st[k] .. end[k] : B[k][i - st[k] + 1] = Layout[i]
              /\ Head(B[k]) = Layout[st[k]] /\ Last(B[k]) = Layout[end[k]]
  <2>0. end[k] = BlockEnd(Layout, k) /\ BlockStarts(Layout) = st /\ BlocksOf(Layout) = B
    BY <1>0, <1>1
  <2>1. Len(B[k]) = BlockEnd(Layout, k) - st[k] + 1
    BY ONLY <1>1, BlocksAre, k \in 1 .. m
  <2>2. \A i \in st[k] .. BlockEnd(Layout, k) : B[k][i - st[k] + 1] = Layout[i]
    BY ONLY <1>1, BlocksAre, k \in 1 .. m
  <2>3. Head(B[k]) = Layout[st[k]]
    BY ONLY <1>1, BlocksAre, k \in 1 .. m
  <2>4. Last(B[k]) = Layout[BlockEnd(Layout, k)]
    BY ONLY <1>1, BlocksAre, k \in 1 .. m
  <2> QED BY <2>0, <2>1, <2>2, <2>3, <2>4
<1>14. Pieces(m, st, end, n, B)
  BY <1>0, <1>1, <1>2, <1>7, <1>9, <1>11, <1>12, <1>13 DEF Pieces
<1> QED BY <1>14

\* The function falls through from each block to the next, but not behind calls and
\* unconditional branches.
FallsThrough(mf, m) ==
  \A k \in 1 .. m - 1 : /\ code[Last(BlocksOf(Layout)[k])].op # "branch"
                        /\ \A c \in TracedCalls : BlockOf(Body.blocks, c) # k
                        => <<k, k + 1>> \in mf.edges

\* Control that falls through in the program falls through in the function.
LEMMA NextFlows ==
  ASSUME IsProgram, TracesAreRuns, Disjointed, CallsEndTheirBlocks(Body),
         NEW m, m = LayoutLength, NEW y, NEW mf, Formed(mf, m, y), FallsThrough(mf, m),
         NEW a \in TracedAddresses, ~EndsTrace(a), After(a) \in TracedAddresses
  PROVE  Flows(mf, a, After(a))
<1> DEFINE b == After(a)
<1>0. PICK st, end, n, B : Pieces(m, st, end, n, B)
  BY PiecesAre
<1>1. /\ n \in Nat /\ m \in Nat
      /\ \A k \in 1 .. m : st[k] \in 1 .. n /\ end[k] \in 1 .. n /\ st[k] <= end[k]
      /\ \A k, l \in 1 .. m : k < l => end[k] < st[l]
      /\ \A k \in 1 .. m - 1 : end[k] + 1 = st[k + 1]
  BY <1>0 DEF Pieces
<1>9. /\ \A x \in 1 .. m : Len(B[x]) = end[x] - st[x] + 1
      /\ \A x \in 1 .. m : \A z \in st[x] .. end[x] : B[x][z - st[x] + 1] = Layout[z]
      /\ \A x \in 1 .. m : Head(B[x]) = Layout[st[x]] /\ Last(B[x]) = Layout[end[x]]
  BY <1>0 DEF Pieces
<1>a. n = Len(Layout) /\ st = BlockStarts(Layout) /\ B = BlocksOf(Layout)
      /\ \A x \in 1 .. m : end[x] = BlockEnd(Layout, x)
  BY <1>0 DEF Pieces
<1>2. PICK k \in 1 .. m : \E i \in 1 .. n :
           /\ Layout[i] = a /\ i \in BlockStarts(Layout)[k] .. BlockEnd(Layout, k)
           /\ BlockOf(mf.blocks, a) = k /\ mf.blocks[k] = BlocksOf(Layout)[k]
  BY <1>a, PlaceOf
<1>3. PICK i \in 1 .. n :
           /\ Layout[i] = a /\ i \in st[k] .. BlockEnd(Layout, k)
           /\ BlockOf(mf.blocks, a) = k /\ mf.blocks[k] = B[k]
  BY <1>2, <1>a
<1>4. PICK l \in 1 .. m : \E j \in 1 .. n :
           /\ Layout[j] = b /\ j \in BlockStarts(Layout)[l] .. BlockEnd(Layout, l)
           /\ BlockOf(mf.blocks, b) = l /\ mf.blocks[l] = BlocksOf(Layout)[l]
  <2>1. b \in TracedAddresses
    OBVIOUS
  <2> HIDE DEF b
  <2> QED BY <1>a, <2>1, PlaceOf
<1>5. PICK j \in 1 .. n :
           /\ Layout[j] = b /\ j \in st[l] .. BlockEnd(Layout, l)
           /\ BlockOf(mf.blocks, b) = l /\ mf.blocks[l] = B[l]
  BY <1>4, <1>a
<1>6. BlockEnd(Layout, k) = end[k] /\ BlockEnd(Layout, l) = end[l]
  BY <1>a
<1>7. Lists(Layout, TracedAddresses, LaidOutBefore) /\ DOMAIN Layout = 1 .. n
  BY <1>a, LayoutLists DEF Lists
<1>8. /\ <<a, b>> \in LaidOutBefore
      /\ \A c \in TracedAddresses : ~(<<a, c>> \in LaidOutBefore /\ <<c, b>> \in LaidOutBefore)
  BY FallThroughIsNext
<1> HIDE DEF b
<1>10. j = i + 1
  <2>1. i < j
    BY <1>3, <1>5, <1>7, <1>8 DEF Lists
  <2>2. ~(i + 1 < j)
    <3> SUFFICES ASSUME i + 1 < j PROVE FALSE
      OBVIOUS
    <3>1. i + 1 \in 1 .. n
      BY <1>1, <1>3, <1>5
    <3>2. Layout[i + 1] \in TracedAddresses
      BY <1>7, <3>1 DEF Lists
    <3>3. <<Layout[i], Layout[i + 1]>> \in LaidOutBefore
      <4>1. \A x, z \in 1 .. n : x < z => <<Layout[x], Layout[z]>> \in LaidOutBefore
        BY <1>7 DEF Lists
      <4>2. i < i + 1
        BY <1>1, <1>3
      <4> QED BY <1>3, <3>1, <4>1, <4>2
    <3>4. <<Layout[i + 1], Layout[j]>> \in LaidOutBefore
      BY <1>5, <1>7, <3>1 DEF Lists
    <3> QED BY <1>3, <1>5, <1>8, <3>2, <3>3, <3>4
  <2> QED BY <1>1, <1>3, <1>5, <2>1, <2>2
<1>11. /\ st[k] <= i /\ i <= end[k] /\ i \in Int /\ st[k] \in Int /\ end[k] \in Int
       /\ st[l] <= j /\ j <= end[l] /\ j \in Int /\ st[l] \in Int /\ end[l] \in Int
  BY <1>1, <1>3, <1>5, <1>6
<1>12. CASE i < end[k]
  <2>1. l = k
    <3>1. ~(l < k)
      BY <1>1, <1>10, <1>11
    <3>2. ~(k < l)
      BY <1>1, <1>10, <1>11, <1>12
    <3> QED BY <1>1, <3>1, <3>2
  <2> DEFINE p == i - st[k] + 1
  <2>2. p \in 1 .. Len(B[k]) - 1
    BY <1>9, <1>11, <1>12
  <2>3. B[k][p] = a
    BY <1>3, <1>9, <1>11
  <2>4. B[k][p + 1] = b
    <3> DEFINE x == i + 1
    <3>1. x \in st[k] .. end[k] /\ x - st[k] + 1 = p + 1
      BY <1>11, <1>12
    <3> HIDE DEF x
    <3>2. B[k][x - st[k] + 1] = Layout[x]
      BY <1>9, <3>1
    <3> QED BY <1>5, <1>10, <3>1, <3>2 DEF x
  <2> HIDE DEF p
  <2> QED BY <1>3, <2>2, <2>3, <2>4 DEF Flows, b
<1>13. CASE i = end[k]
  <2>1. k < l
    <3>1. l # k /\ ~(l < k)
      BY <1>1, <1>10, <1>11, <1>13
    <3> QED BY <1>1, <3>1
  <2>2. k \in 1 .. m - 1 /\ k + 1 \in 1 .. m
    BY <1>1, <2>1
  <2>3. st[k + 1] = j
    BY <1>1, <1>10, <1>11, <1>13, <2>2
  <2>4. l = k + 1
    <3>1. ~(k + 1 < l)
      <4> SUFFICES ASSUME k + 1 < l PROVE FALSE
        OBVIOUS
      <4>1. end[k + 1] < st[l] /\ st[k + 1] <= end[k + 1] /\ end[k + 1] \in Int
        BY <1>1, <2>2
      <4> QED BY <1>11, <2>3, <4>1
    <3> QED BY <1>1, <2>1, <3>1
  <2>5. Last(B[k]) = a /\ Head(B[l]) = b
    BY <1>3, <1>5, <1>9, <1>13, <2>3, <2>4
  <2>6. code[a].op # "branch" /\ code[a].op # "call"
    BY DEF EndsTrace
  <2>7. \A c \in TracedCalls : BlockOf(Body.blocks, c) # k
    <3> SUFFICES ASSUME NEW c \in TracedCalls, BlockOf(Body.blocks, c) = k PROVE FALSE
      OBVIOUS
    <3>1. Last(Body.blocks[k]) = c
      BY DEF CallsEndTheirBlocks
    <3>2. Body.blocks[k] = B[k]
      BY <1>a DEF Body
    <3>3. c = a
      BY <2>5, <3>1, <3>2
    <3> QED BY <2>6, <3>3 DEF TracedCalls
  <2>8. <<k, k + 1>> \in mf.edges
    BY <2>2, <2>5, <2>6, <2>7, <1>a DEF FallsThrough
  <2> QED BY <1>3, <1>5, <2>4, <2>5, <2>8 DEF Flows, b
<1> QED BY <1>11, <1>12, <1>13

\* So does control that branches.
LEMMA BranchFlows ==
  ASSUME TracesAreRuns,
         NEW m, m = LayoutLength, NEW y, NEW mf, Formed(mf, m, y),
         NEW z, NEW f, Formed(f, m, z),
         NEW a \in TracedBranches, NEW b \in TracedAddresses, b \in directBranchTargets,
         <<BlockOf(f.blocks, a), BlockOf(f.blocks, b)>> \in mf.edges
  PROVE  Flows(mf, a, b)
<1>0. a \in TracedAddresses /\ IsTerminator(a)
  BY DEF TracedBranches, IsDirectBranch, IsTerminator
<1>b. PICK st, end, n, B : Pieces(m, st, end, n, B)
  BY PiecesAre
<1>1. /\ n \in Nat /\ m \in Nat
      /\ \A k \in 1 .. m : st[k] \in 1 .. n /\ end[k] \in 1 .. n /\ st[k] <= end[k]
      /\ \A k, l \in 1 .. m : k < l => end[k] < st[l]
      /\ \A i \in 1 .. n : StartsBlock(Layout, i) => \E k \in 1 .. m : st[k] = i
  BY <1>b DEF Pieces
<1>8. \A x \in 1 .. m : Head(B[x]) = Layout[st[x]] /\ Last(B[x]) = Layout[end[x]]
  BY <1>b DEF Pieces
<1>a. n = Len(Layout) /\ st = BlockStarts(Layout) /\ B = BlocksOf(Layout)
      /\ \A x \in 1 .. m : end[x] = BlockEnd(Layout, x)
  BY <1>b DEF Pieces
<1>2. PICK k \in 1 .. m : \E i \in 1 .. n :
           /\ Layout[i] = a /\ i \in BlockStarts(Layout)[k] .. BlockEnd(Layout, k)
           /\ BlockOf(mf.blocks, a) = k /\ mf.blocks[k] = BlocksOf(Layout)[k]
  BY <1>0, <1>a, PlaceOf
<1>3. PICK i \in 1 .. n :
           /\ Layout[i] = a /\ i \in st[k] .. BlockEnd(Layout, k)
           /\ BlockOf(mf.blocks, a) = k /\ mf.blocks[k] = B[k]
  BY <1>2, <1>a
<1>4. PICK l \in 1 .. m : \E j \in 1 .. n :
           /\ Layout[j] = b /\ j \in BlockStarts(Layout)[l] .. BlockEnd(Layout, l)
           /\ BlockOf(mf.blocks, b) = l /\ mf.blocks[l] = BlocksOf(Layout)[l]
  BY <1>a, PlaceOf
<1>5. PICK j \in 1 .. n :
           /\ Layout[j] = b /\ j \in st[l] .. BlockEnd(Layout, l)
           /\ BlockOf(mf.blocks, b) = l /\ mf.blocks[l] = B[l]
  BY <1>4, <1>a
<1>6. BlockOf(f.blocks, a) = k /\ BlockOf(f.blocks, b) = l
  BY <1>3, <1>5, <1>a, BlockOfPlace
<1>7. BlockEnd(Layout, k) = end[k] /\ BlockEnd(Layout, l) = end[l]
  BY <1>a
<1>9. /\ st[k] <= i /\ i <= end[k] /\ i \in Int /\ st[k] \in Int /\ end[k] \in Int
      /\ st[l] <= j /\ j <= end[l] /\ j \in Int /\ st[l] \in Int /\ end[l] \in Int
  BY <1>1, <1>3, <1>5, <1>7
<1>10. i = end[k]
  <2> SUFFICES ASSUME i < end[k] PROVE FALSE
    BY <1>9
  <2>1. i + 1 \in 1 .. n /\ i + 1 - 1 = i
    BY <1>1, <1>9
  <2>2. StartsBlock(Layout, i + 1)
    BY <1>0, <1>3, <2>1 DEF StartsBlock
  <2>3. PICK x \in 1 .. m : st[x] = i + 1
    BY <1>1, <2>1, <2>2
  <2>4. x # k /\ ~(k < x)
    BY <1>1, <1>9, <2>3
  <2>5. ~(x < k)
    <3> SUFFICES ASSUME x < k PROVE FALSE
      OBVIOUS
    <3>1. end[x] < st[k] /\ st[x] <= end[x] /\ end[x] \in Int
      BY <1>1
    <3> QED BY <1>9, <2>3, <3>1
  <2> QED BY <1>1, <2>4, <2>5
<1>11. st[l] = j
  <2>1. StartsBlock(Layout, j)
    BY <1>5 DEF StartsBlock
  <2>2. PICK x \in 1 .. m : st[x] = j
    BY <1>1, <2>1
  <2>3. ~(l < x)
    BY <1>1, <1>9, <2>2
  <2>4. ~(x < l)
    <3> SUFFICES ASSUME x < l PROVE FALSE
      OBVIOUS
    <3>1. end[x] < st[l] /\ st[x] <= end[x] /\ end[x] \in Int
      BY <1>1
    <3> QED BY <1>9, <2>2, <3>1
  <2>5. x = l
    BY <1>1, <2>3, <2>4
  <2> QED BY <2>2, <2>5
<1>12. Last(B[k]) = a /\ Head(B[l]) = b
  BY <1>3, <1>5, <1>8, <1>10, <1>11
<1> QED BY <1>3, <1>5, <1>6, <1>12 DEF Flows

\* Control flows in mf as in the program from e on, and mf enters at e.
Carries(mf, e) ==
  NoOverlap(e) =>
    /\ \A a \in Reachable(e) \cap Addresses : \A b \in Successors(a) \cap Addresses : Flows(mf, a, b)
    /\ EntersAt(mf, BlockOf(mf.blocks, e))

\* Each step a program takes is a step in the function that is populated.
LEMMA StepsFlow ==
  ASSUME IsProgram, TracesAreRuns, Disjointed, CallsEndTheirBlocks(Body),
         NEW m, m = LayoutLength, NEW y, NEW mf, Formed(mf, m, y), FallsThrough(mf, m),
         NEW z, NEW f, Formed(f, m, z),
         \A x \in TracedBranches :
              <<BlockOf(f.blocks, x), BlockOf(f.blocks, code[x].target)>> \in mf.edges,
         \A x \in TracedBranches : code[x].target \in directBranchTargets,
         NEW a \in TracedAddresses, NEW b \in Successors(a), b \in TracedAddresses
  PROVE  Flows(mf, a, b)
<1>1. \/ b = After(a) /\ ~EndsTrace(a)
      \/ b = code[a].target /\ IsDirectBranch(a)
  BY DEF Successors, EndsTrace, IsDirectBranch
<1>2. CASE b = After(a) /\ ~EndsTrace(a)
  <2>1. After(a) \in TracedAddresses
    BY <1>2
  <2>2. Flows(mf, a, After(a))
    BY <1>2, <2>1, NextFlows
  <2> QED BY <1>2, <2>2
<1>3. CASE b = code[a].target /\ IsDirectBranch(a)
  <2>1. a \in TracedBranches
    BY <1>3 DEF TracedBranches
  <2>2. b \in directBranchTargets /\ <<BlockOf(f.blocks, a), BlockOf(f.blocks, b)>> \in mf.edges
    BY <1>3, <2>1
  <2> QED BY <2>1, <2>2, BranchFlows
<1> QED BY <1>1, <1>2, <1>3

Populated == AddEntryBlocks(ResolveBranches(IsolateCalls(Body)))

\* What LiftFunction makes of the traces.
LEMMA PopulatedIs ==
  ASSUME IsProgram, entry \in Addresses, TracesSoFar(Reachable(entry)), TracesDone,
         BranchesResolve, CallsEndTheirBlocks(Body), NEW mf, mf = Populated
  PROVE  AddressesOf(mf) = Reachable(entry) \cap Addresses /\ Carries(mf, entry)
<1>1. TracesAreRuns
  BY DEF TracesSoFar, TracesAreRuns
<1>2. TracedAddresses = Reachable(entry) \cap Addresses
  BY TracesAreReachable
<1>3. entry \in TracedAddresses
  BY <1>2, ReachableFrom
<1> DEFINE m == LayoutLength
           f == IsolateCalls(Body)
           z == Cardinality(TracedCalls)
           rf == ResolveBranches(f)
<1>4. m = LayoutLength /\ f = IsolateCalls(Body) /\ rf = ResolveBranches(f) /\ mf = AddEntryBlocks(rf)
  BY DEF Populated
<1>5. f = [blocks |-> f.blocks, edges |-> f.edges]
  BY DEF IsolateCalls
<1> HIDE DEF m, f, rf, z
<1>6. Formed(f, m, z)
  BY <1>1, <1>4, IsolateCallsFormed DEF z
<1>7. \A k \in 1 .. m - 1 :
              /\ code[Last(BlocksOf(Layout)[k])].op # "branch"
              /\ \A c \in TracedCalls : BlockOf(Body.blocks, c) # k
              => <<k, k + 1>> \in f.edges
  BY <1>1, <1>4, IsolateCallsFormed
<1>8. /\ Formed(rf, m, z) /\ rf = [blocks |-> rf.blocks, edges |-> rf.edges]
      /\ f.edges \subseteq rf.edges
      /\ \A a \in TracedBranches :
           <<BlockOf(f.blocks, a), BlockOf(f.blocks, code[a].target)>> \in rf.edges
  BY <1>1, <1>4, <1>5, <1>6, ResolveBranchesFormed
<1>9. /\ \E y : Formed(mf, m, y)
      /\ rf.edges \subseteq mf.edges
      /\ EntersAt(mf, BlockOf(mf.blocks, entry))
  BY <1>1, <1>3, <1>4, <1>8, AddEntryBlocksFormed
<1>10. PICK y : Formed(mf, m, y)
  BY <1>9
<1>11. AddressesOf(mf) = TracedAddresses
  BY <1>1, <1>4, <1>10, FormedHolds
<1>12. ASSUME NoOverlap(entry), NEW a \in TracedAddresses, NEW b \in Successors(a), b \in Addresses
       PROVE  Flows(mf, a, b)
  <2>1. Disjointed
    BY <1>1, <1>2, <1>12, NoOverlapMeans
  <2>2. FallsThrough(mf, m)
    BY <1>7, <1>8, <1>9 DEF FallsThrough
  <2>3. \A x \in TracedBranches :
              <<BlockOf(f.blocks, x), BlockOf(f.blocks, code[x].target)>> \in mf.edges
    BY <1>8, <1>9
  <2>4. \A x \in TracedBranches : code[x].target \in directBranchTargets
    BY DEF TracedBranches, TracesSoFar
  <2>5. b \in TracedAddresses
    BY <1>2, <1>12, ReachableFrom DEF Closed
  <2> QED BY <1>1, <1>4, <1>6, <1>10, <1>12, <2>1, <2>2, <2>3, <2>4, <2>5, StepsFlow
<1> QED BY <1>2, <1>9, <1>11, <1>12 DEF Carries

-----------------------------------------------------------------------------
(***************************************************************************)
(* The entry points a complete discovery visits.                           *)
(***************************************************************************)
DeviceEntries == {DeviceEntry(a) : a \in Int}

\* A set of entry points that holds what those of its functions that are in
\* memory lead to.
LeadsInside(C) == \A ep \in C : ep.addr \in Addresses =>
                    \A b \in LeadsTo(ep.addr) : DeviceEntry(b) \in C

CalledFrom(B) == B \cup {DeviceEntry(b) : b \in UNION {LeadsTo(ep.addr) :
                           ep \in {e \in B : e.addr \in Addresses}}}

FirstCalled == {DeviceEntry(a) : a \in LeadsTo(initial.addr)}

\* The function within that Closure is defined by.
WithinCalls ==
  CHOOSE w : w = [n \in Nat |-> IF n = 0 THEN FirstCalled ELSE CalledFrom(w[n - 1])]

\* The closure is the last value of that function, and the initial entry point.
LEMMA ClosureIsWithin == Closure = {initial} \cup WithinCalls[Limit + 1]
BY SMT DEF Closure, WithinCalls, FirstCalled, CalledFrom

\* Functions lead to integers.
LEMMA LeadsToAre ==
  ASSUME IsProgram, NEW a
  PROVE  LeadsTo(a) \subseteq Int
<1> DEFINE body == Reachable(a) \cap Addresses
<1>1. ASSUME NEW x \in body PROVE code[x].target \in Int /\ After(x) \in Int
  <2>1. x \in Addresses
    OBVIOUS
  <2>2. code[x].target \in Int /\ After(x) \in Nat
    BY <2>1, AddressesAre
  <2> QED BY <2>2
<1>2. LeadsTo(a) = CallTargetsIn(body) \cup ContinuationsIn(body)
  BY DEF LeadsTo
<1> HIDE DEF body
<1>3. CallTargetsIn(body) \subseteq Int
  BY <1>1 DEF CallTargetsIn
<1>4. ContinuationsIn(body) \subseteq Int
  BY <1>1 DEF ContinuationsIn
<1> QED BY <1>2, <1>3, <1>4

\* A device entry point is given by its address.
LEMMA DeviceEntriesAre ==
  ASSUME NEW ep \in DeviceEntries
  PROVE  ep = DeviceEntry(ep.addr) /\ ep.addr \in Int
BY DEF DeviceEntries, DeviceEntry

\* The initial entry point is a kernel's, in memory.
StartsIn == initial = [kernel |-> TRUE, addr |-> initial.addr] /\ initial.addr \in Addresses

\* It is what its equation says.
LEMMA WithinCallsIs ==
  ASSUME IsProgram
  PROVE  /\ \A n \in Nat : WithinCalls[n] \in SUBSET DeviceEntries
         /\ WithinCalls[0] = FirstCalled
         /\ \A n \in Nat : WithinCalls[n + 1] = CalledFrom(WithinCalls[n])
<1> DEFINE V == SUBSET DeviceEntries
           base == FirstCalled
           step == [B \in V |-> CalledFrom(B)]
<1>1. \A a : \A b \in LeadsTo(a) : DeviceEntry(b) \in DeviceEntries
  BY LeadsToAre DEF DeviceEntries
<1>2. base \in V
  BY <1>1 DEF FirstCalled
<1>3. \A B \in V : CalledFrom(B) \in V
  BY <1>1 DEF CalledFrom
<1>4. step \in [V -> V]
  BY <1>3
<1>5. \A B \in V : step[B] = CalledFrom(B)
  OBVIOUS
<1>6. \E g \in [Nat -> V] : g[0] = base /\ \A n \in Nat : g[n + 1] = step[g[n]]
  <2> HIDE DEF step, V, base
  <2> QED BY <1>2, <1>4, PrimitiveRecursion
<1> HIDE DEF step, V
<1>7. PICK g \in [Nat -> V] : g[0] = base /\ \A n \in Nat : g[n + 1] = step[g[n]]
  BY <1>6
<1>8. \A n \in Nat : g[n + 1] = CalledFrom(g[n])
  BY <1>5, <1>7
<1>9. g = [n \in Nat |-> IF n = 0 THEN FirstCalled ELSE CalledFrom(g[n - 1])]
  <2>1. \A n \in Nat : n # 0 => n - 1 \in Nat /\ n - 1 + 1 = n
    OBVIOUS
  <2>2. \A n \in Nat : n # 0 => g[n] = CalledFrom(g[n - 1])
    BY <1>8, <2>1
  <2> QED BY <1>7, <2>2
<1> DEFINE w == WithinCalls
<1>10. w = [n \in Nat |-> IF n = 0 THEN FirstCalled ELSE CalledFrom(w[n - 1])]
  BY <1>9, Zenon DEF WithinCalls
<1>11. w[0] = FirstCalled /\ \A n \in Nat : w[n + 1] = CalledFrom(w[n])
  <2>1. \A n \in Nat : n + 1 \in Nat /\ n + 1 # 0 /\ n + 1 - 1 = n
    OBVIOUS
  <2> HIDE DEF w
  <2> QED BY <1>10, <2>1
<1> HIDE DEF w
<1> DEFINE T == {n \in Nat : w[n] \in V}
<1>12. 0 \in T /\ \A n \in T : n + 1 \in T
  BY <1>2, <1>3, <1>11
<1>13. T = Nat
  <2> HIDE DEF T
  <2> QED BY <1>12, Upwards DEF T
<1> QED BY <1>11, <1>13 DEF V, w

\* The closure is contained in every such set that holds the initial entry point.
LEMMA ClosureLeast ==
  ASSUME IsProgram, StartsIn, NEW C, initial \in C, LeadsInside(C)
  PROVE  Closure \subseteq C
<1> DEFINE w == WithinCalls
           T == {n \in Nat : w[n] \subseteq C}
<1>1. 0 \in T
  <2>1. \A b \in LeadsTo(initial.addr) : DeviceEntry(b) \in C
    BY DEF StartsIn, LeadsInside
  <2> QED BY <2>1, WithinCallsIs DEF FirstCalled
<1>2. ASSUME NEW n \in T PROVE n + 1 \in T
  <2>1. w[n + 1] = CalledFrom(w[n]) /\ w[n] \subseteq C
    BY WithinCallsIs
  <2>2. CalledFrom(w[n]) \subseteq C
    BY <2>1 DEF CalledFrom, LeadsInside
  <2> QED BY <2>1, <2>2
<1>3. T = Nat
  <2> HIDE DEF T
  <2> QED BY <1>1, <1>2, Upwards DEF T
<1>4. Limit + 1 \in Nat
  BY LimitAssumption
<1>5. w[Limit + 1] \subseteq C
  BY <1>3, <1>4
<1> QED BY <1>5, ClosureIsWithin

\* It is such a set itself: Limit + 1 steps suffice in Limit words.
LEMMA ClosureClosed ==
  ASSUME IsProgram, StartsIn
  PROVE  initial \in Closure /\ LeadsInside(Closure) /\ Closure \subseteq {initial} \cup DeviceEntries
<1> DEFINE w == WithinCalls
           W == [n \in Nat |-> {a \in Addresses : DeviceEntry(a) \in w[n]}]
<1>1. \A n \in Nat : /\ w[n] \in SUBSET DeviceEntries /\ w[n + 1] = CalledFrom(w[n])
                     /\ w[n] \subseteq w[n + 1]
  BY WithinCallsIs DEF CalledFrom
<1>2. w[0] = FirstCalled
  BY WithinCallsIs
<1>c. Closure = {initial} \cup w[Limit + 1]
  BY ClosureIsWithin
<1> HIDE DEF w
<1>3. Limit \in Nat \ {0} /\ Cardinality(Addresses) = Limit /\ IsFiniteSet(Addresses)
  BY LimitAssumption, AddressesAre
<1>4. \A n \in Nat : W[n] \subseteq Addresses /\ W[n] \subseteq W[n + 1]
  BY <1>1
<1>5. \E n \in 0 .. Limit : W[n + 1] = W[n]
  <2>1. Cardinality(W[0]) \in Nat
    BY <1>3, <1>4, FS_Subset, FS_CardinalityType
  <2> HIDE DEF W
  <2>2. \E n \in 0 .. Cardinality(Addresses) - Cardinality(W[0]) : W[n + 1] = W[n]
    BY <1>3, <1>4, Saturates
  <2> QED BY <1>3, <2>1, <2>2
<1>6. PICK n \in 0 .. Limit : W[n + 1] = W[n]
  BY <1>5
<1>7. n \in Nat /\ n + 1 \in Nat
  BY <1>3
<1>8. \A ep \in w[n + 1] : ep.addr \in Addresses => ep \in w[n]
  <2> TAKE ep \in w[n + 1]
  <2> HAVE ep.addr \in Addresses
  <2>1. ep = DeviceEntry(ep.addr)
    BY <1>1, <1>7, DeviceEntriesAre
  <2>2. ep.addr \in W[n + 1]
    BY <1>7, <2>1
  <2>3. ep.addr \in W[n]
    BY <1>6, <2>2
  <2> QED BY <1>7, <2>1, <2>3
<1> HIDE DEF W
<1>9. LeadsInside(w[n + 1])
  BY <1>1, <1>7, <1>8 DEF LeadsInside, CalledFrom
<1> DEFINE T == {k \in Nat : w[n + 1 + k] = w[n + 1]}
<1>10. 0 \in T
  BY <1>7
<1>11. ASSUME NEW k \in T PROVE k + 1 \in T
  <2>1. n + 1 + k \in Nat /\ n + 1 + (k + 1) = n + 1 + k + 1
    BY <1>7
  <2>2. w[n + 1 + (k + 1)] = CalledFrom(w[n + 1])
    BY <1>1, <2>1
  <2>3. CalledFrom(w[n + 1]) = w[n + 1]
    BY <1>9 DEF CalledFrom, LeadsInside
  <2> QED BY <2>2, <2>3
<1>12. T = Nat
  <2> HIDE DEF T
  <2> QED BY <1>10, <1>11, Upwards DEF T
<1>13. w[Limit + 1] = w[n + 1]
  <2>1. Limit + 1 - (n + 1) \in Nat /\ n + 1 + (Limit + 1 - (n + 1)) = Limit + 1
    BY <1>3, <1>7
  <2> QED BY <1>12, <2>1
<1> DEFINE S == {k \in Nat : FirstCalled \subseteq w[k]}
<1>14. S = Nat
  <2>1. 0 \in S /\ \A k \in S : k + 1 \in S
    BY <1>1, <1>2
  <2> HIDE DEF S
  <2> QED BY <2>1, Upwards DEF S
<1>15. FirstCalled \subseteq w[n + 1]
  BY <1>7, <1>14
<1>16. LeadsInside({initial} \cup w[n + 1])
  BY <1>9, <1>15 DEF LeadsInside, FirstCalled
<1> QED BY <1>1, <1>7, <1>13, <1>16, <1>c

-----------------------------------------------------------------------------
(***************************************************************************)
(* The worklist.                                                            *)
(***************************************************************************)
\* What is kept of a function that was lifted from e.
LiftedFrom(mf, e) == AddressesOf(mf) = Reachable(e) \cap Addresses /\ Carries(mf, e)

\* The entry points that are known.
Known == visited \cup unvisited

\* Each visited function is lifted as the program has it, and what it leads to is known.
VisitedSoFar ==
  \A ep \in visited :
    /\ ep.addr \in Addresses
    /\ \E mf : mf = lifted[ep] /\ LiftedFrom(mf, ep.addr)
    /\ \A b \in LeadsTo(ep.addr) : DeviceEntry(b) \in Known

OnlyReachableKnown == Known \cup {current} \subseteq Closure

TracingCurrent ==
  stage = "traces" =>
    entry = current.addr /\ entry \in Addresses /\ TracesSoFar(Reachable(entry))

FailsForAReason == stage = "failed" => \E ep \in Closure : Undecodable(Reachable(ep.addr))

DoneWhenEmpty == stage = "done" => unvisited = {}

DiscoveryInv ==
  /\ IsProgram
  /\ StartsIn
  /\ initial \in Known
  /\ VisitedSoFar
  /\ OnlyReachableKnown
  /\ TracingCurrent
  /\ FailsForAReason
  /\ DoneWhenEmpty

\* In a run the program and the initial entry point stay, and with them what follows from them.
LEMMA SameCode ==
  ASSUME code' = code
  PROVE  /\ \A a : LeadsTo(a)' = LeadsTo(a)
         /\ \A mf, e : LiftedFrom(mf, e)' <=> LiftedFrom(mf, e)
         /\ \A R : Undecodable(R)' <=> Undecodable(R)
<1>1. /\ \A a : After(a)' = After(a)
      /\ \A a : Successors(a)' = Successors(a)
      /\ \A e : Reachable(e)' = Reachable(e)
      /\ \A a : Decodes(a)' <=> Decodes(a)
  BY SameProgram
<1>2. ASSUME NEW a PROVE LeadsTo(a)' = LeadsTo(a)
  BY <1>1 DEF LeadsTo, CallTargetsIn, ContinuationsIn
<1>3. ASSUME NEW mf, NEW e PROVE LiftedFrom(mf, e)' <=> LiftedFrom(mf, e)
  <2>1. NoOverlap(e)' <=> NoOverlap(e)
    BY <1>1 DEF NoOverlap
  <2>2. Carries(mf, e)' <=> Carries(mf, e)
    BY <1>1, <2>1 DEF Carries
  <2> QED BY <1>1, <2>2 DEF LiftedFrom
<1>4. ASSUME NEW R PROVE Undecodable(R)' <=> Undecodable(R)
  BY <1>1 DEF Undecodable
<1> QED BY <1>2, <1>3, <1>4

\* The closure is the same as long as the program and the initial entry point are.
LEMMA SameClosure ==
  ASSUME code' = code, initial' = initial
  PROVE  Closure' = Closure /\ (StartsIn' <=> StartsIn)
<1>2. Closure' = Closure
  BY SMT DEF Closure, LeadsTo, CallTargetsIn, ContinuationsIn, Reachable, Successors, After
<1> QED BY <1>2 DEF StartsIn

\* The known entry points that stay known keep the promise of the visited ones.
LEMMA VisitedStays ==
  ASSUME VisitedSoFar, code' = code, visited' = visited, lifted' = lifted, Known \subseteq Known'
  PROVE  VisitedSoFar'
<1>1. /\ \A a : LeadsTo(a)' = LeadsTo(a)
      /\ \A mf, e : LiftedFrom(mf, e)' <=> LiftedFrom(mf, e)
  BY SameCode
<1> QED BY <1>1 DEF VisitedSoFar

\* The invariant holds when run() begins.
LEMMA InitDiscoveryInv == Init => DiscoveryInv
<1> SUFFICES ASSUME Init PROVE DiscoveryInv
  OBVIOUS
<1>1. IsProgram
  BY ProgramsAssumption DEF Init, IsProgram
<1>2. StartsIn
  BY KernelEntriesAssumption DEF Init, StartsIn
<1>3. initial \in Known /\ Known \cup {current} = {initial} /\ visited = {}
  BY DEF Init, Known
<1>4. OnlyReachableKnown
  BY <1>1, <1>2, <1>3, ClosureClosed DEF OnlyReachableKnown
<1> QED BY <1>1, <1>2, <1>3, <1>4
     DEF Init, DiscoveryInv, VisitedSoFar, TracingCurrent, FailsForAReason, DoneWhenEmpty

\* The entry point that is picked is one of the closure; a device function outside memory is an error.
LEMMA PickKeeps == ASSUME DiscoveryInv, PickEntryPoint PROVE DiscoveryInv'
<1>1. PICK ep \in unvisited \ visited :
        /\ current' = ep
        /\ entry' = ep.addr
        /\ StartTraces(ep.addr)
        /\ stage' = IF ep.kernel \/ ep.addr \in Addresses THEN "traces" ELSE "failed"
  BY DEF PickEntryPoint
<1>2. UNCHANGED <<code, initial, unvisited, visited, lifted>>
  BY DEF PickEntryPoint
<1>3. Closure' = Closure /\ StartsIn' /\ IsProgram' /\ Known' = Known
  BY <1>2, SameClosure, SameProgram DEF DiscoveryInv, Known
<1>4. VisitedSoFar'
  BY <1>2, <1>3, VisitedStays DEF DiscoveryInv
<1>5. ep \in Closure /\ OnlyReachableKnown'
  BY <1>1, <1>3 DEF DiscoveryInv, OnlyReachableKnown, Known
<1>6. ep.kernel => ep.addr \in Addresses
  <2>1. ep = initial \/ ep \in DeviceEntries
    BY <1>5, ClosureClosed DEF DiscoveryInv
  <2> QED BY <2>1 DEF DiscoveryInv, StartsIn, DeviceEntries, DeviceEntry
<1>7. ep.addr \in Int
  BY <1>5, ClosureClosed, DeviceEntriesAre, AddressesAre DEF DiscoveryInv, StartsIn
<1>8. ep.addr \in Reachable(ep.addr)
  BY <1>7, ReachableClosed DEF DiscoveryInv
<1>9. /\ \A e : Reachable(e)' = Reachable(e)
      /\ \A R : Undecodable(R)' <=> Undecodable(R)
  BY <1>2, SameProgram, SameCode
<1>10. CASE ep.addr \in Addresses
  <2>1. stage' = "traces" /\ entry' = ep.addr /\ current' = ep
    BY <1>1, <1>10
  <2> DEFINE R == Reachable(ep.addr)
  <2>2. /\ unvisitedTraceAddresses' = {ep.addr} /\ traces' = {} /\ directBranchTargets' = {}
        /\ sweepFailed' = FALSE
    BY <1>1 DEF StartTraces
  <2>3. TracedAddresses' = {}
    BY <2>2 DEF TracedAddresses
  <2>4. R' = R /\ ep.addr \in R
    BY <1>8, <1>9
  <2> HIDE DEF R
  <2>5. TracesSoFar(R)'
    BY <2>1, <2>2, <2>3, <2>4 DEF TracesSoFar
  <2>6. TracesSoFar(Reachable(entry))'
    BY <2>1, <2>5 DEF R
  <2>7. TracingCurrent'
    BY <1>10, <2>1, <2>6 DEF TracingCurrent
  <2> QED BY <1>2, <1>3, <1>4, <1>5, <2>1, <2>7
       DEF DiscoveryInv, FailsForAReason, DoneWhenEmpty
<1>11. CASE ep.addr \notin Addresses
  <2>1. stage' = "failed"
    BY <1>1, <1>6, <1>11
  <2>2. Undecodable(Reachable(ep.addr))
    BY <1>8, <1>11 DEF Undecodable
  <2>3. FailsForAReason'
    BY <1>3, <1>5, <1>9, <2>2 DEF FailsForAReason
  <2> QED BY <1>2, <1>3, <1>4, <1>5, <2>1, <2>3
       DEF DiscoveryInv, TracingCurrent, DoneWhenEmpty
<1> QED BY <1>10, <1>11

\* An entry point that was visited is known whether it waits or not.
LEMMA DropKeeps == ASSUME DiscoveryInv, DropVisited PROVE DiscoveryInv'
<1>1. /\ \E ep \in unvisited \cap visited : unvisited' = unvisited \ {ep}
      /\ UNCHANGED <<code, entry, traceVars, stage, current, initial, visited, lifted>>
      /\ stage = "pick"
  BY DEF DropVisited
<1>2. Closure' = Closure /\ StartsIn' /\ IsProgram' /\ Known' = Known
  BY <1>1, SameClosure, SameProgram DEF DiscoveryInv, Known
<1>3. VisitedSoFar'
  BY <1>1, <1>2, VisitedStays DEF DiscoveryInv
<1> QED BY <1>1, <1>2, <1>3 DEF DiscoveryInv, OnlyReachableKnown, TracingCurrent,
         FailsForAReason, DoneWhenEmpty

\* Each step of discoverTraces keeps it, whether it adds a trace or not.
LEMMA TraceStepKeeps == ASSUME DiscoveryInv, TraceStep PROVE DiscoveryInv'
<1>1. /\ SkipCoveredAddress \/ DisassembleTrace
      /\ UNCHANGED <<code, entry, stage, current, initial, unvisited, visited, lifted>>
      /\ stage = "traces"
  BY DEF TraceStep
<1>2. Closure' = Closure /\ StartsIn' /\ IsProgram' /\ Known' = Known
  BY <1>1, SameClosure, SameProgram DEF DiscoveryInv, Known
<1>3. VisitedSoFar'
  BY <1>1, <1>2, VisitedStays DEF DiscoveryInv
<1>4. TracesSoFar(Reachable(entry))'
  BY <1>1, TracesGrow, TracesShrink DEF DiscoveryInv, TracingCurrent
<1>5. TracingCurrent'
  BY <1>1, <1>4 DEF DiscoveryInv, TracingCurrent
<1> QED BY <1>1, <1>2, <1>3, <1>5 DEF DiscoveryInv, OnlyReachableKnown,
         FailsForAReason, DoneWhenEmpty

\* An error is reported because the current function runs into what is not code.
LEMMA FailureKeeps ==
  ASSUME DiscoveryInv, TracesUnavailable \/ AbortOnAssertion \/ BranchUnresolved
  PROVE  DiscoveryInv'
<1>1. /\ UNCHANGED <<code, entry, traceVars, current, initial, unvisited, visited, lifted>>
      /\ stage = "traces" /\ stage' \in {"failed", "aborted"}
  BY DEF TracesUnavailable, AbortOnAssertion, BranchUnresolved
<1>2. Closure' = Closure /\ StartsIn' /\ IsProgram' /\ Known' = Known
  BY <1>1, SameClosure, SameProgram DEF DiscoveryInv, Known
<1>3. VisitedSoFar'
  BY <1>1, <1>2, VisitedStays DEF DiscoveryInv
<1>4. /\ IsProgram /\ entry = current.addr /\ entry \in Addresses /\ current \in Closure
      /\ TracesSoFar(Reachable(entry))
  BY <1>1 DEF DiscoveryInv, TracingCurrent, OnlyReachableKnown
<1>5. ASSUME stage' = "failed" PROVE Undecodable(Reachable(entry))
  <2>1. CASE TracesUnavailable
    BY <1>4, <2>1 DEF TracesUnavailable, TracesSoFar
  <2>2. CASE AbortOnAssertion
    BY <1>5, <2>2 DEF AbortOnAssertion
  <2>3. CASE BranchUnresolved
    <3>1. TracesDone /\ ~BranchesResolve
      BY <2>3 DEF BranchUnresolved
    <3>2. TracedAddresses = Reachable(entry) \cap Addresses
      BY <1>4, <3>1, TracesAreReachable
    <3>3. PICK a \in TracedBranches : code[a].target \notin TracedAddresses
      BY <3>1 DEF BranchesResolve
    <3>4. a \in Reachable(entry) /\ a \in Addresses /\ code[a].target \in Successors(a)
      BY <3>2, <3>3 DEF TracedBranches, IsDirectBranch, Successors
    <3>5. code[a].target \in Reachable(entry)
      BY <1>4, <3>4, ReachableFrom DEF Closed
    <3> QED BY <3>2, <3>3, <3>5 DEF Undecodable
  <2> QED BY <2>1, <2>2, <2>3
<1>6. \A R : Undecodable(R)' <=> Undecodable(R)
  BY <1>1, SameCode
<1>7. \A e : Reachable(e)' = Reachable(e)
  BY <1>1, SameProgram
<1>8. FailsForAReason'
  BY <1>2, <1>4, <1>5, <1>6, <1>7 DEF FailsForAReason
<1> QED BY <1>1, <1>2, <1>3, <1>8 DEF DiscoveryInv, OnlyReachableKnown,
         TracingCurrent, DoneWhenEmpty

\* What joins the worklist is what the visited functions and the current one lead to.
LEMMA NewEntryPointsAre ==
  ASSUME DiscoveryInv, stage = "traces", TracesDone
  PROVE  /\ NewEntryPoints \subseteq Closure
         /\ \A b \in LeadsTo(entry) : DeviceEntry(b) \in visited \cup NewEntryPoints
<1>1. /\ IsProgram /\ StartsIn /\ entry = current.addr /\ entry \in Addresses /\ current \in Closure
      /\ TracesSoFar(Reachable(entry)) /\ VisitedSoFar /\ visited \subseteq Closure
  BY DEF DiscoveryInv, TracingCurrent, OnlyReachableKnown, Known
<1>2. TracedAddresses = Reachable(entry) \cap Addresses
  BY <1>1, TracesAreReachable
<1>3. LeadsTo(entry) = CallTargetsIn(TracedAddresses) \cup ContinuationsIn(TracedAddresses)
  BY <1>2 DEF LeadsTo
<1>4. LeadsInside(Closure)
  BY <1>1, ClosureClosed
<1>5. \A b \in LeadsTo(entry) : DeviceEntry(b) \in Closure
  BY <1>1, <1>4 DEF LeadsInside
<1>6. ASSUME NEW b \in DiscoveredAddrs PROVE DeviceEntry(b) \in Closure
  <2>1. PICK a \in TracedAddresses \cup UNION {AddressesOf(lifted[ep]) : ep \in visited} :
          code[a].op \in {"call", "setpc"} /\ b = code[a].target /\ b # Unknown
    BY <1>6 DEF DiscoveredAddrs, CallTargetsIn
  <2>2. CASE a \in TracedAddresses
    <3>1. b \in CallTargetsIn(TracedAddresses)
      BY <2>1, <2>2 DEF CallTargetsIn
    <3> QED BY <1>3, <1>5, <3>1
  <2>3. CASE \E ep \in visited : a \in AddressesOf(lifted[ep])
    <3>1. PICK ep \in visited : a \in AddressesOf(lifted[ep])
      BY <2>3
    <3>2. AddressesOf(lifted[ep]) = Reachable(ep.addr) \cap Addresses /\ ep.addr \in Addresses
      BY <1>1 DEF VisitedSoFar, LiftedFrom
    <3>3. b \in LeadsTo(ep.addr)
      BY <2>1, <3>1, <3>2 DEF LeadsTo, CallTargetsIn
    <3> QED BY <1>1, <1>4, <3>2, <3>3 DEF LeadsInside
  <2> QED BY <2>1, <2>2, <2>3
<1>7. NewEntryPoints \subseteq Closure
  BY <1>3, <1>5, <1>6 DEF NewEntryPoints
<1>8. CallTargetsIn(TracedAddresses) \subseteq DiscoveredAddrs
  BY DEF DiscoveredAddrs, CallTargetsIn
<1>9. ASSUME NEW b \in LeadsTo(entry) PROVE DeviceEntry(b) \in visited \cup NewEntryPoints
  BY <1>3, <1>8 DEF NewEntryPoints
<1> QED BY <1>7, <1>9

\* Populating the current function keeps it.
LEMMA LiftKeeps == ASSUME DiscoveryInv, LiftFunction PROVE DiscoveryInv'
<1>1. /\ stage = "traces" /\ TracesDone /\ BranchesResolve /\ CallsEndTheirBlocks(Body)
      /\ lifted' = [ep \in visited \cup {current} |-> IF ep = current THEN Populated ELSE lifted[ep]]
  BY DEF LiftFunction, Populated
<1>2. /\ unvisited' = (unvisited \cup NewEntryPoints) \ {current}
      /\ visited' = visited \cup {current}
      /\ stage' = "pick"
      /\ UNCHANGED <<code, entry, traceVars, current, initial>>
  BY DEF LiftFunction
<1>3. /\ IsProgram /\ StartsIn /\ entry = current.addr /\ entry \in Addresses
      /\ TracesSoFar(Reachable(entry)) /\ VisitedSoFar /\ initial \in Known
      /\ Known \cup {current} \subseteq Closure
  BY <1>1 DEF DiscoveryInv, TracingCurrent, OnlyReachableKnown
<1>4. Closure' = Closure /\ StartsIn' /\ IsProgram'
  BY <1>2, <1>3, SameClosure, SameProgram
<1>5. /\ NewEntryPoints \subseteq Closure
      /\ \A b \in LeadsTo(entry) : DeviceEntry(b) \in visited \cup NewEntryPoints
  BY <1>1, NewEntryPointsAre
<1>6. Known' = Known \cup NewEntryPoints \cup {current}
  BY <1>2 DEF Known
<1>7. LiftedFrom(Populated, entry)
  BY <1>1, <1>3, PopulatedIs DEF LiftedFrom
<1>8. /\ \A a : LeadsTo(a)' = LeadsTo(a)
      /\ \A mf, e : LiftedFrom(mf, e)' <=> LiftedFrom(mf, e)
  BY <1>2, SameCode
<1>9. VisitedSoFar'
  <2>1. ASSUME NEW ep \in visited'
        PROVE  /\ ep.addr \in Addresses
               /\ \E mf : mf = lifted'[ep] /\ LiftedFrom(mf, ep.addr)
               /\ \A b \in LeadsTo(ep.addr) : DeviceEntry(b) \in Known'
    <3>1. CASE ep = current
      <4>1. lifted'[ep] = Populated
        BY <1>1, <3>1
      <4>2. \A b \in LeadsTo(entry) : DeviceEntry(b) \in Known'
        BY <1>5, <1>6 DEF Known
      <4> QED BY <1>3, <1>7, <3>1, <4>1, <4>2
    <3>2. CASE ep # current
      <4>1. ep \in visited /\ lifted'[ep] = lifted[ep]
        BY <1>1, <1>2, <3>2
      <4>2. /\ ep.addr \in Addresses
            /\ \E mf : mf = lifted[ep] /\ LiftedFrom(mf, ep.addr)
            /\ \A b \in LeadsTo(ep.addr) : DeviceEntry(b) \in Known
        BY <1>3, <4>1 DEF VisitedSoFar
      <4> QED BY <1>6, <4>1, <4>2
    <3> QED BY <3>1, <3>2
  <2> QED BY <1>8, <2>1 DEF VisitedSoFar
<1>10. OnlyReachableKnown'
  BY <1>2, <1>3, <1>4, <1>5, <1>6 DEF OnlyReachableKnown
<1> QED BY <1>2, <1>3, <1>4, <1>6, <1>9, <1>10
     DEF DiscoveryInv, TracingCurrent, FailsForAReason, DoneWhenEmpty

\* When nothing waits, every direct call's target has been visited: this step never fails.
LEMMA RewriteKeeps == ASSUME DiscoveryInv, RewriteCalls PROVE DiscoveryInv'
<1> DEFINE direct == {code[a].target :
                        a \in {b \in UNION {AddressesOf(lifted[ep]) : ep \in visited} :
                                 code[b].op = "call"}} \ {Unknown}
<1>1. /\ unvisited = {}
      /\ stage' = IF direct \subseteq {ep.addr : ep \in visited} THEN "done" ELSE "failed"
      /\ UNCHANGED <<code, entry, traceVars, current, initial, unvisited, visited, lifted>>
  BY DEF RewriteCalls
<1>2. Closure' = Closure /\ StartsIn' /\ IsProgram' /\ Known' = Known
  BY <1>1, SameClosure, SameProgram DEF DiscoveryInv, Known
<1>3. VisitedSoFar'
  BY <1>1, <1>2, VisitedStays DEF DiscoveryInv
<1>4. ASSUME NEW b \in direct PROVE b \in {ep.addr : ep \in visited}
  <2>1. PICK ep \in visited : \E a \in AddressesOf(lifted[ep]) :
          code[a].op = "call" /\ b = code[a].target /\ b # Unknown
    BY <1>4
  <2>2. AddressesOf(lifted[ep]) = Reachable(ep.addr) \cap Addresses /\ ep.addr \in Addresses
    BY DEF DiscoveryInv, VisitedSoFar, LiftedFrom
  <2>3. b \in LeadsTo(ep.addr)
    BY <2>1, <2>2 DEF LeadsTo, CallTargetsIn
  <2>4. DeviceEntry(b) \in visited
    BY <1>1, <2>3 DEF DiscoveryInv, VisitedSoFar, Known
  <2> QED BY <2>4 DEF DeviceEntry
<1> HIDE DEF direct
<1>5. stage' = "done"
  BY <1>1, <1>4
<1> QED BY <1>1, <1>2, <1>3, <1>5 DEF DiscoveryInv, OnlyReachableKnown, TracingCurrent,
         FailsForAReason, DoneWhenEmpty

\* Between steps nothing changes.
LEMMA StutterKeeps == ASSUME DiscoveryInv, UNCHANGED vars PROVE DiscoveryInv'
<1>1. UNCHANGED <<code, entry, unvisitedTraceAddresses, traces, directBranchTargets, sweepFailed,
                  stage, current, initial, unvisited, visited, lifted>>
  BY DEF vars, traceVars
<1>2. Closure' = Closure /\ StartsIn' /\ IsProgram' /\ Known' = Known
  BY <1>1, SameClosure, SameProgram DEF DiscoveryInv, Known
<1>3. VisitedSoFar'
  BY <1>1, <1>2, VisitedStays DEF DiscoveryInv
<1>4. /\ \A R : Undecodable(R)' <=> Undecodable(R)
      /\ \A e : Reachable(e)' = Reachable(e)
  BY <1>1, SameCode, SameProgram
<1>5. ASSUME stage' = "traces" PROVE TracesSoFar(Reachable(entry))'
  <2> DEFINE R == Reachable(entry)
  <2>1. R' = R /\ TracesSoFar(R)
    BY <1>1, <1>4, <1>5 DEF DiscoveryInv, TracingCurrent
  <2> HIDE DEF R
  <2>2. TracedAddresses' = TracedAddresses
    BY <1>1 DEF TracedAddresses
  <2>3. \A t \in traces : TraceIsRun(t)'
    BY <1>1, <2>1, SameProgram DEF TracesSoFar, TraceIsRun
  <2>4. TracesSoFar(R)'
    BY <1>1, <1>4, <2>1, <2>2, <2>3, SameProgram DEF TracesSoFar
  <2> QED BY <2>4 DEF R
<1>6. TracingCurrent'
  BY <1>1, <1>5 DEF DiscoveryInv, TracingCurrent
<1> QED BY <1>1, <1>2, <1>3, <1>4, <1>6 DEF DiscoveryInv, OnlyReachableKnown,
         FailsForAReason, DoneWhenEmpty

\* Every step of the pass keeps it.
LEMMA StepKeepsDiscoveryInv == DiscoveryInv /\ [Next]_vars => DiscoveryInv'
<1> SUFFICES ASSUME DiscoveryInv, [Next]_vars PROVE DiscoveryInv'
  OBVIOUS
<1> QED BY PickKeeps, DropKeeps, TraceStepKeeps, FailureKeeps, LiftKeeps, RewriteKeeps,
           StutterKeeps DEF Next

-----------------------------------------------------------------------------
(***************************************************************************)
(* The theorems.                                                            *)
(***************************************************************************)

\* In every run of CodeDiscoveryPass::run(), and for every program and allocation, the
\* worklist holds what the kernel leads to and each lifted function is the program's.
THEOREM DiscoveryInvariant == Spec => []DiscoveryInv
<1>1. Init => DiscoveryInv
  BY InitDiscoveryInv
<1> QED BY <1>1, StepKeepsDiscoveryInv, PTL DEF Spec

\* Once discoverTraces has nothing left to visit, its traces share no instruction and
\* together are exactly what the program reaches from the entry, however the traces
\* and the branch targets between them lie.
THEOREM TracesAreComplete == Spec => []TracesPartitionReachableCode
<1>1. ASSUME DiscoveryInv PROVE TracesPartitionReachableCode
  <2> SUFFICES ASSUME stage = "traces", TracesDone
               PROVE  /\ TracedAddresses = Reachable(entry) \cap Addresses
                      /\ \A t, u \in traces : t # u => t.addrs \cap u.addrs = {}
    BY DEF TracesPartitionReachableCode
  <2>1. IsProgram /\ entry \in Addresses /\ TracesSoFar(Reachable(entry))
    BY <1>1 DEF DiscoveryInv, TracingCurrent
  <2> QED BY <2>1, TracesAreReachable DEF TracesSoFar
<1>2. DiscoveryInv => TracesPartitionReachableCode
  BY <1>1
<1> QED BY <1>2, DiscoveryInvariant, PTL

\* In whatever order the hash set hands out the entry points, run() has lifted what
\* the kernel leads to and nothing else when it succeeds, and it fails only if some
\* such function runs into what is no code.
THEOREM DiscoveryIsComplete == Spec => []EverythingLifted
<1>1. ASSUME DiscoveryInv PROVE EverythingLifted
  <2>1. ASSUME stage = "done" PROVE visited = Closure
    <3>1. unvisited = {} /\ visited \subseteq Closure /\ initial \in visited
      BY <1>1, <2>1 DEF DiscoveryInv, DoneWhenEmpty, OnlyReachableKnown, Known
    <3>2. LeadsInside(visited)
      BY <1>1, <3>1 DEF DiscoveryInv, VisitedSoFar, LeadsInside, Known
    <3>3. Closure \subseteq visited
      BY <1>1, <3>1, <3>2, ClosureLeast DEF DiscoveryInv
    <3> QED BY <3>1, <3>3
  <2>2. ASSUME stage = "failed"
        PROVE  \E ep \in Closure : \E a \in Reachable(ep.addr) : a \notin Addresses \/ ~Decodes(a)
    BY <1>1, <2>2 DEF DiscoveryInv, FailsForAReason, Undecodable
  <2> QED BY <2>1, <2>2 DEF EverythingLifted
<1>2. DiscoveryInv => EverythingLifted
  BY <1>1
<1> QED BY <1>2, DiscoveryInvariant, PTL

\* What populateMF makes of the traces of a function whose instructions do not overlap
\* has the program's control flow, and is entered at the function's entry.
THEOREM LiftingKeepsControlFlow == Spec => []LiftedFlowPreserved
<1>1. ASSUME DiscoveryInv PROVE LiftedFlowPreserved
  <2>1. ASSUME NEW ep \in visited, NoOverlap(ep.addr), NEW mf, mf = lifted[ep]
        PROVE  /\ \A a \in Reachable(ep.addr) \cap Addresses :
                    \A b \in Successors(a) \cap Addresses : Flows(mf, a, b)
               /\ EntersAt(mf, BlockOf(mf.blocks, ep.addr))
    BY <1>1, <2>1 DEF DiscoveryInv, VisitedSoFar, LiftedFrom, Carries
  <2>2. ASSUME NEW mf, NEW home, EntersAt(mf, home)
        PROVE  /\ \A e \in mf.edges : e[2] # mf.front
               /\ \/ home = mf.front
                  \/ {e[2] : e \in {x \in mf.edges : x[1] = mf.front /\ mf.blocks[mf.front] = << >>}}
                       = {home}
    BY <2>2 DEF EntersAt
  <2> QED BY <2>1, <2>2 DEF LiftedFlowPreserved, Flows
<1>2. DiscoveryInv => LiftedFlowPreserved
  BY <1>1
<1> QED BY <1>2, DiscoveryInvariant, PTL

\* Both at once: what analyses of a lifted function see is the code of the program,
\* and the paths through it are the program's paths.
THEOREM LiftedCodeIsTheProgram == Spec => []FlowPreserved
<1>1. TracesPartitionReachableCode /\ LiftedFlowPreserved => FlowPreserved
  BY DEF FlowPreserved
<1> QED BY <1>1, TracesAreComplete, LiftingKeepsControlFlow, PTL
=============================================================================
