--------------------------- MODULE SingletonProofs ---------------------------
(***************************************************************************)
(* Proofs about Singleton for any number of threads and objects and any    *)
(* nesting depth, in debug and in release builds.                          *)
(***************************************************************************)
EXTENDS Singleton, FiniteSetTheorems, SequenceTheorems, TLAPS

\* Where the top of t's stack is, and where the next call goes.
TopPlace(t) == <<t, Len(stack[t])>>
NextPlace(t) == <<t, Len(stack[t]) + 1>>

-----------------------------------------------------------------------------
\* There are finitely many calls in progress, so they can be counted.
LEMMA PlacesFinite ==
  ASSUME TypeOK, NEW K, NEW o
  PROVE  IsFiniteSet(Places(K, o))
<1>1. IsFiniteSet(1..MaxDepth)
  BY FS_Interval, MaxDepthPositive
<1>2. IsFiniteSet(Threads \X (1..MaxDepth))
  BY <1>1, FS_Product, ThreadsFinite
<1>3. Places(K, o) \subseteq Threads \X (1..MaxDepth)
  BY DEF Places
<1>4. QED
  BY <1>2, <1>3, FS_Subset

\* Whether the innermost call of t is a place of kinds K of o.
LEMMA TopOfStack ==
  ASSUME TypeOK, NEW t \in Threads, stack[t] # <<>>, NEW K, NEW o
  PROVE  /\ Top(t) \in Activations
         /\ TopPlace(t) \in Places(K, o) <=> Top(t).kind \in K /\ Top(t).obj = o
<1>1. stack[t] \in Seq(Activations) /\ Len(stack[t]) \in 1..MaxDepth
  BY MaxDepthPositive DEF TypeOK
<1>2. QED
  BY <1>1 DEF Top, TopPlace, Places, TypeOK

\* A new call adds its own place and leaves the others where they were.
LEMMA PushPlaces ==
  ASSUME TypeOK, NEW t \in Threads, MayCall(t),
         NEW k \in Kinds, NEW o \in Instances, Push(t, k, o), NEW K, NEW x
  PROVE  /\ stack' \in [Threads -> Seq(Activations)]
         /\ \A u \in Threads : Len(stack'[u]) <= MaxDepth
         /\ NextPlace(t) \notin Places(K, x)
         /\ Places(K, x)' = IF k \in K /\ x = o
                            THEN Places(K, x) \cup {NextPlace(t)}
                            ELSE Places(K, x)
<1> DEFINE new == [kind |-> k, obj |-> o]
<1>1. stack \in [Threads -> Seq(Activations)] /\ new \in Activations
  BY DEF TypeOK, Activations
<1>2. /\ stack' = [stack EXCEPT ![t] = Append(stack[t], new)]
      /\ Len(stack[t]) \in Nat /\ Len(stack[t]) + 1 \in 1..MaxDepth
  BY <1>1, MaxDepthPositive DEF Push, MayCall
<1>3. /\ Len(stack'[t]) = Len(stack[t]) + 1
      /\ stack'[t][Len(stack[t]) + 1] = new
      /\ \A i \in 1..Len(stack[t]) : stack'[t][i] = stack[t][i]
      /\ \A u \in Threads \ {t} : stack'[u] = stack[u]
      /\ stack'[t] \in Seq(Activations)
  BY <1>1, <1>2
<1>4. stack' \in [Threads -> Seq(Activations)]
  BY <1>1, <1>2, <1>3
<1>5. \A u \in Threads : Len(stack'[u]) <= MaxDepth
  BY <1>2, <1>3 DEF TypeOK
<1>6. NextPlace(t) \notin Places(K, x)
  BY <1>2 DEF NextPlace, Places
<1>7. ASSUME NEW u \in Threads, NEW i \in 1..MaxDepth
      PROVE  <<u, i>> \in Places(K, x)' <=>
               \/ <<u, i>> \in Places(K, x)
               \/ u = t /\ i = Len(stack[t]) + 1 /\ k \in K /\ x = o
  <2>1. CASE u # t
    BY <1>3, <2>1 DEF Places
  <2>2. CASE u = t /\ i = Len(stack[t]) + 1
    BY <1>2, <1>3, <2>2 DEF Places
  <2>3. CASE u = t /\ i # Len(stack[t]) + 1
    BY <1>2, <1>3, <2>3 DEF Places
  <2>4. QED
    BY <2>1, <2>2, <2>3
<1>8. QED
  BY <1>2, <1>4, <1>5, <1>6, <1>7 DEF Places, NextPlace

\* A return removes the place of the innermost call, and no other.
LEMMA PopPlaces ==
  ASSUME TypeOK, NEW t \in Threads, stack[t] # <<>>, Pop(t), NEW K, NEW x
  PROVE  /\ stack' \in [Threads -> Seq(Activations)]
         /\ \A u \in Threads : Len(stack'[u]) <= MaxDepth
         /\ Places(K, x)' = Places(K, x) \ {TopPlace(t)}
<1>1. /\ stack \in [Threads -> Seq(Activations)]
      /\ Len(stack[t]) \in 1..MaxDepth
      /\ stack' = [stack EXCEPT ![t] = SubSeq(stack[t], 1, Len(stack[t]) - 1)]
  BY MaxDepthPositive DEF TypeOK, Pop
<1>2. /\ Len(stack'[t]) = Len(stack[t]) - 1
      /\ \A i \in 1..(Len(stack[t]) - 1) : stack'[t][i] = stack[t][i]
      /\ \A u \in Threads \ {t} : stack'[u] = stack[u]
      /\ stack'[t] \in Seq(Activations)
  <2> DEFINE s == stack[t]
             n == Len(stack[t]) - 1
  <2>1. s \in Seq(Activations) /\ n \in Nat /\ n < Len(s)
    BY <1>1
  <2>2. \A i \in 1..n : s[i] \in Activations
    BY <2>1
  <2>3. /\ SubSeq(s, 1, n) \in Seq(Activations)
        /\ Len(SubSeq(s, 1, n)) = IF 1 <= n THEN n - 1 + 1 ELSE 0
        /\ \A i \in 1..(n - 1 + 1) : SubSeq(s, 1, n)[i] = s[1 + i - 1]
    <3> HIDE DEF s, n
    <3> QED
      BY <2>1, <2>2, SubSeqProperties
  <2>4. stack'[t] = SubSeq(s, 1, n)
    BY <1>1
  <2>5. \A u \in Threads \ {t} : stack'[u] = stack[u]
    BY <1>1
  <2>6. QED
    BY <2>1, <2>3, <2>4, <2>5
<1>3. stack' \in [Threads -> Seq(Activations)]
  BY <1>1, <1>2
<1>4. \A u \in Threads : Len(stack'[u]) <= MaxDepth
  BY <1>1, <1>2, MaxDepthPositive DEF TypeOK
<1>5. ASSUME NEW u \in Threads, NEW i \in 1..MaxDepth
      PROVE  <<u, i>> \in Places(K, x)' <=>
               <<u, i>> \in Places(K, x) /\ <<u, i>> # TopPlace(t)
  <2>1. CASE u # t
    BY <1>2, <2>1 DEF Places, TopPlace
  <2>2. CASE u = t
    BY <1>1, <1>2, <2>2 DEF Places, TopPlace
  <2>3. QED
    BY <2>1, <2>2
<1>6. QED
  BY <1>3, <1>4, <1>5 DEF Places

\* A call that goes on to its next stage may only move its own place.
LEMMA BecomePlaces ==
  ASSUME TypeOK, NEW t \in Threads, stack[t] # <<>>,
         NEW k \in Kinds, Become(t, k), NEW K, NEW x
  PROVE  /\ stack' \in [Threads -> Seq(Activations)]
         /\ \A u \in Threads : Len(stack'[u]) <= MaxDepth
         /\ Places(K, x)' = IF k \in K /\ x = Top(t).obj
                            THEN Places(K, x) \cup {TopPlace(t)}
                            ELSE Places(K, x) \ {TopPlace(t)}
<1> DEFINE n == Len(stack[t])
           new == [kind |-> k, obj |-> Top(t).obj]
<1>1. /\ stack \in [Threads -> Seq(Activations)]
      /\ n \in 1..MaxDepth
      /\ Top(t) \in Activations
  BY MaxDepthPositive DEF TypeOK, Top
<1>2. new \in Activations
  BY <1>1 DEF Activations
<1>3. [stack[t][n] EXCEPT !.kind = k] = new
  BY <1>1 DEF Top, Activations
<1>4. stack' = [stack EXCEPT ![t] = [stack[t] EXCEPT ![n] = new]]
  BY <1>3 DEF Become
<1>5. /\ Len(stack'[t]) = n
      /\ stack'[t][n] = new
      /\ \A i \in 1..n : i # n => stack'[t][i] = stack[t][i]
      /\ \A u \in Threads \ {t} : stack'[u] = stack[u]
      /\ stack'[t] \in Seq(Activations)
  BY <1>1, <1>2, <1>4
<1>6. stack' \in [Threads -> Seq(Activations)]
  BY <1>1, <1>4, <1>5
<1>7. \A u \in Threads : Len(stack'[u]) <= MaxDepth
  BY <1>1, <1>5, MaxDepthPositive DEF TypeOK
<1>8. ASSUME NEW u \in Threads, NEW i \in 1..MaxDepth
      PROVE  <<u, i>> \in Places(K, x)' <=>
               IF <<u, i>> = TopPlace(t) THEN k \in K /\ x = Top(t).obj
                                         ELSE <<u, i>> \in Places(K, x)
  <2>1. CASE u # t
    BY <1>5, <2>1 DEF Places, TopPlace
  <2>2. CASE u = t /\ i = n
    BY <1>1, <1>5, <2>2 DEF Places, TopPlace
  <2>3. CASE u = t /\ i # n
    BY <1>1, <1>5, <2>3 DEF Places, TopPlace
  <2>4. QED
    BY <2>1, <2>2, <2>3
<1>9. TopPlace(t) \in Threads \X (1..MaxDepth)
  BY <1>1 DEF TopPlace
<1>10. QED
  BY <1>6, <1>7, <1>8, <1>9 DEF Places

-----------------------------------------------------------------------------
(***************************************************************************)
(* From here on stacks only matter through the counts: what each way of    *)
(* changing a stack does to the number of places of some kinds.            *)
(***************************************************************************)
One(k, o, K, x) == IF k \in K /\ x = o THEN 1 ELSE 0

\* Counts are natural numbers.
LEMMA CountNat ==
  ASSUME TypeOK, NEW K, NEW x
  PROVE  Count(K, x) \in Nat
BY PlacesFinite, FS_CardinalityType DEF Count

\* More kinds, more places.
LEMMA CountMonotone ==
  ASSUME TypeOK, NEW L, NEW K \in SUBSET L, NEW x
  PROVE  Count(K, x) <= Count(L, x)
<1>1. Places(K, x) \subseteq Places(L, x)
  BY DEF Places
<1>2. QED
  BY <1>1, PlacesFinite, FS_Subset DEF Count

\* The innermost call is itself one of the places counted.
LEMMA CountTop ==
  ASSUME TypeOK, NEW t \in Threads, NEW k, OnTop(t, k), NEW K, NEW x
  PROVE  /\ stack[t] # <<>> /\ Top(t).obj \in Instances /\ Top(t).kind = k
         /\ Count(K, x) >= One(k, Top(t).obj, K, x)
<1>1. /\ stack[t] # <<>> /\ Top(t).kind = k /\ Top(t).obj \in Instances
      /\ TopPlace(t) \in Places(K, x) <=> k \in K /\ Top(t).obj = x
  BY TopOfStack DEF OnTop, Activations
<1>2. CASE k \in K /\ x = Top(t).obj
  <2>1. Count(K, x) # 0
    BY <1>1, <1>2, PlacesFinite, FS_EmptySet DEF Count
  <2>2. QED
    BY <1>1, <2>1, CountNat DEF One
<1>3. CASE ~(k \in K /\ x = Top(t).obj)
  BY <1>1, <1>3, CountNat DEF One
<1>4. QED
  BY <1>2, <1>3

\* What starting a call does to a count.
LEMMA CountPush ==
  ASSUME TypeOK, NEW t \in Threads, MayCall(t),
         NEW k \in Kinds, NEW o \in Instances, Push(t, k, o), NEW K, NEW x
  PROVE  Count(K, x)' = Count(K, x) + One(k, o, K, x)
<1>1. /\ NextPlace(t) \notin Places(K, x)
      /\ Places(K, x)' = IF k \in K /\ x = o
                         THEN Places(K, x) \cup {NextPlace(t)} ELSE Places(K, x)
  BY PushPlaces
<1>2. Cardinality(Places(K, x) \cup {NextPlace(t)}) = Count(K, x) + 1
  BY <1>1, PlacesFinite, FS_AddElement DEF Count
<1>3. QED
  BY <1>1, <1>2, CountNat DEF Count, One

\* What returning from a call does to a count.
LEMMA CountPop ==
  ASSUME TypeOK, NEW t \in Threads, NEW k, OnTop(t, k), Pop(t), NEW K, NEW x
  PROVE  Count(K, x)' = Count(K, x) - One(k, Top(t).obj, K, x)
<1>1. /\ TopPlace(t) \in Places(K, x) <=> k \in K /\ x = Top(t).obj
      /\ Places(K, x)' = Places(K, x) \ {TopPlace(t)}
  BY PopPlaces, TopOfStack DEF OnTop
<1>2. Cardinality(Places(K, x) \ {TopPlace(t)})
        = IF TopPlace(t) \in Places(K, x) THEN Count(K, x) - 1 ELSE Count(K, x)
  BY PlacesFinite, FS_RemoveElement DEF Count
<1>3. QED
  BY <1>1, <1>2, CountNat DEF Count, One

\* What a change of stage does to a count.
LEMMA CountBecome ==
  ASSUME TypeOK, NEW t \in Threads, NEW j, OnTop(t, j),
         NEW k \in Kinds, Become(t, k), NEW K, NEW x
  PROVE  Count(K, x)' = Count(K, x) - One(j, Top(t).obj, K, x)
                                    + One(k, Top(t).obj, K, x)
<1> DEFINE p == TopPlace(t)
<1>1. /\ p \in Places(K, x) <=> j \in K /\ x = Top(t).obj
      /\ Places(K, x)' = IF k \in K /\ x = Top(t).obj THEN Places(K, x) \cup {p}
                                                      ELSE Places(K, x) \ {p}
  BY BecomePlaces, TopOfStack DEF OnTop
<1>2. Cardinality(Places(K, x) \ {p})
        = IF p \in Places(K, x) THEN Count(K, x) - 1 ELSE Count(K, x)
  BY PlacesFinite, FS_RemoveElement DEF Count
<1>3. Cardinality(Places(K, x) \cup {p})
        = IF p \in Places(K, x) THEN Count(K, x) ELSE Count(K, x) + 1
  BY PlacesFinite, FS_AddElement DEF Count
<1>4. QED
  BY <1>1, <1>2, <1>3, CountNat DEF Count, One

\* The four counts of the invariant, together.
LEMMA CountsOrdered ==
  ASSUME TypeOK
  PROVE  \A x : /\ Holders(x) \in Nat /\ Drainers(x) \in Nat
                /\ Drained(x) \in Nat /\ Constructors(x) \in Nat
                /\ Drained(x) <= Drainers(x) /\ Drainers(x) <= Holders(x)
BY CountNat, CountMonotone
   DEF Holders, Drainers, Drained, Constructors, CountedKinds

-----------------------------------------------------------------------------
\* One lemma per kind of step: the counts it changes, then the invariant.
\* createInstance() entering a constructor keeps the invariant.
LEMMA ConstructPreserves ==
  ASSUME IInv, NEW t \in Threads, NEW o \in Instances, Construct(t, o)
  PROVE  IInv'
<1>1. /\ TypeOK /\ MayCall(t) /\ Push(t, "ctor", o) /\ "ctor" \in Kinds
      /\ life' = [life EXCEPT ![o] = "constructing"] /\ life[o] = "unborn"
      /\ UNCHANGED <<slot, refCount, aborted>>
  BY DEF IInv, Construct, Kinds
<1>2. TypeOK'
  <2>1. /\ stack' \in [Threads -> Seq(Activations)]
        /\ \A u \in Threads : Len(stack'[u]) <= MaxDepth
    BY <1>1, PushPlaces
  <2>2. QED
    BY <1>1, <2>1 DEF TypeOK
<1>3. \A K, x : Count(K, x)' = Count(K, x) + One("ctor", o, K, x)
  BY <1>1, CountPush
<1>4. \A x : /\ Holders(x)' = Holders(x)
             /\ Drainers(x)' = Drainers(x)
             /\ Drained(x)' = Drained(x)
             /\ Constructors(x)' = Constructors(x) + (IF x = o THEN 1 ELSE 0)
  <2>1. TAKE x
  <2>2. /\ Count(CountedKinds, x) \in Nat
        /\ Count({"drain", "drained"}, x) \in Nat
        /\ Count({"drained"}, x) \in Nat
    BY <1>1, CountNat
  <2>3. QED
    BY <1>3, <2>2
       DEF Holders, Drainers, Drained, Constructors, One, CountedKinds
<1>5. QED
  BY <1>1, <1>2, <1>4, CountsOrdered
     DEF IInv, RefCountExact, NoUseAfterDestroy, OneDrainer, ConstructingOnce,
         DrainedIsAlone, TypeOK

\* A successful publish() keeps the invariant.
LEMMA PublishWinsPreserves ==
  ASSUME IInv, NEW t \in Threads, PublishWins(t)
  PROVE  IInv'
<1> DEFINE o == Top(t).obj
<1>1. /\ TypeOK /\ OnTop(t, "ctor") /\ Become(t, "publisher") /\ "publisher" \in Kinds
      /\ slot = None /\ slot' = o
      /\ life' = [life EXCEPT ![o] = "live"]
      /\ refCount' = [refCount EXCEPT ![o] = 2]
      /\ UNCHANGED aborted
  BY DEF IInv, PublishWins, Kinds, CountedKinds
<1>2. /\ TypeOK'
      /\ stack[t] # <<>> /\ o \in Instances
      /\ Count({"ctor"}, o) >= 1
  <2>1. /\ stack[t] # <<>> /\ o \in Instances
        /\ Count({"ctor"}, o) >= 1
    BY <1>1, CountTop DEF One
  <2>2. /\ stack' \in [Threads -> Seq(Activations)]
        /\ \A u \in Threads : Len(stack'[u]) <= MaxDepth
    BY <1>1, <2>1, BecomePlaces
  <2>3. QED
    BY <1>1, <2>1, <2>2 DEF TypeOK
<1>3. \A K, x : Count(K, x)' = Count(K, x) - One("ctor", o, K, x) + One("publisher", o, K, x)
  BY <1>1, CountBecome
<1>4. \A x : /\ Holders(x)' = Holders(x) + (IF x = o THEN 1 ELSE 0)
             /\ Drainers(x)' = Drainers(x)
             /\ Drained(x)' = Drained(x)
             /\ Constructors(x)' = Constructors(x) - (IF x = o THEN 1 ELSE 0)
  <2>1. TAKE x
  <2>2. /\ Count(CountedKinds, x) \in Nat
        /\ Count({"drain", "drained"}, x) \in Nat
        /\ Count({"drained"}, x) \in Nat
        /\ Count({"ctor"}, x) \in Nat
    BY <1>1, CountNat
  <2>3. QED
    BY <1>3, <2>2
       DEF Holders, Drainers, Drained, Constructors, One, CountedKinds
<1>5. life[o] = "constructing" /\ o # None
  BY <1>2, NoneIsNoObject DEF IInv, ConstructingOnce, Constructors
<1>6. Holders(o) = 0 /\ Drainers(o) = 0 /\ Drained(o) = 0
  BY <1>1, <1>2, <1>5, CountsOrdered DEF IInv, NoUseAfterDestroy
<1>7. \A x \in Instances :
        /\ slot # x /\ (slot' = x <=> x = o)
        /\ life'[x] = IF x = o THEN "live" ELSE life[x]
        /\ refCount'[x] = IF x = o THEN 2 ELSE refCount[x]
  BY <1>1, <1>2, NoneIsNoObject DEF TypeOK
<1>8. \A x \in Instances : IF x = o
        THEN /\ Holders(x)' = 1 /\ Drainers(x)' = 0 /\ Drained(x)' = 0
             /\ Constructors(x)' = 0
        ELSE /\ Holders(x)' = Holders(x) /\ Drainers(x)' = Drainers(x)
             /\ Drained(x)' = Drained(x) /\ Constructors(x)' = Constructors(x)
  <2>1. Constructors(o) = 1
    BY <1>2, <1>5 DEF IInv, ConstructingOnce
  <2>2. QED
    BY <1>1, <1>2, <1>4, <1>6, <2>1, CountsOrdered
<1> HIDE DEF o
<1>10. RefCountExact'
  BY <1>7, <1>8
     DEF IInv, RefCountExact
<1>11. NoUseAfterDestroy'
  BY <1>7, <1>8
     DEF IInv, NoUseAfterDestroy
<1>12. OneDrainer'
  BY <1>7, <1>8
     DEF IInv, OneDrainer
<1>13. ConstructingOnce'
  BY <1>7, <1>8
     DEF IInv, ConstructingOnce
<1>14. DrainedIsAlone'
  BY <1>7, <1>8
     DEF IInv, DrainedIsAlone
<1>15. QED
  BY <1>2, <1>10, <1>11, <1>12, <1>13, <1>14 DEF IInv

\* A publish() that finds the slot taken keeps the invariant.
LEMMA PublishLosesPreserves ==
  ASSUME IInv, NEW t \in Threads, PublishLoses(t)
  PROVE  IInv'
<1> DEFINE o == Top(t).obj
<1>1. /\ TypeOK /\ OnTop(t, "ctor") /\ Become(t, "lost") /\ "lost" \in Kinds
      /\ life' = [life EXCEPT ![o] = "destroyed"]
      /\ UNCHANGED <<slot, refCount, aborted>>
  BY DEF IInv, PublishLoses, Kinds, CountedKinds
<1>2. /\ TypeOK'
      /\ stack[t] # <<>> /\ o \in Instances
      /\ Count({"ctor"}, o) >= 1
  <2>1. /\ stack[t] # <<>> /\ o \in Instances
        /\ Count({"ctor"}, o) >= 1
    BY <1>1, CountTop DEF One
  <2>2. /\ stack' \in [Threads -> Seq(Activations)]
        /\ \A u \in Threads : Len(stack'[u]) <= MaxDepth
    BY <1>1, <2>1, BecomePlaces
  <2>3. QED
    BY <1>1, <2>1, <2>2 DEF TypeOK
<1>3. \A K, x : Count(K, x)' = Count(K, x) - One("ctor", o, K, x) + One("lost", o, K, x)
  BY <1>1, CountBecome
<1>4. \A x : /\ Holders(x)' = Holders(x)
             /\ Drainers(x)' = Drainers(x)
             /\ Drained(x)' = Drained(x)
             /\ Constructors(x)' = Constructors(x) - (IF x = o THEN 1 ELSE 0)
  <2>1. TAKE x
  <2>2. /\ Count(CountedKinds, x) \in Nat
        /\ Count({"drain", "drained"}, x) \in Nat
        /\ Count({"drained"}, x) \in Nat
        /\ Count({"ctor"}, x) \in Nat
    BY <1>1, CountNat
  <2>3. QED
    BY <1>3, <2>2
       DEF Holders, Drainers, Drained, Constructors, One, CountedKinds
<1>5. life[o] = "constructing"
  BY <1>2 DEF IInv, ConstructingOnce, Constructors
<1>6. Holders(o) = 0 /\ Drainers(o) = 0 /\ slot # o
  BY <1>1, <1>2, <1>5, CountsOrdered DEF IInv, NoUseAfterDestroy
<1>9. QED
  BY <1>1, <1>2, <1>4, <1>5, <1>6, CountsOrdered
     DEF IInv, RefCountExact, NoUseAfterDestroy, OneDrainer, ConstructingOnce,
         DrainedIsAlone, TypeOK

\* Leaving the spin loop of destroyInstance() keeps the invariant.
LEMMA SeeDrainedPreserves ==
  ASSUME IInv, NEW t \in Threads, SeeDrained(t)
  PROVE  IInv'
<1> DEFINE o == Top(t).obj
<1>1. /\ TypeOK /\ OnTop(t, "drain") /\ Become(t, "drained") /\ "drained" \in Kinds
      /\ refCount[o] <= 1
      /\ UNCHANGED <<slot, refCount, life, aborted>>
  BY DEF IInv, SeeDrained, Kinds, CountedKinds
<1>2. /\ TypeOK'
      /\ stack[t] # <<>> /\ o \in Instances
      /\ Count({"drain"}, o) >= 1
  <2>1. /\ stack[t] # <<>> /\ o \in Instances
        /\ Count({"drain"}, o) >= 1
    BY <1>1, CountTop DEF One
  <2>2. /\ stack' \in [Threads -> Seq(Activations)]
        /\ \A u \in Threads : Len(stack'[u]) <= MaxDepth
    BY <1>1, <2>1, BecomePlaces
  <2>3. QED
    BY <1>1, <2>1, <2>2 DEF TypeOK
<1>3. \A K, x : Count(K, x)' = Count(K, x) - One("drain", o, K, x) + One("drained", o, K, x)
  BY <1>1, CountBecome
<1>4. \A x : /\ Holders(x)' = Holders(x)
             /\ Drainers(x)' = Drainers(x)
             /\ Drained(x)' = Drained(x) + (IF x = o THEN 1 ELSE 0)
             /\ Constructors(x)' = Constructors(x)
  <2>1. TAKE x
  <2>2. /\ Count(CountedKinds, x) \in Nat
        /\ Count({"drain", "drained"}, x) \in Nat
        /\ Count({"drained"}, x) \in Nat
        /\ Count({"ctor"}, x) \in Nat
    BY <1>1, CountNat
  <2>3. QED
    BY <1>3, <2>2
       DEF Holders, Drainers, Drained, Constructors, One, CountedKinds
<1>5. Holders(o) >= 1
  <2>1. Count({"drain"}, o) <= Holders(o) /\ Count({"drain"}, o) \in Nat
    BY <1>1, CountMonotone, CountNat DEF Holders, CountedKinds
  <2>2. QED
    BY <1>1, <1>2, <2>1, CountsOrdered
<1>6. refCount[o] = 1
  BY <1>1, <1>2, <1>5, CountsOrdered DEF IInv, RefCountExact
<1> HIDE DEF o
<1>10. RefCountExact'
  BY <1>1, <1>2, <1>4, <1>6, CountsOrdered
     DEF IInv, RefCountExact, TypeOK
<1>11. NoUseAfterDestroy'
  BY <1>1, <1>2, <1>4, <1>6, CountsOrdered
     DEF IInv, NoUseAfterDestroy, TypeOK
<1>12. OneDrainer'
  BY <1>1, <1>2, <1>4, <1>6, CountsOrdered
     DEF IInv, OneDrainer, TypeOK
<1>13. ConstructingOnce'
  BY <1>1, <1>2, <1>4, <1>6, CountsOrdered
     DEF IInv, ConstructingOnce, TypeOK
<1>14. DrainedIsAlone'
  BY <1>1, <1>2, <1>4, <1>6, CountsOrdered
     DEF IInv, DrainedIsAlone, TypeOK
<1>15. QED
  BY <1>2, <1>10, <1>11, <1>12, <1>13, <1>14 DEF IInv

\* A reference dropped by anyone but destroyInstance() is never the last one.
LEMMA NotLast ==
  ASSUME IInv, NEW t \in Threads, NEW k \in {"publisher", "with"}, OnTop(t, k)
  PROVE  refCount[Top(t).obj] >= 2
<1> DEFINE o == Top(t).obj
<1>1. /\ TypeOK /\ o \in Instances /\ Holders(o) >= 1 /\ Count({k}, o) >= 1
  BY CountTop DEF IInv, One, CountedKinds, Holders
<1>2. Count({k}, o) + Drainers(o) <= Holders(o)
  <2> DEFINE A == Places({k}, o)
             B == Places({"drain", "drained"}, o)
  <2>1. A \cap B = {}
    <3>1. \A p : p \in A => stack[p[1]][p[2]].kind = k
      BY DEF Places
    <3>2. \A p : p \in B => stack[p[1]][p[2]].kind \in {"drain", "drained"}
      BY DEF Places
    <3>3. k \notin {"drain", "drained"}
      OBVIOUS
    <3>4. QED
      BY <3>1, <3>2, <3>3
  <2>2. A \cup B \subseteq Places(CountedKinds, o)
    BY DEF Places, CountedKinds
  <2>3. IsFiniteSet(A) /\ IsFiniteSet(B) /\ IsFiniteSet(Places(CountedKinds, o))
    BY <1>1, PlacesFinite
  <2>4. Cardinality(A) \in Nat /\ Cardinality(B) \in Nat
    BY <2>3, FS_CardinalityType
  <2> HIDE DEF A, B
  <2>5. Cardinality(A \cup B) = Cardinality(A) + Cardinality(B)
    BY <2>1, <2>3, <2>4, FS_Union, FS_EmptySet
  <2>6. Cardinality(A \cup B) <= Cardinality(Places(CountedKinds, o))
    BY <2>2, <2>3, FS_Subset
  <2>7. Cardinality(A) + Cardinality(B) <= Cardinality(Places(CountedKinds, o))
    BY <2>5, <2>6
  <2>8. QED
    BY <2>7 DEF A, B, Holders, Drainers, Count
<1>3. CASE slot = o
  BY <1>1, <1>3, CountsOrdered DEF IInv, RefCountExact
<1>4. CASE slot # o
  <2>1. Drainers(o) = 1
    BY <1>1, <1>4, CountsOrdered DEF IInv, NoUseAfterDestroy, OneDrainer
  <2>2. QED
    BY <1>1, <1>2, <1>4, <2>1, CountsOrdered, CountNat DEF IInv, RefCountExact
<1>5. QED
  BY <1>3, <1>4

\* A call returns and its reference is dropped, but not as the last one.
LEMMA ReturnPreserves ==
  ASSUME IInv, NEW t \in Threads, NEW k \in {"publisher", "with"}, OnTop(t, k),
         Release(Top(t).obj), Pop(t), UNCHANGED <<slot, aborted>>
  PROVE  IInv' /\ life' = life
<1> DEFINE o == Top(t).obj
<1>1. /\ TypeOK /\ stack[t] # <<>> /\ o \in Instances
      /\ refCount[o] >= 2
      /\ refCount' = [refCount EXCEPT ![o] = @ - 1]
      /\ life' = life
  <2>1. TypeOK /\ stack[t] # <<>> /\ o \in Instances
    BY CountTop DEF IInv
  <2>2. refCount[o] >= 2 /\ refCount[o] \in Int
    BY <2>1, NotLast DEF TypeOK
  <2>3. QED
    BY <2>1, <2>2 DEF Release
<1>2. TypeOK'
  <2>1. /\ stack' \in [Threads -> Seq(Activations)]
        /\ \A u \in Threads : Len(stack'[u]) <= MaxDepth
    BY <1>1, PopPlaces
  <2>2. QED
    BY <1>1, <2>1 DEF TypeOK
<1>3. \A K, x : Count(K, x)' = Count(K, x) - One(k, o, K, x)
  BY <1>1, CountPop
<1>4. \A x : /\ Holders(x)' = Holders(x) - (IF x = o THEN 1 ELSE 0)
             /\ Drainers(x)' = Drainers(x)
             /\ Drained(x)' = Drained(x)
             /\ Constructors(x)' = Constructors(x)
  <2>1. TAKE x
  <2>2. /\ Count(CountedKinds, x) \in Nat
        /\ Count({"drain", "drained"}, x) \in Nat
        /\ Count({"drained"}, x) \in Nat
        /\ Count({"ctor"}, x) \in Nat
    BY <1>1, CountNat
  <2>3. QED
    BY <1>3, <2>2
       DEF Holders, Drainers, Drained, Constructors, One, CountedKinds
<1>5. \A x \in Instances :
        /\ refCount'[x] = refCount[x] - (IF x = o THEN 1 ELSE 0)
        /\ Holders(x) \in Nat /\ refCount[x] \in Int
  BY <1>1, CountsOrdered DEF TypeOK
<1> HIDE DEF o
<1>6. RefCountExact'
  BY <1>4, <1>5 DEF IInv, RefCountExact
<1>7. NoUseAfterDestroy'
  BY <1>1, <1>4, <1>5 DEF IInv, NoUseAfterDestroy
<1>8. OneDrainer' /\ ConstructingOnce'
  BY <1>1, <1>4 DEF IInv, OneDrainer, ConstructingOnce
<1>9. DrainedIsAlone'
  BY <1>1, <1>4, <1>5 DEF IInv, DrainedIsAlone
<1>10. QED
  BY <1>1, <1>2, <1>6, <1>7, <1>8, <1>9 DEF IInv

\* Doomed.reset(), the last reference, keeps the invariant.
LEMMA ResetPreserves ==
  ASSUME IInv, NEW t \in Threads, Reset(t)
  PROVE  IInv'
<1> DEFINE o == Top(t).obj
<1>1. /\ TypeOK /\ OnTop(t, "drained") /\ Release(o) /\ Pop(t)
      /\ UNCHANGED <<slot, aborted>>
  BY DEF IInv, Reset
<1>2. /\ stack[t] # <<>> /\ o \in Instances /\ Drained(o) >= 1
  <2>1. One("drained", o, {"drained"}, o) = 1
    BY DEF One
  <2>2. /\ stack[t] # <<>> /\ o \in Instances
        /\ Count({"drained"}, o) >= One("drained", o, {"drained"}, o)
    BY <1>1, CountTop
  <2>3. QED
    BY <2>1, <2>2 DEF Drained
<1>3. /\ refCount[o] = 1 /\ Drainers(o) = 1 /\ Holders(o) = 1
      /\ life[o] = "live" /\ slot # o
  <2>1. refCount[o] = 1 /\ Drainers(o) >= 1 /\ Holders(o) >= 1
    BY <1>1, <1>2, CountsOrdered DEF IInv, DrainedIsAlone
  <2>2. Drainers(o) = 1 /\ life[o] = "live" /\ slot # o
    BY <1>2, <2>1 DEF IInv, OneDrainer
  <2>3. Holders(o) = 1
    BY <1>1, <1>2, <2>1, <2>2, CountsOrdered DEF IInv, RefCountExact
  <2>4. QED
    BY <2>1, <2>2, <2>3
<1>4. TypeOK'
  <2>1. /\ stack' \in [Threads -> Seq(Activations)]
        /\ \A u \in Threads : Len(stack'[u]) <= MaxDepth
    BY <1>1, <1>2, PopPlaces
  <2>2. QED
    BY <1>1, <1>2, <1>3, <2>1 DEF TypeOK, Release
<1>5. \A K, x : Count(K, x)' = Count(K, x) - One("drained", o, K, x)
  BY <1>1, CountPop
<1>6. \A x : /\ Holders(x)' = Holders(x) - (IF x = o THEN 1 ELSE 0)
             /\ Drainers(x)' = Drainers(x) - (IF x = o THEN 1 ELSE 0)
             /\ Drained(x)' = Drained(x) - (IF x = o THEN 1 ELSE 0)
             /\ Constructors(x)' = Constructors(x)
  <2>1. TAKE x
  <2>2. /\ Count(CountedKinds, x) \in Nat
        /\ Count({"drain", "drained"}, x) \in Nat
        /\ Count({"drained"}, x) \in Nat
        /\ Count({"ctor"}, x) \in Nat
    BY <1>1, CountNat
  <2>3. QED
    BY <1>5, <2>2
       DEF Holders, Drainers, Drained, Constructors, One, CountedKinds
<1>7. \A x \in Instances :
        /\ life'[x] = IF x = o THEN "destroyed" ELSE life[x]
        /\ refCount'[x] = refCount[x] - (IF x = o THEN 1 ELSE 0)
        /\ refCount[x] \in Int
        /\ Holders(x) \in Nat /\ Drained(x) \in Nat /\ Drained(x) <= Drainers(x)
        /\ Drainers(x) \in Nat
  BY <1>1, <1>2, <1>3, CountsOrdered DEF TypeOK, Release
<1>8. UNCHANGED slot
  BY <1>1
<1> HIDE DEF o
<1>9. RefCountExact'
  BY <1>6, <1>7, <1>8 DEF IInv, RefCountExact
<1>10. NoUseAfterDestroy'
  BY <1>3, <1>6, <1>7, <1>8 DEF IInv, NoUseAfterDestroy
<1>11. OneDrainer'
  BY <1>3, <1>6, <1>7, <1>8 DEF IInv, OneDrainer
<1>12. ConstructingOnce'
  BY <1>3, <1>6, <1>7 DEF IInv, ConstructingOnce
<1>13. DrainedIsAlone'
  BY <1>3, <1>6, <1>7 DEF IInv, DrainedIsAlone
<1>14. QED
  BY <1>4, <1>9, <1>10, <1>11, <1>12, <1>13 DEF IInv

\* withInstance() keeps the invariant: it enters only what is in the slot, and
\* counts itself in the same step.
LEMMA EnterPreserves ==
  ASSUME IInv, NEW t \in Threads, Enter(t)
  PROVE  IInv'
<1> DEFINE o == slot
<1>1. /\ TypeOK /\ MayCall(t) /\ Push(t, "with", o) /\ "with" \in Kinds
      /\ o \in Instances
      /\ refCount' = [refCount EXCEPT ![o] = @ + 1]
      /\ UNCHANGED <<slot, life, aborted>>
  BY DEF IInv, Enter, Retain, Kinds, CountedKinds, TypeOK
<1>2. TypeOK'
  <2>1. /\ stack' \in [Threads -> Seq(Activations)]
        /\ \A u \in Threads : Len(stack'[u]) <= MaxDepth
    BY <1>1, PushPlaces
  <2>2. QED
    BY <1>1, <2>1 DEF TypeOK, Retain
<1>3. \A K, x : Count(K, x)' = Count(K, x) + One("with", o, K, x)
  BY <1>1, CountPush
<1>4. \A x : /\ Holders(x)' = Holders(x) + (IF x = o THEN 1 ELSE 0)
             /\ Drainers(x)' = Drainers(x)
             /\ Drained(x)' = Drained(x)
             /\ Constructors(x)' = Constructors(x)
  <2>1. TAKE x
  <2>2. /\ Count(CountedKinds, x) \in Nat
        /\ Count({"drain", "drained"}, x) \in Nat
        /\ Count({"drained"}, x) \in Nat
        /\ Count({"ctor"}, x) \in Nat
    BY <1>1, CountNat
  <2>3. QED
    BY <1>3, <2>2
       DEF Holders, Drainers, Drained, Constructors, One, CountedKinds
<1>5. life[o] = "live" /\ Drainers(o) = 0 /\ Drained(o) = 0
  BY <1>1, CountsOrdered DEF IInv, NoUseAfterDestroy, OneDrainer
<1>6. \A x \in Instances :
        /\ refCount'[x] = refCount[x] + (IF x = o THEN 1 ELSE 0)
        /\ refCount[x] \in Int /\ Holders(x) \in Nat /\ Drained(x) \in Nat
  BY <1>1, CountsOrdered DEF TypeOK
<1>7. UNCHANGED <<slot, life>>
  BY <1>1
<1> HIDE DEF o
<1>8. RefCountExact'
  BY <1>4, <1>6, <1>7 DEF IInv, RefCountExact
<1>9. NoUseAfterDestroy'
  BY <1>4, <1>5, <1>6, <1>7 DEF IInv, NoUseAfterDestroy
<1>10. OneDrainer' /\ ConstructingOnce'
  BY <1>4, <1>7 DEF IInv, OneDrainer, ConstructingOnce
<1>11. DrainedIsAlone'
  BY <1>4, <1>5, <1>6 DEF IInv, DrainedIsAlone
<1>12. QED
  BY <1>2, <1>8, <1>9, <1>10, <1>11 DEF IInv

\* destroyInstance()'s unpublication keeps the invariant: the slot's reference
\* becomes the drainer's.
LEMMA UnpublishPreserves ==
  ASSUME IInv, NEW t \in Threads, Unpublish(t)
  PROVE  IInv'
<1> DEFINE o == slot
<1>1. /\ TypeOK /\ MayCall(t) /\ Push(t, "drain", o) /\ "drain" \in Kinds
      /\ o \in Instances
      /\ slot' = None /\ None \notin Instances
      /\ UNCHANGED <<refCount, life, aborted>>
  BY NoneIsNoObject DEF IInv, Unpublish, Kinds, CountedKinds, TypeOK
<1>2. TypeOK'
  <2>1. /\ stack' \in [Threads -> Seq(Activations)]
        /\ \A u \in Threads : Len(stack'[u]) <= MaxDepth
    BY <1>1, PushPlaces
  <2>2. QED
    BY <1>1, <2>1 DEF TypeOK
<1>3. \A K, x : Count(K, x)' = Count(K, x) + One("drain", o, K, x)
  BY <1>1, CountPush
<1>4. \A x : /\ Holders(x)' = Holders(x) + (IF x = o THEN 1 ELSE 0)
             /\ Drainers(x)' = Drainers(x) + (IF x = o THEN 1 ELSE 0)
             /\ Drained(x)' = Drained(x)
             /\ Constructors(x)' = Constructors(x)
  <2>1. TAKE x
  <2>2. /\ Count(CountedKinds, x) \in Nat
        /\ Count({"drain", "drained"}, x) \in Nat
        /\ Count({"drained"}, x) \in Nat
        /\ Count({"ctor"}, x) \in Nat
    BY <1>1, CountNat
  <2>3. QED
    BY <1>3, <2>2
       DEF Holders, Drainers, Drained, Constructors, One, CountedKinds
<1>5. life[o] = "live" /\ Drainers(o) = 0 /\ Drained(o) = 0
  BY <1>1, CountsOrdered DEF IInv, NoUseAfterDestroy, OneDrainer
<1>6. \A x \in Instances :
        /\ slot' # x /\ (slot = x <=> x = o)
        /\ refCount[x] \in Int /\ Holders(x) \in Nat /\ Drained(x) \in Nat
  BY <1>1, CountsOrdered DEF TypeOK
<1>7. UNCHANGED <<refCount, life>>
  BY <1>1
<1> HIDE DEF o
<1>8. RefCountExact'
  BY <1>4, <1>6, <1>7 DEF IInv, RefCountExact
<1>9. NoUseAfterDestroy'
  BY <1>4, <1>5, <1>6, <1>7 DEF IInv, NoUseAfterDestroy
<1>10. OneDrainer'
  BY <1>4, <1>5, <1>6, <1>7 DEF IInv, OneDrainer
<1>11. ConstructingOnce' /\ DrainedIsAlone'
  BY <1>4, <1>7 DEF IInv, ConstructingOnce, DrainedIsAlone
<1>12. QED
  BY <1>2, <1>8, <1>9, <1>10, <1>11 DEF IInv

-----------------------------------------------------------------------------
\* The invariant holds before anything is created.
LEMMA InitIInv == Init => IInv
<1> SUFFICES ASSUME Init PROVE IInv
  OBVIOUS
<1>1. TypeOK
  <2>1. <<>> \in Seq(Activations) /\ Len(<<>>) = 0
    OBVIOUS
  <2>2. \A t \in Threads : stack[t] = <<>>
    BY DEF Init
  <2>3. stack \in [Threads -> Seq(Activations)]
    BY <2>1 DEF Init
  <2>4. \A t \in Threads : Len(stack[t]) <= MaxDepth
    BY <2>1, <2>2, MaxDepthPositive
  <2>5. slot \in Instances \cup {None} /\ refCount \in [Instances -> Nat]
    BY DEF Init
  <2>6. life \in [Instances -> {"unborn", "constructing", "live", "destroyed"}]
    BY DEF Init
  <2>7. aborted \in BOOLEAN
    BY DEF Init
  <2>8. QED
    BY <2>3, <2>4, <2>5, <2>6, <2>7 DEF TypeOK
<1>2. ASSUME NEW K, NEW x PROVE Count(K, x) = 0
  <2>1. Places(K, x) = {}
    BY DEF Init, Places
  <2>2. QED
    BY <2>1, FS_EmptySet DEF Count
<1>3. \A x : /\ Holders(x) = 0 /\ Drainers(x) = 0
             /\ Drained(x) = 0 /\ Constructors(x) = 0
  BY <1>2 DEF Holders, Drainers, Drained, Constructors
<1>4. RefCountExact /\ NoUseAfterDestroy /\ OneDrainer
  BY <1>3, NoneIsNoObject
     DEF Init, RefCountExact, NoUseAfterDestroy, OneDrainer
<1>5. ConstructingOnce /\ DrainedIsAlone
  BY <1>3 DEF Init, ConstructingOnce, DrainedIsAlone
<1>6. QED
  BY <1>1, <1>4, <1>5 DEF IInv

\* A step that changes nothing keeps the invariant.
LEMMA UnchangedIInv == IInv /\ UNCHANGED vars => IInv'
<1> SUFFICES ASSUME IInv, UNCHANGED vars PROVE IInv'
  OBVIOUS
<1>1. \A K, x : Count(K, x)' = Count(K, x)
  BY DEF vars, Count, Places
<1>2. \A x : /\ Holders(x)' = Holders(x) /\ Drainers(x)' = Drainers(x)
             /\ Drained(x)' = Drained(x) /\ Constructors(x)' = Constructors(x)
  BY <1>1 DEF Holders, Drainers, Drained, Constructors
<1>3. TypeOK'
  BY DEF IInv, TypeOK, vars
<1>4. QED
  BY <1>2, <1>3
     DEF IInv, vars, RefCountExact, NoUseAfterDestroy, OneDrainer,
         ConstructingOnce, DrainedIsAlone

\* A fatal error, which changes the flag only, keeps the invariant.
LEMMA AbortPreserves ==
  IInv /\ UNCHANGED <<slot, refCount, life, stack>> /\ aborted' \in BOOLEAN => IInv'
<1> SUFFICES ASSUME IInv, UNCHANGED <<slot, refCount, life, stack>>,
                    aborted' \in BOOLEAN
             PROVE  IInv'
  OBVIOUS
<1>1. \A K, x : Count(K, x)' = Count(K, x)
  BY DEF Count, Places
<1>2. \A x : /\ Holders(x)' = Holders(x) /\ Drainers(x)' = Drainers(x)
             /\ Drained(x)' = Drained(x) /\ Constructors(x)' = Constructors(x)
  BY <1>1 DEF Holders, Drainers, Drained, Constructors
<1>3. TypeOK'
  BY DEF IInv, TypeOK
<1>4. QED
  BY <1>2, <1>3
     DEF IInv, RefCountExact, NoUseAfterDestroy, OneDrainer,
         ConstructingOnce, DrainedIsAlone

\* Every step of every thread keeps the invariant.
LEMMA NextIInv == IInv /\ [Next]_vars => IInv'
<1> SUFFICES ASSUME IInv, [Next]_vars PROVE IInv'
  OBVIOUS
<1>1. ASSUME NEW t \in Threads, NEW o \in Instances, Construct(t, o) PROVE IInv'
  BY <1>1, ConstructPreserves
<1>2. ASSUME NEW t \in Threads, PublishWins(t) PROVE IInv'
  BY <1>2, PublishWinsPreserves
<1>3. ASSUME NEW t \in Threads, PublishLoses(t) PROVE IInv'
  BY <1>3, PublishLosesPreserves
<1>4. ASSUME NEW t \in Threads, CreatedTwice(t) PROVE IInv'
  BY <1>4, AbortPreserves DEF CreatedTwice
<1>5. ASSUME NEW t \in Threads, PublishReturns(t) PROVE IInv'
  BY <1>5, ReturnPreserves DEF PublishReturns
<1>6. ASSUME NEW t \in Threads, Enter(t) PROVE IInv'
  BY <1>6, EnterPreserves
<1>7. ASSUME NEW t \in Threads, EnterNone(t) PROVE IInv'
  BY <1>7, UnchangedIInv DEF EnterNone
<1>8. ASSUME NEW t \in Threads, Leave(t) PROVE IInv'
  BY <1>8, ReturnPreserves DEF Leave
<1>9. ASSUME NEW t \in Threads, Unpublish(t) PROVE IInv'
  BY <1>9, UnpublishPreserves
<1>10. ASSUME NEW t \in Threads, DestroyAsserts(t) PROVE IInv'
  BY <1>10, AbortPreserves DEF DestroyAsserts
<1>11. ASSUME NEW t \in Threads, SeeDrained(t) PROVE IInv'
  BY <1>11, SeeDrainedPreserves
<1>12. ASSUME NEW t \in Threads, Reset(t) PROVE IInv'
  BY <1>12, ResetPreserves
<1>13. CASE Dead \/ UNCHANGED vars
  BY <1>13, UnchangedIInv DEF Dead
<1>14. QED
  BY <1>1, <1>2, <1>3, <1>4, <1>5, <1>6, <1>7, <1>8, <1>9, <1>10, <1>11,
     <1>12, <1>13 DEF Next

(***************************************************************************)
(* The inductive invariant holds, in debug and release builds alike: the   *)
(* assertion of destroyInstance() is not needed for safety, only for       *)
(* progress.                                                               *)
(***************************************************************************)
THEOREM SingletonInvariant == Spec => []IInv
BY InitIInv, NextIInv, PTL DEF Spec

\* Every variable keeps its type.
THEOREM SingletonTypeOK == Spec => []TypeOK
<1>1. IInv => TypeOK
  BY DEF IInv
<1>2. QED
  BY <1>1, SingletonInvariant, PTL

\* withInstance() never runs a callback against a destroyed instance.
THEOREM NeverUsedAfterDestroy == Spec => []NoUseAfterDestroy
<1>1. IInv => NoUseAfterDestroy
  BY DEF IInv
<1>2. QED
  BY <1>1, SingletonInvariant, PTL

\* The count that destroyInstance() spins on is the number of references.
THEOREM CountIsExact == Spec => []RefCountExact
<1>1. IInv => RefCountExact
  BY DEF IInv
<1>2. QED
  BY <1>1, SingletonInvariant, PTL

\* A retired instance belongs to exactly one destroyInstance() call.
THEOREM RetiredHasOneDrainer == Spec => []OneDrainer
<1>1. IInv => OneDrainer
  BY DEF IInv
<1>2. QED
  BY <1>1, SingletonInvariant, PTL

(***************************************************************************)
(* A published instance is destroyed by destroyInstance() only: the thread *)
(* that leaves an API wrapper last never runs the tool's destructor.       *)
(***************************************************************************)
LEMMA OtherStepsKeepLife ==
  ASSUME IInv, [Next]_vars, NEW o \in Instances,
         life[o] = "live", life'[o] = "destroyed"
  PROVE  \E t \in Threads : OnTop(t, "drained") /\ Top(t).obj = o
<1>1. ASSUME NEW t \in Threads, NEW x \in Instances, Construct(t, x) PROVE FALSE
  BY <1>1 DEF Construct, IInv, TypeOK
<1>2. ASSUME NEW t \in Threads, PublishWins(t) PROVE FALSE
  BY <1>2 DEF PublishWins, IInv, TypeOK
<1>3. ASSUME NEW t \in Threads, PublishLoses(t) PROVE FALSE
  <2>1. Top(t).obj \in Instances /\ Count({"ctor"}, Top(t).obj) >= 1
    BY <1>3, CountTop DEF IInv, PublishLoses, One
  <2>2. life[Top(t).obj] = "constructing"
    BY <2>1 DEF IInv, ConstructingOnce, Constructors
  <2>3. QED
    BY <1>3, <2>1, <2>2 DEF PublishLoses, IInv, TypeOK
<1>4. ASSUME NEW t \in Threads, PublishReturns(t) PROVE FALSE
  BY <1>4, ReturnPreserves DEF PublishReturns
<1>5. ASSUME NEW t \in Threads, Leave(t) PROVE FALSE
  BY <1>5, ReturnPreserves DEF Leave
<1>6. ASSUME NEW t \in Threads, Reset(t)
      PROVE  OnTop(t, "drained") /\ Top(t).obj = o
  BY <1>6 DEF Reset, Release, IInv, TypeOK
<1>7. ASSUME NEW t \in Threads,
             \/ CreatedTwice(t) \/ Enter(t) \/ EnterNone(t)
             \/ Unpublish(t) \/ DestroyAsserts(t) \/ SeeDrained(t)
      PROVE  FALSE
  BY <1>7 DEF CreatedTwice, Enter, EnterNone, Unpublish, DestroyAsserts,
              SeeDrained, vars
<1>8. CASE Dead \/ UNCHANGED vars
  BY <1>8 DEF Dead, vars
<1>9. QED
  BY <1>1, <1>2, <1>3, <1>4, <1>5, <1>6, <1>7, <1>8 DEF Next

\* A published object is destroyed by the thread inside destroyInstance() only,
\* whoever left an API wrapper last.
THEOREM OnlyTheDestroyerDestroys == Spec => OnlyDestroyerDestroys
<1>1. IInv /\ [Next]_vars =>
        [\A o \in Instances :
           (life[o] = "live" /\ life'[o] = "destroyed") =>
              \E t \in Threads : OnTop(t, "drained") /\ Top(t).obj = o]_vars
  BY OtherStepsKeepLife
<1>2. QED
  BY <1>1, SingletonInvariant, PTL DEF Spec, OnlyDestroyerDestroys

-----------------------------------------------------------------------------
(***************************************************************************)
(* Reference counting implements the promised lifetime.                    *)
(***************************************************************************)
LEMMA InitMapped == Init => Lifetime!Init
<1> SUFFICES ASSUME Init PROVE Lifetime!Init
  OBVIOUS
<1>1. \A o : Callbacks(o) = {}
  BY DEF Init, Callbacks, Places
<1>2. QED
  BY <1>1 DEF Init, Lifetime!Init, AbstractPhase

\* A step that changes neither the slot, the lives nor the callbacks.
LEMMA StutterMapped ==
  ASSUME UNCHANGED <<slot, life>>,
         \A o \in Instances : Callbacks(o)' = Callbacks(o)
  PROVE  UNCHANGED Lifetime!vars
<1>1. \A o \in Instances : AbstractPhase(o)' = AbstractPhase(o)
  BY DEF AbstractPhase
<1>2. QED
  BY <1>1 DEF Lifetime!vars

\* The callbacks, before and after each way to change a stack.
LEMMA CallbacksPush ==
  ASSUME TypeOK, NEW t \in Threads, MayCall(t),
         NEW k \in Kinds, NEW o \in Instances, Push(t, k, o), NEW x
  PROVE  /\ NextPlace(t) \in Threads \X (1..MaxDepth)
         /\ Callbacks(x)' = IF k = "with" /\ x = o
                            THEN Callbacks(x) \cup {NextPlace(t)} ELSE Callbacks(x)
<1>1. NextPlace(t) \in Threads \X (1..MaxDepth)
  <2>1. Len(stack[t]) \in Nat /\ Len(stack[t]) < MaxDepth
    BY DEF TypeOK, MayCall
  <2>2. QED
    BY <2>1, MaxDepthPositive DEF NextPlace
<1>2. Places({"with"}, x)' = IF k \in {"with"} /\ x = o
                             THEN Places({"with"}, x) \cup {NextPlace(t)}
                             ELSE Places({"with"}, x)
  <2>1. ASSUME NEW K
        PROVE  Places(K, x)' = IF k \in K /\ x = o
                               THEN Places(K, x) \cup {NextPlace(t)} ELSE Places(K, x)
    BY PushPlaces
  <2>2. QED
    BY <2>1
<1>3. QED
  BY <1>1, <1>2 DEF Callbacks

\* Returning from a call removes its place from the callbacks if it was one.
LEMMA CallbacksPop ==
  ASSUME TypeOK, NEW t \in Threads, NEW k, OnTop(t, k), Pop(t), NEW x
  PROVE  /\ Callbacks(x)' = Callbacks(x) \ {TopPlace(t)}
         /\ TopPlace(t) \in Callbacks(x) <=> k = "with" /\ Top(t).obj = x
BY PopPlaces, TopOfStack DEF OnTop, Callbacks

\* A call that turns into one that is no callback leaves the callbacks alone.
LEMMA CallbacksBecome ==
  ASSUME TypeOK, NEW t \in Threads, NEW j, OnTop(t, j), j # "with",
         NEW k \in Kinds, k # "with", Become(t, k), NEW x
  PROVE  Callbacks(x)' = Callbacks(x)
<1>1. /\ Places({"with"}, x)' = Places({"with"}, x) \ {TopPlace(t)}
      /\ TopPlace(t) \notin Places({"with"}, x)
  BY BecomePlaces, TopOfStack DEF OnTop
<1>2. QED
  BY <1>1 DEF Callbacks

\* Every step of the reference-counted singleton is a step of InstanceLifetime or
\* a stutter of it.
LEMMA NextMapped == IInv /\ [Next]_vars => [Lifetime!Next]_(Lifetime!vars)
<1> SUFFICES ASSUME IInv, [Next]_vars PROVE Lifetime!Next \/ UNCHANGED Lifetime!vars
  OBVIOUS
<1> USE DEF Lifetime!Next
<1>0. TypeOK /\ NoneIsNoObject
  BY NoneIsNoObject DEF IInv
<1>1. ASSUME NEW t \in Threads, NEW o \in Instances, Construct(t, o)
      PROVE  Lifetime!Construct(o)
  <2>1. \A x \in Instances : Callbacks(x)' = Callbacks(x)
    BY <1>0, <1>1, CallbacksPush DEF Construct, Kinds
  <2>2. /\ slot' = slot /\ slot # o
        /\ \A x \in Instances : AbstractPhase(x)' = IF x = o THEN "constructing"
                                                            ELSE AbstractPhase(x)
    BY <1>0, <1>1 DEF Construct, AbstractPhase, TypeOK, IInv, NoUseAfterDestroy
  <2>3. AbstractPhase(o) = "unborn"
    BY <1>1 DEF Construct, AbstractPhase
  <2>4. QED
    BY <2>1, <2>2, <2>3 DEF Lifetime!Construct
<1>2. ASSUME NEW t \in Threads, PublishWins(t)
      PROVE  Top(t).obj \in Instances /\ Lifetime!Publish(Top(t).obj)
  <2> DEFINE o == Top(t).obj
  <2>1. o \in Instances /\ Count({"ctor"}, o) >= 1
    BY <1>0, <1>2, CountTop DEF PublishWins, One
  <2>2. life[o] = "constructing" /\ o # None
    BY <1>0, <2>1 DEF IInv, ConstructingOnce, Constructors
  <2>3. \A x \in Instances : Callbacks(x)' = Callbacks(x)
    BY <1>0, <1>2, CallbacksBecome DEF PublishWins, Kinds, CountedKinds
  <2>4. /\ slot = None /\ slot' = o
        /\ \A x \in Instances : AbstractPhase(x)' = IF x = o THEN "published"
                                                            ELSE AbstractPhase(x)
    BY <1>0, <1>2, <2>1, <2>2 DEF PublishWins, AbstractPhase, TypeOK
  <2>5. AbstractPhase(o) = "constructing"
    BY <2>2 DEF AbstractPhase
  <2>6. QED
    BY <2>1, <2>3, <2>4, <2>5 DEF Lifetime!Publish
<1>3. ASSUME NEW t \in Threads, PublishLoses(t)
      PROVE  Top(t).obj \in Instances /\ Lifetime!Discard(Top(t).obj)
  <2> DEFINE o == Top(t).obj
  <2>1. o \in Instances /\ Count({"ctor"}, o) >= 1
    BY <1>0, <1>3, CountTop DEF PublishLoses, One
  <2>2. life[o] = "constructing"
    BY <2>1 DEF IInv, ConstructingOnce, Constructors
  <2>3. \A x \in Instances : Callbacks(x)' = Callbacks(x)
    BY <1>0, <1>3, CallbacksBecome DEF PublishLoses, Kinds, CountedKinds
  <2>4. /\ slot' = slot
        /\ \A x \in Instances : AbstractPhase(x)' = IF x = o THEN "destroyed"
                                                            ELSE AbstractPhase(x)
    BY <1>0, <1>3, <2>1 DEF PublishLoses, AbstractPhase, TypeOK
  <2>5. AbstractPhase(o) = "constructing"
    BY <2>2 DEF AbstractPhase
  <2>6. QED
    BY <2>1, <2>3, <2>4, <2>5 DEF Lifetime!Discard
<1>4. ASSUME NEW t \in Threads, Enter(t)
      PROVE  /\ slot \in Instances /\ NextPlace(t) \in Threads \X (1..MaxDepth)
             /\ Lifetime!Enter(slot, NextPlace(t))
  <2>1. slot \in Instances
    BY <1>0, <1>4 DEF Enter, TypeOK
  <2>2. /\ NextPlace(t) \in Threads \X (1..MaxDepth)
        /\ \A x \in Instances : Callbacks(x)' =
             IF x = slot THEN Callbacks(x) \cup {NextPlace(t)} ELSE Callbacks(x)
    BY <1>0, <1>4, <2>1, CallbacksPush DEF Enter, Kinds, CountedKinds
  <2>3. slot' = slot /\ \A x \in Instances : AbstractPhase(x)' = AbstractPhase(x)
    BY <1>4 DEF Enter, AbstractPhase
  <2>4. QED
    BY <2>1, <2>2, <2>3 DEF Lifetime!Enter
<1>5. ASSUME NEW t \in Threads, Leave(t)
      PROVE  /\ Top(t).obj \in Instances /\ TopPlace(t) \in Threads \X (1..MaxDepth)
             /\ Lifetime!Leave(Top(t).obj, TopPlace(t))
  <2>1. Top(t).obj \in Instances
    BY <1>0, <1>5, CountTop DEF Leave
  <2>2. /\ TopPlace(t) \in Callbacks(Top(t).obj)
        /\ \A x \in Instances : Callbacks(x)' =
             IF x = Top(t).obj THEN Callbacks(x) \ {TopPlace(t)} ELSE Callbacks(x)
    BY <1>0, <1>5, <2>1, CallbacksPop DEF Leave
  <2>3. TopPlace(t) \in Threads \X (1..MaxDepth)
    BY <2>2 DEF Callbacks, Places
  <2>4. slot' = slot /\ life' = life
    BY <1>5, ReturnPreserves DEF Leave
  <2>5. \A x \in Instances : AbstractPhase(x)' = AbstractPhase(x)
    BY <2>4 DEF AbstractPhase
  <2>6. QED
    BY <2>1, <2>2, <2>3, <2>4, <2>5 DEF Lifetime!Leave
<1>6. ASSUME NEW t \in Threads, Unpublish(t)
      PROVE  slot \in Instances /\ Lifetime!Retire(slot)
  <2>1. slot \in Instances /\ life[slot] = "live"
    BY <1>0, <1>6 DEF Unpublish, TypeOK, IInv, NoUseAfterDestroy
  <2>2. \A x \in Instances : Callbacks(x)' = Callbacks(x)
    BY <1>0, <1>6, <2>1, CallbacksPush DEF Unpublish, Kinds, CountedKinds
  <2>3. /\ slot' = None
        /\ \A x \in Instances : AbstractPhase(x)' = IF x = slot THEN "retired"
                                                              ELSE AbstractPhase(x)
    BY <1>0, <1>6, <2>1 DEF Unpublish, AbstractPhase, NoneIsNoObject
  <2>4. QED
    BY <2>1, <2>2, <2>3 DEF Lifetime!Retire
<1>7. ASSUME NEW t \in Threads, Reset(t)
      PROVE  Top(t).obj \in Instances /\ Lifetime!Destroy(Top(t).obj)
  <2> DEFINE o == Top(t).obj
  <2>1. OnTop(t, "drained") /\ Pop(t) /\ Release(o) /\ slot' = slot
    BY <1>7 DEF Reset
  <2>2. o \in Instances /\ Drained(o) >= 1
    <3>1. One("drained", o, {"drained"}, o) = 1
      BY DEF One
    <3>2. o \in Instances /\ Count({"drained"}, o) >= One("drained", o, {"drained"}, o)
      BY <1>0, <2>1, CountTop
    <3>3. QED
      BY <3>1, <3>2 DEF Drained
  <2>3. refCount[o] = 1
    BY <1>0, <2>2, CountsOrdered DEF IInv, DrainedIsAlone
  <2>4. life[o] = "live" /\ slot # o /\ Holders(o) = 1
    <3>1. Drainers(o) >= 1 /\ Drainers(o) \in Nat /\ Holders(o) >= 1 /\ Holders(o) \in Nat
      BY <1>0, <2>2, CountsOrdered
    <3>2. life[o] = "live" /\ slot # o
      BY <2>2, <3>1 DEF IInv, OneDrainer
    <3>3. QED
      BY <2>2, <2>3, <3>1, <3>2 DEF IInv, RefCountExact
  <2>5. Callbacks(o) = {}
    <3>1. TopPlace(t) \in Places(CountedKinds, o) /\ TopPlace(t) \notin Callbacks(o)
      BY <1>0, <2>1, TopOfStack DEF OnTop, Callbacks, CountedKinds
    <3>2. IsFiniteSet(Places(CountedKinds, o)) /\ Cardinality(Places(CountedKinds, o)) = 1
      BY <1>0, <2>4, PlacesFinite DEF Holders, Count
    <3>3. PICK p : Places(CountedKinds, o) = {p}
      BY <3>2, FS_Singleton
    <3>4. Callbacks(o) \subseteq Places(CountedKinds, o)
      BY DEF Callbacks, Places, CountedKinds
    <3>5. QED
      BY <3>1, <3>3, <3>4
  <2>6. \A x \in Instances : Callbacks(x)' = Callbacks(x)
    BY <1>0, <2>1, CallbacksPop
  <2>7. \A x \in Instances : AbstractPhase(x)' = IF x = o THEN "destroyed"
                                                         ELSE AbstractPhase(x)
    BY <1>0, <2>1, <2>2, <2>3 DEF AbstractPhase, Release, TypeOK
  <2>8. AbstractPhase(o) = "retired"
    BY <2>4 DEF AbstractPhase
  <2>9. QED
    BY <2>1, <2>2, <2>5, <2>6, <2>7, <2>8 DEF Lifetime!Destroy
<1>8. ASSUME NEW t \in Threads, PublishReturns(t) PROVE UNCHANGED Lifetime!vars
  <2>1. \A x \in Instances : Callbacks(x)' = Callbacks(x)
    BY <1>0, <1>8, CallbacksPop DEF PublishReturns
  <2>2. UNCHANGED <<slot, life>>
    BY <1>8, ReturnPreserves DEF PublishReturns
  <2>3. QED
    BY <2>1, <2>2, StutterMapped
<1>9. ASSUME NEW t \in Threads, SeeDrained(t) PROVE UNCHANGED Lifetime!vars
  <2>1. \A x \in Instances : Callbacks(x)' = Callbacks(x)
    BY <1>0, <1>9, CallbacksBecome DEF SeeDrained, Kinds, CountedKinds
  <2>2. QED
    BY <1>9, <2>1, StutterMapped DEF SeeDrained
<1>10. CASE UNCHANGED <<slot, life, stack>>
  <2>1. \A x \in Instances : Callbacks(x)' = Callbacks(x)
    BY <1>10 DEF Callbacks, Places
  <2>2. QED
    BY <1>10, <2>1, StutterMapped
<1>11. ASSUME NEW t \in Threads, CreatedTwice(t) \/ EnterNone(t) \/ DestroyAsserts(t)
       PROVE  UNCHANGED <<slot, life, stack>>
  BY <1>11 DEF CreatedTwice, EnterNone, DestroyAsserts, vars
<1>12. QED
  BY <1>1, <1>2, <1>3, <1>4, <1>5, <1>6, <1>7, <1>8, <1>9, <1>10, <1>11
     DEF Next, Dead, vars

(***************************************************************************)
(* Whatever the number of threads, objects and nested calls, the counted   *)
(* and unlocked implementation is one of InstanceLifetime.                 *)
(***************************************************************************)
THEOREM RefCountingImplementsLifetime == Spec => ImplementsLifetime
BY InitMapped, NextMapped, SingletonInvariant, PTL
   DEF Spec, ImplementsLifetime, Lifetime!Spec

=============================================================================
