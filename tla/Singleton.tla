------------------------------ MODULE Singleton ------------------------------
(***************************************************************************)
(* luthier::Singleton<Derived> (include/luthier/Common/Singleton.h): the   *)
(* atomically reference-counted instance that every HSA API wrapper goes   *)
(* through.  Both storage back ends (std::atomic<std::shared_ptr> and the  *)
(* intrusive count under a shared_mutex) make the load-and-retain, the     *)
(* publication and the unpublication indivisible; everything between them  *)
(* interleaves.                                                            *)
(*                                                                         *)
(* stack[t] is thread t's call stack, restricted to the calls this file    *)
(* defines.  Callbacks and constructors are user code: they may call       *)
(* withInstance(), createInstance() and destroyInstance() again.           *)
(***************************************************************************)
EXTENDS Integers, Sequences, FiniteSets

CONSTANTS
  Threads,
  Instances,   \* objects `new Derived` may return; each is built at most once
  MaxDepth,    \* bound on the nesting of calls per thread
  NDEBUG,      \* TRUE when assertions are compiled out
  None         \* the empty slot

ASSUME ThreadsFinite == IsFiniteSet(Threads)
ASSUME MaxDepthPositive == MaxDepth \in Nat \ {0}
ASSUME BuildKind == NDEBUG \in BOOLEAN
ASSUME NoneIsNoObject == None \notin Instances

VARIABLES
  slot,       \* instance(): the process-lifetime owning slot
  refCount,   \* RefCount, or the shared_ptr's use count
  life,       \* what became of each object
  stack,      \* stack[t]: calls in progress on thread t, the last on top
  aborted     \* a fatal error or a failed assertion ended the process

vars == <<slot, refCount, life, stack, aborted>>

-----------------------------------------------------------------------------
(***************************************************************************)
(* The calls in progress.  "ctor": createInstance() is inside Derived's    *)
(* constructor; "publisher": publish() succeeded and its local Ref is not  *)
(* yet dropped; "lost": publish() failed; "with": a withInstance()         *)
(* callback is running; "drain": destroyInstance() is spinning; "drained": *)
(* it saw the count fall to one and is about to reset its Ref.             *)
(***************************************************************************)
CountedKinds == {"publisher", "with", "drain", "drained"}
Kinds == CountedKinds \cup {"ctor", "lost"}
Activations == [kind : Kinds, obj : Instances]

Top(t) == stack[t][Len(stack[t])]
OnTop(t, kind) == stack[t] # <<>> /\ Top(t).kind = kind
Push(t, kind, o) ==
  stack' = [stack EXCEPT ![t] = Append(@, [kind |-> kind, obj |-> o])]
Pop(t) == stack' = [stack EXCEPT ![t] = SubSeq(@, 1, Len(@) - 1)]
Become(t, kind) == stack' = [stack EXCEPT ![t][Len(stack[t])].kind = kind]

\* User code runs on t: no call, a callback or a constructor is on top.
MayCall(t) ==
  /\ ~aborted
  /\ Len(stack[t]) < MaxDepth
  /\ stack[t] # <<>> => Top(t).kind \in {"with", "ctor"}

\* WithInstanceDepth, the thread-local counter of DepthGuard.
WithInstanceDepth(t) ==
  Cardinality({i \in 1..Len(stack[t]) : stack[t][i].kind = "with"})

Retain(o) == refCount' = [refCount EXCEPT ![o] = @ + 1]

\* release(): the holder that brings the count to zero runs ~Derived.
Release(o) ==
  /\ refCount' = [refCount EXCEPT ![o] = @ - 1]
  /\ life' = IF refCount[o] = 1 THEN [life EXCEPT ![o] = "destroyed"] ELSE life

-----------------------------------------------------------------------------
(***************************************************************************)
(* Faulty variants of the actions below.  No specification uses them; each *)
(* shows that some property notices the mistake it stands for.             *)
(***************************************************************************)
\* A store in place of the compare-and-exchange.
PublishOver(t) ==
  /\ ~aborted
  /\ OnTop(t, "ctor")
  /\ slot' = Top(t).obj
  /\ refCount' = [refCount EXCEPT ![Top(t).obj] = 2]
  /\ life' = [life EXCEPT ![Top(t).obj] = "live"]
  /\ Become(t, "publisher")
  /\ UNCHANGED aborted

\* loadInstance() copies the pointer and forgets the reference.
EnterUncounted(t) ==
  /\ MayCall(t)
  /\ slot # None
  /\ Push(t, "with", slot)
  /\ UNCHANGED <<slot, refCount, life, aborted>>

\* Held is never dropped.
LeaveLeaking(t) ==
  /\ ~aborted
  /\ OnTop(t, "with")
  /\ Pop(t)
  /\ UNCHANGED <<slot, refCount, life, aborted>>

\* destroyInstance() without its re-entrancy assertion.
UnpublishUnasserted(t) ==
  /\ MayCall(t)
  /\ slot # None
  /\ Push(t, "drain", slot)
  /\ slot' = None
  /\ UNCHANGED <<refCount, life, aborted>>

-----------------------------------------------------------------------------
Init ==
  /\ slot = None
  /\ refCount = [o \in Instances |-> 0]
  /\ life = [o \in Instances |-> "unborn"]
  /\ stack = [t \in Threads |-> <<>>]
  /\ aborted = FALSE

\* createInstance(): `new Derived`, with no lock held.
Construct(t, o) ==
  /\ MayCall(t)
  /\ life[o] = "unborn"
  /\ life' = [life EXCEPT ![o] = "constructing"]
  /\ Push(t, "ctor", o)
  /\ UNCHANGED <<slot, refCount, aborted>>

\* publish() wins: the slot and the local Ref both count.
PublishWins(t) ==
  /\ ~aborted
  /\ OnTop(t, "ctor")
  /\ slot = None
  /\ slot' = Top(t).obj
  /\ refCount' = [refCount EXCEPT ![Top(t).obj] = 2]
  /\ life' = [life EXCEPT ![Top(t).obj] = "live"]
  /\ Become(t, "publisher")
  /\ UNCHANGED aborted

\* publish() loses: its local Ref is the only one, so the new object dies ...
PublishLoses(t) ==
  /\ ~aborted
  /\ OnTop(t, "ctor")
  /\ slot # None
  /\ life' = [life EXCEPT ![Top(t).obj] = "destroyed"]
  /\ Become(t, "lost")
  /\ UNCHANGED <<slot, refCount, aborted>>

\* ... and createInstance() reports "Called createInstance() twice.".
CreatedTwice(t) ==
  /\ ~aborted
  /\ OnTop(t, "lost")
  /\ aborted' = TRUE
  /\ UNCHANGED <<slot, refCount, life, stack>>

\* publish() returns and drops its local Ref.
PublishReturns(t) ==
  /\ ~aborted
  /\ OnTop(t, "publisher")
  /\ Release(Top(t).obj)
  /\ Pop(t)
  /\ UNCHANGED <<slot, aborted>>

-----------------------------------------------------------------------------
\* withInstance(): loadInstance() found an instance and retained it.
Enter(t) ==
  /\ MayCall(t)
  /\ slot # None
  /\ Retain(slot)
  /\ Push(t, "with", slot)
  /\ UNCHANGED <<slot, life, aborted>>

\* withInstance() without an instance: Fn is not invoked, the caller goes on.
EnterNone(t) ==
  /\ MayCall(t)
  /\ slot = None
  /\ UNCHANGED vars

\* The callback returns and Held goes out of scope.
Leave(t) ==
  /\ ~aborted
  /\ OnTop(t, "with")
  /\ Release(Top(t).obj)
  /\ Pop(t)
  /\ UNCHANGED <<slot, aborted>>

-----------------------------------------------------------------------------
\* destroyInstance(): take the slot's Ref over.  An empty slot is an early
\* return, even when another thread is still draining the old instance.
Unpublish(t) ==
  /\ MayCall(t)
  /\ NDEBUG \/ WithInstanceDepth(t) = 0
  /\ slot # None
  /\ Push(t, "drain", slot)
  /\ slot' = None
  /\ UNCHANGED <<refCount, life, aborted>>

\* Debug builds: assert(WithInstanceDepth == 0).
DestroyAsserts(t) ==
  /\ MayCall(t)
  /\ ~NDEBUG
  /\ WithInstanceDepth(t) > 0
  /\ aborted' = TRUE
  /\ UNCHANGED <<slot, refCount, life, stack>>

\* while (instanceUseCount(Doomed) > 1) yield(): the loop is left.
SeeDrained(t) ==
  /\ ~aborted
  /\ OnTop(t, "drain")
  /\ refCount[Top(t).obj] <= 1
  /\ Become(t, "drained")
  /\ UNCHANGED <<slot, refCount, life, aborted>>

\* Doomed.reset().
Reset(t) ==
  /\ ~aborted
  /\ OnTop(t, "drained")
  /\ Release(Top(t).obj)
  /\ Pop(t)
  /\ UNCHANGED <<slot, aborted>>

\* The process is gone.
Dead == aborted /\ UNCHANGED vars

-----------------------------------------------------------------------------
Next ==
  \/ \E t \in Threads :
       \/ \E o \in Instances : Construct(t, o)
       \/ PublishWins(t) \/ PublishLoses(t) \/ CreatedTwice(t)
       \/ PublishReturns(t)
       \/ Enter(t) \/ EnterNone(t) \/ Leave(t)
       \/ Unpublish(t) \/ DestroyAsserts(t) \/ SeeDrained(t) \/ Reset(t)
  \/ Dead

(***************************************************************************)
(* Threads are scheduled, so every step inside the singleton's own code is *)
(* eventually taken.  Callbacks and constructors terminate: user code that *)
(* runs at nesting depth d cannot call back into the singleton for ever    *)
(* without returning, hence the strong fairness.  Nobody has to call       *)
(* anything.                                                               *)
(***************************************************************************)
UserCodeReturns(t, d) ==
  Len(stack[t]) = d /\ (Leave(t) \/ PublishWins(t) \/ PublishLoses(t))

Fairness ==
  \A t \in Threads :
    /\ WF_vars(CreatedTwice(t) \/ PublishReturns(t) \/ SeeDrained(t) \/ Reset(t))
    /\ \A d \in 1..MaxDepth : SF_vars(UserCodeReturns(t, d))

Spec == Init /\ [][Next]_vars
FairSpec == Spec /\ Fairness

-----------------------------------------------------------------------------
\* The places in the threads' call stacks where o is under a call of one of
\* these kinds.
Places(kinds, o) ==
  {p \in Threads \X (1..MaxDepth) :
     /\ p[2] <= Len(stack[p[1]])
     /\ stack[p[1]][p[2]].kind \in kinds
     /\ stack[p[1]][p[2]].obj = o}

Callbacks(o) == Places({"with"}, o)

\* How many: counted references outside the slot, destroyInstance() calls,
\* those past their spin loop, and constructors.
Count(kinds, o) == Cardinality(Places(kinds, o))
Holders(o) == Count(CountedKinds, o)
Drainers(o) == Count({"drain", "drained"}, o)
Drained(o) == Count({"drained"}, o)
Constructors(o) == Count({"ctor"}, o)

TypeOK ==
  /\ slot \in Instances \cup {None}
  /\ refCount \in [Instances -> Nat]
  /\ life \in [Instances -> {"unborn", "constructing", "live", "destroyed"}]
  /\ stack \in [Threads -> Seq(Activations)]
  /\ \A t \in Threads : Len(stack[t]) <= MaxDepth
  /\ aborted \in BOOLEAN

(***************************************************************************)
(* The count is exact at every step of every thread: it is what makes the  *)
(* unlocked spin of destroyInstance() a correct test for "no callback is   *)
(* running".                                                               *)
(***************************************************************************)
RefCountExact ==
  \A o \in Instances :
    refCount[o] = Holders(o) + (IF slot = o THEN 1 ELSE 0)

(***************************************************************************)
(* withInstance() "ensures the instance remains alive while it is being    *)
(* operated on": an object in the slot or under a running call has not     *)
(* been destroyed.                                                         *)
(***************************************************************************)
NoUseAfterDestroy ==
  \A o \in Instances : (slot = o \/ Holders(o) > 0) => life[o] = "live"

(***************************************************************************)
(* An instance that has left the slot belongs to exactly one               *)
(* destroyInstance() until it is destroyed: two concurrent calls never     *)
(* both drain it, and none leaves it behind with nobody to destroy it.     *)
(***************************************************************************)
OneDrainer ==
  \A o \in Instances :
    Drainers(o) = IF life[o] = "live" /\ slot # o THEN 1 ELSE 0

(***************************************************************************)
(* The inductive invariant.  ConstructingOnce: a constructor runs for each *)
(* unpublished object and for no other, so publish() never meets an object *)
(* that somebody holds already.  DrainedIsAlone: between the last test of  *)
(* the spin loop and Doomed.reset() nobody can take a reference, because   *)
(* the object is not in the slot.                                          *)
(***************************************************************************)
ConstructingOnce ==
  \A o \in Instances :
    Constructors(o) = IF life[o] = "constructing" THEN 1 ELSE 0

DrainedIsAlone ==
  \A o \in Instances : Drained(o) > 0 => refCount[o] = 1

IInv ==
  /\ TypeOK
  /\ RefCountExact
  /\ NoUseAfterDestroy
  /\ OneDrainer
  /\ ConstructingOnce
  /\ DrainedIsAlone

(***************************************************************************)
(* The destructor of a published instance runs on the thread inside        *)
(* destroyInstance(), never on an application thread that happens to leave *)
(* an API wrapper last.                                                    *)
(***************************************************************************)
OnlyDestroyerDestroys ==
  [][\A o \in Instances :
       (life[o] = "live" /\ life'[o] = "destroyed") =>
          \E t \in Threads : OnTop(t, "drained") /\ Top(t).obj = o]_vars

(***************************************************************************)
(* destroyInstance() returns: a retired instance is eventually destroyed,  *)
(* although withInstance() goes on being called, unless the process dies.  *)
(***************************************************************************)
DrainTerminates ==
  \A o \in Instances :
    (life[o] = "live" /\ slot # o) ~> (life[o] = "destroyed" \/ aborted)

-----------------------------------------------------------------------------
\* The refinement mapping.
AbstractPhase(o) ==
  IF life[o] = "live" THEN (IF slot = o THEN "published" ELSE "retired")
                      ELSE life[o]

Lifetime == INSTANCE InstanceLifetime WITH
  Users   <- Threads \X (1..MaxDepth),
  current <- slot,
  phase   <- [o \in Instances |-> AbstractPhase(o)],
  users   <- [o \in Instances |-> Callbacks(o)]

\* Reference counting implements the lifetime that InstanceLifetime promises.
ImplementsLifetime == Lifetime!Spec

=============================================================================
