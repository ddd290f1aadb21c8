-------------------------- MODULE InstanceLifetime --------------------------
(***************************************************************************)
(* What luthier::Singleton promises the code written on top of it, with no *)
(* reference counts, slots or call stacks: an instance is constructed,     *)
(* published, retired and destroyed in that order; callbacks enter only    *)
(* the published instance; and the destructor waits for every callback.    *)
(* Module Singleton is shown to implement this specification.              *)
(***************************************************************************)
CONSTANTS
  Instances,  \* every object createInstance() may ever build
  Users,      \* activations of withInstance() callbacks
  None        \* the empty slot; no instance

VARIABLES
  current,    \* the published instance, or None
  phase,      \* phase[o]: where o is in its life
  users       \* users[o]: the callbacks running against o

vars == <<current, phase, users>>

Phases == {"unborn", "constructing", "published", "retired", "destroyed"}

TypeOK ==
  /\ current \in Instances \cup {None}
  /\ phase \in [Instances -> Phases]
  /\ users \in [Instances -> SUBSET Users]

Init ==
  /\ current = None
  /\ phase = [o \in Instances |-> "unborn"]
  /\ users = [o \in Instances |-> {}]

Construct(o) ==
  /\ phase[o] = "unborn"
  /\ phase' = [phase EXCEPT ![o] = "constructing"]
  /\ UNCHANGED <<current, users>>

Publish(o) ==
  /\ phase[o] = "constructing"
  /\ current = None
  /\ current' = o
  /\ phase' = [phase EXCEPT ![o] = "published"]
  /\ UNCHANGED users

\* A second createInstance(): its object is never seen by anyone.
Discard(o) ==
  /\ phase[o] = "constructing"
  /\ phase' = [phase EXCEPT ![o] = "destroyed"]
  /\ UNCHANGED <<current, users>>

Enter(o, u) ==
  /\ current = o
  /\ users' = [users EXCEPT ![o] = @ \cup {u}]
  /\ UNCHANGED <<current, phase>>

Leave(o, u) ==
  /\ u \in users[o]
  /\ users' = [users EXCEPT ![o] = @ \ {u}]
  /\ UNCHANGED <<current, phase>>

Retire(o) ==
  /\ current = o
  /\ current' = None
  /\ phase' = [phase EXCEPT ![o] = "retired"]
  /\ UNCHANGED users

Destroy(o) ==
  /\ phase[o] = "retired"
  /\ users[o] = {}
  /\ phase' = [phase EXCEPT ![o] = "destroyed"]
  /\ UNCHANGED <<current, users>>

Next ==
  \E o \in Instances :
    \/ Construct(o) \/ Publish(o) \/ Discard(o) \/ Retire(o) \/ Destroy(o)
    \/ \E u \in Users : Enter(o, u) \/ Leave(o, u)

Spec == Init /\ [][Next]_vars

=============================================================================
