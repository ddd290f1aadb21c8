---------------------------- MODULE MCSvaHandoff ----------------------------
(* A kernel that calls a device function, which may loop before it ends the  *)
(* program or returns; both use what registers they are told to.             *)
EXTENDS SvaHandoff

MCBank == [v |-> <<"v0", "v1", "v2">>, a |-> <<"a0", "a1", "a2", "a3">>,
           s |-> <<"s0", "s1", "s2", "s3">>]
Vs == ToSet(MCBank.v)
As == ToSet(MCBank.a)
Ss == ToSet(MCBank.s)

Plain(use, def) == [op |-> "plain", use |-> use, def |-> def, callee |-> 0, hook |-> FALSE]
Hook   == [op |-> "plain", use |-> {}, def |-> {}, callee |-> 0, hook |-> TRUE]
Ins(op) == [op |-> op, use |-> {}, def |-> {}, callee |-> 2, hook |-> FALSE]
Block(vector, succ, code) == [vector |-> vector, succ |-> succ, code |-> code]
NoCap == [v |-> 9, a |-> 9, s |-> 9]

Kernel(uses, back, after) ==
  [kernel |-> TRUE, cap |-> NoCap,
   blocks |-> <<Block(FALSE, {2}, <<Plain({}, uses), Hook>>),
                Block(TRUE, back, <<Plain({}, uses), Ins("call")>>),
                Block(TRUE, {}, <<Plain(after, {}), Hook, Ins("end")>>)>>]

\* The function reads what the kernel passes before it writes.
Device(passed, uses, end) ==
  [kernel |-> FALSE, cap |-> NoCap,
   blocks |-> <<Block(FALSE, {2}, <<Plain(passed, uses), Hook>>),
                Block(TRUE, {2, 3}, <<Hook, Plain(uses, uses)>>),
                Block(FALSE, {}, <<Plain(uses, {}), Ins(end)>>)>>]

Target(st, k, d, passed, end) ==
  [st |-> st,
   fns |-> <<Kernel(k, IF end = "ret" THEN {3} ELSE {}, k), Device(passed \cap k \cap d, d, end)>>]

GFX908 == [mai |-> TRUE,  gfx90a |-> FALSE, archfs |-> FALSE]
GFX90A == [mai |-> TRUE,  gfx90a |-> TRUE,  archfs |-> FALSE]
GFX11  == [mai |-> FALSE, gfx90a |-> FALSE, archfs |-> TRUE]

\* One location suits both functions: each scheme comes up for some target.  An
\* accumulation register other than the storage's is left free for the hooks.
FixedTargets ==
  {t \in {Target(st, Vs \cup u[1], Vs \cup u[2], {"v0"}, end) :
            st \in {GFX908, GFX90A, GFX11}, end \in {"ret", "end"},
            u \in {<<{}, {"s0"}>>, <<{"a0"}, {"s0"}>>, <<{"a0", "a2"}, {"a0", "a3"}>>,
                   <<As \cup {"s0"}, As>>}}
         \cup {Target(GFX90A, k, d, {"v0"}, "ret") : k, d \in {{"v0"}, {"v1"}, {"v0", "a0"}}} :
     findFixedStateValueArrayStorage(t) # NoStorage}

\* None does: the array changes places at the call, and the callee ends it all.
RelayTargets ==
  {Target(GFX11, k \cup Ss, d \cup Ss, p, "end") :
     k \in {{"v0", "v1"}, {"v0", "v2"}}, d \in {{"v0", "v1"}, {"v0", "v2"}, {"v0"}},
     p \in {{}, {"v0"}}}

\* Nor here, but the callee returns, perhaps to be called again, and the kernel
\* still needs some of its registers: one it keeps in the callee's storage is
\* live there, so that the callee is cut into segments at each instruction.
ReturningTargets ==
  {[st |-> GFX11,
    fns |-> <<Kernel(u[1] \cup Ss, back, after), Device({"v0"}, u[2] \cup Ss, "ret")>>] :
     u \in {<<{"v0", "v1"}, {"v0", "v2"}>>, <<{"v0", "v2"}, {"v0", "v1"}>>},
     back \in {{3}, {2, 3}}, after \in {{"v0"}, {"v0", "v1"}, {"v0", "v2"}}}

MCTargets == FixedTargets \cup RelayTargets \cup ReturningTargets
=============================================================================
