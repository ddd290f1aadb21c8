--------------------------- MODULE MCRegisterFile ---------------------------
(* Small kernels on sub-targets of five kinds, a handful of registers of each *)
(* file, and a few moves between them.                                        *)
EXTENDS RegisterFile

Target(gen, archfs, flat, archsgprs, packed, wave64, mai) ==
  [gen |-> gen, archfs |-> archfs, flat |-> flat, archsgprs |-> archsgprs, packed |-> packed,
   wave64 |-> wave64, mai |-> mai]
Targets == {Target(9, FALSE, FALSE, FALSE, FALSE, TRUE, FALSE), Target(9, TRUE, TRUE, FALSE, TRUE, TRUE, TRUE),
            Target(10, FALSE, TRUE, FALSE, FALSE, FALSE, FALSE), Target(11, TRUE, TRUE, FALSE, TRUE, FALSE, FALSE),
            Target(12, TRUE, TRUE, TRUE, TRUE, FALSE, FALSE)}

Kernel(t, user, system, workitem, preload, sgprs) ==
  [st |-> t, user |-> user \cup (IF t.archfs \/ t.flat THEN {} ELSE {"psb"}), system |-> system,
   workitem |-> workitem, denorm |-> workitem, modes |-> IF t.gen >= 12 THEN {} ELSE {"ieee"},
   bits |-> {}, preload |-> preload, offset |-> 1, kernarg |-> TRUE, dynamic |-> FALSE,
   sgprs |-> sgprs, vgprs |-> 4, payload |-> <<>>]

All ==
  {Kernel(t, u, sy, w, n, g) :
     t \in Targets, u \in {{"kernarg"}, {"dispatch_ptr", "kernarg", "dispatch_id"}},
     sy \in {{"wgx", "wgz"}, {"wgx", "wgy", "wgz"}}, w \in {0, 2}, n \in {0, 2}, g \in {16}}
  \cup {Kernel(t, {"dispatch_ptr", "queue_ptr", "kernarg", "dispatch_id"}, {"wgx", "wgy", "wgz"}, 1, 0, g) :
          t \in Targets, g \in {16, 24}}
  \cup {[Kernel(t, {"kernarg"}, {"wgx"}, 0, 0, 16) EXCEPT !.bits = {"float_round_mode_32"}] : t \in Targets}

LoadedUpTo(k) == Max({Loaded(Original(k))[c] + Registers(c) : c \in DOMAIN Loaded(Original(k))})
Possible(k) == (k.preload > 0 => k.st.mai) /\ LoadedUpTo(k) <= k.sgprs /\ (k.st.gen >= 10 => k.sgprs = 16)
MCKernels == {k \in All : Possible(k)}

Scalars(k) == IF k.st.gen < 10 THEN 0 .. k.sgprs - 1 ELSE (0 .. 15) \cup {104, 105}
KernelNames(k) ==
  {Reg("s", i, 1) : i \in Scalars(k)} \cup {Reg("s", i, 2) : i \in {i \in Scalars(k) : i % 2 = 0}}
  \cup {Reg("vcc", 0, 2), Reg("vcc", 0, 1), Reg("scc", 0, 1), Reg("vccz", 0, 1), Reg("execz", 0, 1)}
  \cup {Reg("exec", 0, 1), Reg("exec", 1, 1), Reg("exec", 0, 2), Reg("mode", 0, 1)}
  \cup {Reg("ttmp", i, 1) : i \in {0, 7, 9, 15}} \cup {Reg("shared_base", 0, 1)}
  \cup {Reg("v", i, 1) : i \in 0 .. 3} \cup {Reg("v", 2, 2), Reg("v", 0, 4)}
  \cup {HalfOf("v", i, h) : i \in {0, 3}, h \in {0, 1}}
  \cup (IF k.st.mai THEN {Reg("a", i, 1) : i \in 0 .. 3} ELSE {})
  \cup (IF k.st.gen >= 10 THEN {Reg("null", 0, 1)}
        ELSE {Reg("xnack_mask", 0, 2), Reg("xnack_mask", 0, 1), Reg("xnack_mask", 1, 1),
              Reg("flat_scr", 0, 2), Reg("flat_scr", 1, 1)})
  \cup {Reg("vcc", 1, 1), Reg("m0", 0, 1), Reg("shared_base", 0, 2)}
  \cup {Reg("shared_limit", 0, 1), Reg("shared_limit", 0, 2), Reg("private_base", 0, 1)}

Pairs(k) ==
  {<<Reg("s", 1, 1), Reg("s", 3, 1)>>, <<Reg("s", 2, 1), Reg("vcc", 0, 1)>>,
   <<Reg("s", 2, 2), Reg("s", 0, 2)>>, <<Reg("vcc", 0, 2), Reg("s", 2, 2)>>,
   <<Reg("s", 4, 2), Reg("exec", 0, 2)>>, <<Reg("vcc", 1, 1), Reg("s", 1, 1)>>,
   <<Reg("s", 3, 1), Reg("vcc", 1, 1)>>}
  \cup (IF k.st.gen = 9 THEN {<<Reg("v", 1, 1), Reg("v", 0, 1)>>, <<Reg("v", 3, 1), Reg("v", 2, 1)>>}
        ELSE {<<Reg("v", 2, 2), Reg("v", 0, 2)>>, <<Reg("v", 1, 1), Reg("v", 3, 1)>>})
=============================================================================
