-------------------------- MODULE MCKernelPrologue --------------------------
(* Small kernels: the user and system values, the work-item ids, the fields   *)
(* and the preloaded arguments of a descriptor, on sub-targets of five        *)
(* kinds, with what the payloads of the kernel ask for.                 *)
EXTENDS KernelPrologue

Target(gen, archfs, flat, archsgprs, packed) ==
  [gen |-> gen, archfs |-> archfs, flat |-> flat, archsgprs |-> archsgprs, packed |-> packed]
Gfx9   == Target(9, FALSE, FALSE, FALSE, FALSE)
Gfx940 == Target(9, TRUE, TRUE, FALSE, TRUE)
Gfx10  == Target(10, FALSE, TRUE, FALSE, FALSE)
Gfx11  == Target(11, TRUE, TRUE, FALSE, TRUE)
Gfx12  == Target(12, TRUE, TRUE, TRUE, TRUE)

V(n) == [kind |-> "SVS_SINGLE_VGPR", vgpr |-> n]
A2   == [kind |-> "SVS_TWO_AGPRs", agpr |-> 0, temp |-> 1]
S1   == [kind |-> "SVS_SPILLED_WITH_ONE_SGPR_architected_fs", sp |-> 20]

NoPayload == [args |-> {}, complete |-> TRUE, queue |-> FALSE, frame |-> FALSE]
Asking(args, frame) == [NoPayload EXCEPT !.args = args, !.frame = frame]

Payloads ==
  {Asking(args, frame) : args \in {{}, {"KERNEL_ARG_PTR"}, {"DISPATCH_PTR", "WORKITEM_ID_Y"},
                                   {"WORKGROUP_ID_X", "QUEUE_PTR"}, {"DISPATCH_ID"},
                                   {"WORK_ITEM_PRIVATE_SEGMENT_SIZE", "WORKITEM_ID_X"},
                                   {"IMPLICIT_ARG_BUFFER", "KERNEL_ARG_PTR", "WORKITEM_ID_X"}},
                         frame \in BOOLEAN}
  \cup {[NoPayload EXCEPT !.args = {"IMPLICIT_ARG_BUFFER"}, !.queue = TRUE],
        [NoPayload EXCEPT !.args = {"IMPLICIT_ARG_BUFFER"}, !.complete = FALSE],
        [NoPayload EXCEPT !.complete = FALSE],
        Asking({PSB, "FLAT_SCRATCH"}, FALSE), Asking({PSB, "FLAT_SCRATCH"}, TRUE)}

Base == [user |-> {}, system |-> {"wgx"}, workitem |-> 0, denorm |-> 0, modes |-> {},
         bits |-> {}, preload |-> 0, kernarg |-> TRUE, dynamic |-> FALSE, storage |-> V(3)]

Users == {{"kernarg"}, {"kernarg", "flat_scratch"}, {"queue_ptr"}, {"dispatch_ptr", "queue_ptr", "kernarg", "dispatch_id"},
          {"kernarg", "pss"}, {"kernarg", "psb"}, {}}
Fields ==
  {[Base EXCEPT !.workitem = w, !.denorm = d, !.modes = m, !.system = sy, !.user = {"kernarg"}] :
     w \in 0 .. 3, d \in 0 .. 3, m \in {{}, {"ieee"}, {"dx10-clamp", "ieee"}},
     sy \in {{}, {"wgx", "wgz"}, {"wgx", "wgy", "wgz", "wginfo"}}}
Values(st) ==
  {[Base EXCEPT !.workitem = w, !.preload = n, !.kernarg = a, !.dynamic = y,
                !.user = u \cup (IF st.archfs \/ st.flat THEN {} ELSE {"psb"})] :
     w \in {0, 2}, u \in Users, n \in (IF st = Gfx940 THEN {0, 2, 11} ELSE {0}),
     a \in BOOLEAN, y \in BOOLEAN}
Storages == {[Base EXCEPT !.user = {"kernarg"}, !.storage = s] : s \in {V(1), A2, S1}}
Bits == {[Base EXCEPT !.bits = b] : b \in {{"float_round_mode_32"}, {"mem_ordered", "fwd_progress"}}}

Combine(k, st, p) ==
  k @@ [st |-> st, payload |-> p]

Small ==
  {Combine(k, st, NoPayload) : k \in Fields \cup Bits, st \in {Gfx9, Gfx940, Gfx10, Gfx11, Gfx12}}
  \cup UNION {{Combine(k, st, p) : k \in Values(st) \cup Storages, p \in Payloads} :
               st \in {Gfx9, Gfx940, Gfx10, Gfx12}}

-----------------------------------------------------------------------------
(* The hardware and the compiler exclude the kernels that are not possible.   *)

Possible(k) ==
  /\ Count(k.user) + k.preload <= 16
  /\ k.st.archfs => k.user \cap {"psb", "flat_scratch"} = {}
  /\ k.st.gen >= 12 => k.modes = {}
  /\ k.preload > 0 => k.st = Gfx940 /\ k.kernarg
  /\ InTwoAGPRs(k.storage) => k.st.gen = 9

SmallKernels == {k \in Small : Possible(k)}
=============================================================================
