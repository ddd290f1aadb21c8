---------------------------- MODULE KernelEntry ----------------------------
(***************************************************************************)
(* The descriptor of the kernel a prototype starts at, from the original   *)
(* through the lifted function to the descriptor that is printed for the   *)
(* instrumented one (CodeDiscoveryPass), and where the hardware puts what  *)
(* a descriptor asks for.                                                  *)
(*                                                                         *)
(* A kernel is a record                                                    *)
(*   st      : [gen, archfs, flat, archsgprs, packed], the sub-target      *)
(*   user, system : the classes of values its descriptor enables           *)
(*   workitem : the field ENABLE_VGPR_WORKITEM_ID                          *)
(*   denorm  : the field FLOAT_DENORM_MODE_32                              *)
(*   modes   : its one-bit fields an attribute of LLVM stands for          *)
(*   bits    : its other fields that are set                               *)
(*   preload : the number of kernel arguments it has preloaded             *)
(*   kernarg : whether it has kernel arguments at all                      *)
(*   dynamic : whether it has a stack that grows                           *)
(* and says in payload what the functions injected into it need.           *)
(***************************************************************************)
EXTENDS Integers, FiniteSets, SequencesExt, FiniteSetsExt

CONSTANT Kernels

VARIABLES
  K,       \* the kernel
  stage,   \* how far its processing is
  attrs,   \* the attributes of the lifted function
  info,    \* its SIMachineFunctionInfo
  printed  \* the descriptor that is printed

entryVars == <<K, stage, attrs, info, printed>>

-----------------------------------------------------------------------------
(* What the hardware loads at the start of a wave.                          *)

\* The values for scalar registers, in the order of the registers.
UserClasses   == <<"psb", "dispatch_ptr", "queue_ptr", "kernarg", "dispatch_id",
                   "flat_scratch", "pss">>
SystemClasses == <<"wgx", "wgy", "wgz", "wginfo", "pswo">>

Registers(c) ==
  CASE c = "psb" -> 4 [] c \in ToSet(SystemClasses) \cup {"pss"} -> 1 [] OTHER -> 2
Count(S) == MapThenSumSet(Registers, S)

\* The classes of S one after the other from a register on.
Place(order, S, first) ==
  [c \in S |-> first + Count({d \in S : \E i, j \in DOMAIN order :
                                           i < j /\ order[i] = d /\ order[j] = c})]

\* The scalar registers a descriptor loads: the user values, the preloaded
\* arguments, then from the register after its user count on the system values.
Loaded(d) ==
  Place(UserClasses, d.user, 0) @@ Place(SystemClasses, d.system, d.count)
PreloadedAt(d) == Count(d.user)

\* The wave byte offset is loaded wherever there is no architected flat scratch.
SystemOf(k) == (IF k.st.archsgprs THEN k.system \ {"wgx", "wgy", "wgz"} ELSE k.system)
               \cup (IF k.st.archfs THEN {} ELSE {"pswo"})
Original(k) ==
  [user |-> k.user, system |-> SystemOf(k), count |-> Count(k.user) + k.preload,
   workitem |-> k.workitem, denorm |-> k.denorm, modes |-> k.modes, bits |-> k.bits,
   preload |-> k.preload]

-----------------------------------------------------------------------------
(* The lifted function.                                                     *)

NoInfo == [at |-> <<>>, user |-> 0, system |-> 0, enabled |-> {}, sys |-> {},
           workitem |-> 0, denorm |-> 0, modes |-> {}, preload |-> 0]

\* Attributes for a field that is not set, one for each of its names.
Unless(set, names) == IF set THEN {} ELSE names

\* The fields of each of the three words that have no attribute of LLVM; a copy
\* is kept in amdgpu.kd.* attributes.
CapturedRsrc1(st) ==
  {"float_round_mode_32", "float_round_mode_16_64"}
    \cup (IF st.gen >= 12 THEN {"enable_wg_rr_en", "disable_perf"} ELSE {})
    \cup (IF st.gen >= 9 THEN {"fp16_ovfl"} ELSE {})
    \cup (IF st.gen = 125 THEN {"flat_scratch_is_nv"} ELSE {})
    \cup (IF st.gen >= 10 THEN {"mem_ordered", "fwd_progress"} ELSE {})

CapturedRsrc2(st) ==
  {"enable_private_segment", "user_sgpr_count", "enable_sgpr_workgroup_info",
   "enable_exception_address_watch", "enable_exception_memory", "enable_exception_fp",
   "enable_exception_int_divide_by_zero"}
    \cup (IF st.gen < 12 THEN {"enable_trap_handler"} ELSE {})
    \cup (IF st.gen = 12 THEN {"enable_dynamic_vgpr"} ELSE {})

CapturedRsrc3(st) ==
  (IF st.gen \in {10, 11} THEN {"shared_vgpr_count"} ELSE {})
    \cup (IF st.gen >= 11 THEN {"inst_pref_size", "image_op"} ELSE {})
    \cup (IF st.gen >= 12 THEN {"glg_en"} ELSE {})
    \cup (IF st.gen = 125 THEN {"named_bar_cnt", "enable_dynamic_vgpr", "tcp_split",
                                "enable_didt_throttle"} ELSE {})

Copies(fields) == {<<"kd", bit>> : bit \in K.bits \cap fields}

\* The two modes of a denormal field, <<output, input>>.
DenormModes(field) ==
  <<IF field \in {0, 1} THEN "preserve-sign" ELSE "ieee",
    IF field \in {0, 2} THEN "preserve-sign" ELSE "ieee">>

parseKDRsrc1 ==
  /\ stage = "rsrc1"
  /\ attrs' = attrs \cup {<<"denormal-fp-math-f32", DenormModes(K.denorm)>>}
       \cup {<<"true", mode>> : mode \in K.modes \cap
              (IF K.st.gen < 12 THEN {"dx10-clamp", "ieee"} ELSE {})}
       \cup Copies(CapturedRsrc1(K.st))
  /\ stage' = "rsrc2"
  /\ UNCHANGED <<K, info, printed>>

\* A workgroup id stays enabled unless the cluster id of its dimension is off, too.
WorkgroupAttrs(k) ==
  UNION {Unless(wg \in k.system, {<<"no", wg>>, <<"no cluster", wg>>}) :
           wg \in {"wgx", "wgy", "wgz"}}

parseKDRsrc2 ==
  /\ stage = "rsrc2"
  /\ attrs' = attrs \cup WorkgroupAttrs(K)
                    \cup Unless(K.workitem # 0, {<<"no", "wiy">>})
                    \cup Unless(K.workitem = 2, {<<"no", "wiz">>})
                    \cup Copies(CapturedRsrc2(K.st))
  /\ stage' = IF K.workitem = 3 THEN "failed" ELSE "rsrc3"
  /\ UNCHANGED <<K, info, printed>>

parseKDRsrc3 ==
  /\ stage = "rsrc3"
  /\ attrs' = attrs \cup Copies(CapturedRsrc3(K.st))
  /\ stage' = "code attrs"
  /\ UNCHANGED <<K, info, printed>>

\* Before the function gets its machine function: nothing here is about the
\* private segment buffer and size.
parseKDKernelCodeAttrs ==
  /\ stage = "code attrs"
  /\ attrs' = attrs \cup
       UNION {Unless(c \in K.user, {<<"no", c>>}) :
                c \in {"dispatch_ptr", "queue_ptr", "kernarg", "dispatch_id"}}
       \cup Unless("flat_scratch" \in K.user /\ ~K.st.archfs, {<<"no", "flat_scratch">>})
  /\ stage' = "create"
  /\ UNCHANGED <<K, info, printed>>

\* LLVM reads the attributes when it makes the machine function, and only then.
Off(c) == <<"no", c>> \in attrs
FromAttributes(k) ==
  [NoInfo EXCEPT
     !.enabled  = {c \in {"dispatch_ptr", "queue_ptr", "kernarg", "dispatch_id"} : ~Off(c)}
                    \cup (IF k.st.archfs \/ Off("flat_scratch") THEN {} ELSE {"flat_scratch"})
                    \cup (IF k.st.archfs \/ k.st.flat THEN {} ELSE {"psb"}),
     !.sys      = {wg \in {"wgx", "wgy", "wgz"} :
                     ~Off(wg) \/ <<"no cluster", wg>> \notin attrs},
     !.workitem = IF ~Off("wiz") THEN 2 ELSE IF ~Off("wiy") THEN 1 ELSE 0,
     !.denorm   = CHOOSE d \in 0 .. 3 : <<"denormal-fp-math-f32", DenormModes(d)>> \in attrs,
     !.modes    = {a[2] : a \in {a \in attrs : a[1] = "true"}}]

CreateMachineFunction ==
  /\ stage = "create"
  /\ info' = FromAttributes(K)
  /\ stage' = "code"
  /\ UNCHANGED <<K, attrs, printed>>

\* The next free user register, or the next free system register.
addUser(i, c) ==
  [i EXCEPT !.at = (c :> i.user) @@ @, !.user = @ + Registers(c)]
addSystem(i, c) ==
  [i EXCEPT !.at = (c :> i.user + i.system) @@ @, !.system = @ + 1]

InOrder(order, S) == SelectSeq(order, LAMBDA c : c \in S)

\* The user values of the descriptor, FLAT_SCRATCH_INIT on the sub-targets that
\* have it architected and the buffer on the others.
parseKDKernelCode ==
  /\ stage = "code"
  /\ info' = FoldLeft(addUser, info,
       InOrder(UserClasses,
         K.user \ (IF K.st.archfs THEN {"psb"} ELSE {"flat_scratch"})))
  /\ stage' = "preload"
  /\ UNCHANGED <<K, attrs, printed>>

\* As AfterPreload, were the registers of the arguments not counted.
AfterPreload_uncounted(i, k) == [i EXCEPT !.preload = k.preload]

AfterPreload(i, k) == [i EXCEPT !.preload = k.preload, !.user = @ + k.preload]

\* Preloaded arguments, work-item ids and system values.
initKernelEntryPointFunction ==
  /\ stage = "preload"
  /\ info' = FoldLeft(addSystem, AfterPreload(info, K),
       InOrder(SystemClasses,
         (IF K.st.archsgprs THEN {} ELSE {wg \in {"wgx", "wgy", "wgz"} : ~Off(wg)})
           \cup (K.system \cap {"wginfo"})
           \cup (IF K.st.archfs THEN {} ELSE {"pswo"})))
  /\ stage' = "lifted"
  /\ UNCHANGED <<K, attrs, printed>>

-----------------------------------------------------------------------------
(* The printed descriptor: LLVM's printer takes what to load from the usage *)
(* flags, not from the registers, and writes the captured fields as it sees *)
(* fit.                                                                     *)

EmitDescriptor ==
  /\ stage = "patched"
  /\ printed' =
       <<[user |-> info.enabled,
          system |-> (IF K.st.archsgprs THEN {} ELSE info.sys)
                       \cup (IF K.st.archfs THEN {} ELSE {"pswo"}),
          count |-> info.user, workitem |-> info.workitem, denorm |-> info.denorm,
          modes |-> info.modes, preload |-> info.preload,
          bits |-> IF K.st.gen >= 10 THEN {"mem_ordered", "fwd_progress"} ELSE {}]>>
  /\ stage' = "printed"
  /\ UNCHANGED <<K, attrs, info>>

EntryInit ==
  /\ K \in Kernels /\ stage = "rsrc1" /\ attrs = {} /\ info = NoInfo /\ printed = <<>>

Lift == \/ parseKDRsrc1 \/ parseKDRsrc2 \/ parseKDRsrc3 \/ parseKDKernelCodeAttrs
        \/ CreateMachineFunction \/ parseKDKernelCode \/ initKernelEntryPointFunction

-----------------------------------------------------------------------------
(* Properties.                                                              *)

\* In front of c in the order of the registers.
InFront(b, c) == LET order == UserClasses \o SystemClasses
                 IN \E i, j \in DOMAIN order : i < j /\ order[i] = b /\ order[j] = c

\* The payloads need something of the prologue.
Injected == K.payload.args # {} \/ K.payload.frame \/ ~K.payload.complete

\* Each register the lifted function believes to hold a value is the one the
\* original descriptor has it loaded into, and it knows of every value.  Only
\* FLAT_SCRATCH_INIT is not known where it is loaded, for parseKDKernelCode looks
\* for it where it cannot be; what is behind it is believed two registers too low.
ArgInfoIsHardware ==
  stage = "lifted" =>
    /\ DOMAIN info.at = DOMAIN Loaded(Original(K)) \ {"flat_scratch"}
    /\ \A c \in DOMAIN info.at :
         info.at[c] = Loaded(Original(K))[c]
                      - (IF "flat_scratch" \in K.user /\ InFront("flat_scratch", c) THEN 2 ELSE 0)

\* The fields that an attribute stands for come back in the printed descriptor
\* as they were, and unless the prologue asked for more, so do the values to load.
\* LLVM has the buffer loaded where scratch is reached through it, whatever the
\* descriptor says, and the private segment size and the workgroup info not at all.
DescriptorRoundTrip ==
  printed # <<>> =>
    \E asked \in {(K.user \ {"psb", "pss"})
                   \cup (IF K.st.archfs \/ K.st.flat THEN {} ELSE {"psb"})} :
      /\ \A f \in {"denorm", "modes", "workitem"} : printed[1][f] = Original(K)[f]
      /\ asked \subseteq printed[1].user /\ (~Injected => printed[1].user = asked)
      /\ printed[1].system = Original(K).system \ {"wginfo"}
=============================================================================
