----------------------------- MODULE MCPayload ------------------------------
(* Small payloads: those that access general registers across a line, a loop,*)
(* a fork and a diamond of blocks, and those that access frame registers and  *)
(* lanes of the SVA, on the three kinds of sub-target.                        *)
EXTENDS Payload

Do(k, r) == <<[k |-> k, r |-> r]>>

\* The ways in which at most one operation from the pool goes into each block.
Fill(succ, pools) ==
  {[b \in DOMAIN succ |-> [ops |-> ops[b], succ |-> succ[b]]] :
     ops \in {f \in [DOMAIN succ -> UNION Range(pools)] : \A b \in DOMAIN succ : f[b] \in pools[b]}}

Line    == <<{2}, {}>>
Loop    == <<{2}, {2, 3}, {}>>
Fork    == <<{2, 3}, {}, {}>>
Diamond == <<{2, 3}, {4}, {4}, {}>>

Buffer     == [flat |-> FALSE, archfs |-> FALSE]
FlatScratch == [flat |-> TRUE, archfs |-> FALSE]
Architected == [flat |-> TRUE, archfs |-> TRUE]

Make(blocks, live, st, agree, frame, spilled, kernel) ==
  [blocks |-> blocks, live |-> live, st |-> st, agree |-> agree, frame |-> frame,
   spilled |-> spilled, kernel |-> kernel]

None == {<<>>}
GeneralOps == None \cup {Do("read", "a"), Do("write", "a"), Do("half", "a"), Do("write", "ab")}
EntryOps == None \cup {Do("write", "a"), Do("read", "ab"),
                       Do("write", "a") \o Do("read", "b"), Do("write", "a") \o Do("read", "a")}
LaterOps == GeneralOps \cup {Do("write", "a") \o Do("read", "ab"),
                             Do("write", "a") \o Do("half", "a")}

GeneralBlocks ==
  Fill(Line, <<EntryOps, LaterOps>>)
  \cup Fill(Loop, <<EntryOps, LaterOps, GeneralOps>>)
  \cup Fill(Fork, <<EntryOps, GeneralOps, GeneralOps>>)
  \cup Fill(Diamond, <<EntryOps, None \cup {Do("write", "a")}, GeneralOps, GeneralOps>>)

GeneralPayloads ==
  {Make(blocks, live, Buffer, TRUE, frame, FALSE, TRUE) :
     blocks \in GeneralBlocks, live \in {{}, {"a"}, {"a", "b", "ab"}}, frame \in {"none", "calls"}}

FrameOps ==
  None \cup {Do("read", "sp"), Do("write", "sp"), Do("write", "fp"), Do("read", "psb1"),
             Do("write", "psb0"), Do("read", "fs_hi"), Do("read", "fs"), Do("write", "fs"),
             Do("sva", "KERNEL_ARG_PTR"), Do("sva", "WORKGROUP_ID_X"),
             Do("write", "fs_hi") \o Do("sva", "DISPATCH_PTR")}

LateFrameOps ==
  None \cup {Do("read", "sp"), Do("write", "fp"), Do("read", "psb1"), Do("write", "psb0"),
             Do("read", "fs_hi"), Do("read", "fs"), Do("sva", "WORKGROUP_ID_X"),
             Do("write", "sp") \o Do("read", "sp")}

FrameBlocks == Fill(Line, <<FrameOps, LateFrameOps>>)

PsbLive == {"psb", "psb0", "psb1"}
FsLive  == {"fs", "fs_lo", "fs_hi"}
FrameLive == {{}, {"sp"}, {"psb0"}, {"a", "sp", "fp"} \cup PsbLive \cup FsLive}

FramePayloads ==
  {Make(blocks, live, st, agree, frame, spilled, kernel) :
     blocks \in FrameBlocks, live \in FrameLive, st \in {Buffer, FlatScratch, Architected},
     agree \in BOOLEAN, frame \in {"none", "calls"}, spilled \in BOOLEAN, kernel \in {TRUE}}

SmallPayloads == GeneralPayloads \cup FramePayloads
=============================================================================
