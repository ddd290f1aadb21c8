----------------------------- MODULE MCAnalyses -----------------------------
(* A kernel (function 1) with a scalar block, a vector block and a block     *)
(* that calls, and two functions of one block that end in a call each.  The  *)
(* calls take the values below as callee and as argument; a prototype is     *)
(*   functions, kernels, initial, allocatable : the functions                *)
(*   values : [op, of, c]; sites : [fn, block, direct, callee, arg, writes]  *)
(*   blocks : [fn, first, vector, skip, succ, code], code : Seq[use, def].   *)
EXTENDS Liveness

V(op, of, c) == [op |-> op, of |-> of, c |-> c]
None == <<"none", 0>>
Values == <<V("const", {}, <<"fn", 2>>), V("const", {}, <<"addr", 3>>), V("arg", {}, None),
            V("phi", {1, 5}, None), V("unknown", {}, None), V("cast", {3}, None),
            V("phi", {1, 2}, None), V("add", {9}, 1), V("const", {}, <<"addr", 1>>),
            V("const", {}, <<"fn", 9>>)>>

Site(f, b, d, c, a, w) == [fn |-> f, block |-> b, direct |-> d, callee |-> c, arg |-> a, writes |-> w]
MI(u, d) == [use |-> u, def |-> d]
Block(f, first, v, skip, succ, code) ==
  [fn |-> f, first |-> first, vector |-> v, skip |-> skip, succ |-> succ, code |-> code]

Prototype(k, callee, forwarded, leaf, writes, shape, initial) ==
  [functions |-> 3, kernels |-> {1}, initial |-> initial,
   allocatable |-> <<{"s", "v"}, {"s", "v"}, {"s", "v"}>>,
   values |-> Values,
   sites |-> <<Site(1, 3, 0, callee, k, {}), Site(2, 4, 0, forwarded, 2, writes),
               Site(3, 5, leaf, 3, 5, {})>>,
   blocks |-> <<Block(1, TRUE, FALSE, FALSE, shape.first, <<MI({}, {"s"})>>),
                Block(1, FALSE, TRUE, shape.skip, shape.second, <<MI({}, {"v"})>>),
                Block(1, FALSE, FALSE, FALSE, {}, <<MI({"s"}, {})>>),
                Block(2, TRUE, shape.callee, TRUE, {}, <<MI({"s"}, {"v"})>>),
                Block(3, TRUE, TRUE, TRUE, {}, <<MI({}, {"s"}), MI({"v", "s"}, {})>>)>>]

\* The vector block falls into the call, loops, or ends the program.
Shapes == {[first |-> {2}, second |-> {3}, skip |-> TRUE, callee |-> FALSE],
           [first |-> {2}, second |-> {2, 3}, skip |-> TRUE, callee |-> TRUE],
           [first |-> {2, 3}, second |-> {}, skip |-> FALSE, callee |-> TRUE]}

MCPrototypes ==
  {Prototype(k, c, f, l, w, s, {1}) :
     k \in {2, 5}, c \in {1, 7, 5, 4}, f \in {3, 6, 5, 8}, l \in {0, 2}, w \in {{}, {7}, {2, 10}},
     s \in Shapes}
  \cup {Prototype(1, 1, 3, 2, {}, s, i) : s \in Shapes, i \in {{}, {1, 2}}}

\* The call graph and the predicated flow are those of the machine code: no target
\* is lost or made up when callers are found late, and checks and bypasses lead
\* where the machine code leads.
GraphsOfMachineCode == NoSpuriousTargets /\ ResolutionClosed /\ FlowOfMachineCode
=============================================================================
