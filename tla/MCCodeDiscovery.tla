-------------------------- MODULE MCCodeDiscovery --------------------------
(***************************************************************************)
(* Every program of four words whose last word ends a function or jumps    *)
(* back, over an instruction set that has one instruction of each class    *)
(* discovery tells apart.                                                  *)
(***************************************************************************)
EXTENDS CodeDiscovery

MCLimit == 4

Plain(op, size) == [op |-> op, size |-> size, target |-> Unknown]
Towards(op, a) == [op |-> op, size |-> 1, target |-> a]

Anywhere ==
    {Plain("salu", 1), Plain("valu", 2), Plain("exec", 1),
     Plain("setpc", 1), Towards("setpc", 1), Plain("endpgm", 1), Towards("call", Unknown)}
    \cup {Towards("cond", a) : a \in {0, 1, 3}}
    \cup {Towards("branch", a) : a \in {0, 2}}
    \cup {Towards("call", a) : a \in {0, 2, 3}}

\* A last word that ends the function or jumps back, and in fewer programs one
\* that calls with nothing behind it, leaves the allocation, is data, or lets
\* control run off the end of the allocation.
Ends == {Plain("endpgm", 1), Towards("branch", 1)}
OddEnds == {Towards("call", 1), Towards("branch", 4), Plain("data", 1), Plain("salu", 1)}

Starts == {Plain("salu", 1), Plain("valu", 2), Towards("cond", 3),
           Towards("branch", 2), Towards("call", 2)}
FewStarts == {Towards("call", 2)}

ProgramsOf(first, last) ==
    {p \in [0 .. MCLimit - 1 -> Anywhere \cup last] :
        p[0] \in first /\ p[1] \in Anywhere /\ p[2] \in Anywhere /\ p[3] \in last}

MCPrograms == ProgramsOf(Starts, Ends) \cup ProgramsOf(FewStarts, OddEnds)

\* A kernel at the base of the allocation, or behind code it does not start in.
MCKernelEntries == {0, 2}

\* A kernel that calls a function in a loop; behind the call, the loop's branch
\* and the end of the program.
LoopEntry == {0}
LoopWithCall ==
    {(0 :> Plain("salu", 1)) @@ (1 :> Towards("call", Unknown)) @@
     (2 :> Towards("cond", 0)) @@ (3 :> Plain("endpgm", 1))}
=============================================================================
