-------------------------- MODULE MCBranchRelaxation --------------------------
(* A function of five blocks with two conditional branches and one that is    *)
(* not, whose targets are near or far depending on the sizes of the blocks.   *)
EXTENDS BranchRelaxation

MCSGPRs == 0 .. 3

If(to)   == Terminator("cond", to, {})
Jump(to) == Terminator("br", to, {})
End      == Terminator("end", 0, {})
Lift(body, live, segs, term) == [body |-> body, live |-> live, segs |-> segs, term |-> term]

\* Where every pair is live, one has to be saved.
Lives == {{}, {0}, MCSGPRs} \cup {{SCC}}
Kept(t) == {t, [t EXCEPT !.keep = TRUE]}

Five(body, live, segs, above, far, back, forward) ==
  <<Lift(1, {}, segs, <<>>),
    Lift(body[1], live[1], above, far),
    Lift(body[2], {}, segs, forward),
    Lift(body[3], {1}, segs, back),
    Lift(2, live[2], segs, <<End>>)>>

\* A switch of the array's storage on an edge puts a branch after the other one;
\* one in a block may leave its terminators in a block the locations do not know.
MCFns ==
  {[blocks |-> Five(body, live, {storage}, {storage : k \in known}, far, back, <<forward>>),
    storage |-> storage, lanes |-> lanes, addpc |-> addpc] :
     body \in [1 .. 3 -> {1, 14}], live \in Lives \X (Lives \ {{0}}), storage \in {{}, {2}},
     known \in {{TRUE}, {}},
     far \in {<<t>> : t \in Kept(If(5)) \cup Kept(If(4))},
     back \in {<<If(2)>>, <<If(2), Jump(5)>>, <<If(5), Jump(2)>>},
     forward \in Kept(Jump(5)) \cup {Jump(2)}, lanes \in {1, 2}, addpc \in BOOLEAN}
=============================================================================
