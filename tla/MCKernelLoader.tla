--------------------------- MODULE MCKernelLoader ---------------------------
(***************************************************************************)
(* A small instance of KernelLoader: e1 and e3 may be loaded together; e2  *)
(* takes both their addresses once they are gone, or they take its.        *)
(***************************************************************************)
EXTENDS KernelLoader, TLC

CONSTANTS e1, e2, e3, k1, k2

MCCodeOf == e1 :> {k1} @@ e2 :> {k1, k2} @@ e3 :> {k2}
=============================================================================
