--------------------------- MODULE MCWriteAtomic ---------------------------
(* A small instance of WriteAtomic.                                         *)
EXTENDS WriteAtomic, TLC

CONSTANTS p1, p2, n1, n2

\* Two processes on one machine.
OwnPid  == p1 :> n1 @@ p2 :> n2

Symmetry == Permutations(Values) \cup Permutations(Files)
=============================================================================
