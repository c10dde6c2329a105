--------------------------- MODULE MCRateBudget ---------------------------
(* A small instance of RateBudget: a minute of 3 seconds of 2 ticks.        *)
EXTENDS RateBudget, TLC

\* The process starts at the beginning, in the middle or at the end of the clock's second minute.
MCStart == {6, 9, 11}

Symmetry == Permutations(Requests)
=============================================================================
