--------------------------- MODULE MCAllegroAuth ---------------------------
(* Small instances of AllegroAuth for TLC. *)
EXTENDS AllegroAuth, TLC

\* Tasks and pairs are interchangeable.
Symmetry == Permutations(Tasks) \cup Permutations(Pairs)
=============================================================================
