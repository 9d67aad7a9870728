----------------------------- MODULE MCInstall -----------------------------
(* Bounds for Install: the three targets that between them have every kind *)
(* of file, and two builds of brick.                                       *)
EXTENDS Install, TLC

Symmetry == Permutations(Builds)
=============================================================================
