--------------------------- MODULE MCLanServer ---------------------------
(* Instances of LanServer for TLC. *)
EXTENDS LanServerProps, TLC

Symmetry == Permutations(Workers)
=============================================================================
