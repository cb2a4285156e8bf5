--------------------------- MODULE MCSessionRules ---------------------------
(* Instances of SessionRules for TLC. *)
EXTENDS SessionRules, TLC

Symmetry == Permutations(PDRID)
=============================================================================
