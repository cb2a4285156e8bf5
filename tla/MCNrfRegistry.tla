---------------------------- MODULE MCNrfRegistry -----------------------------
EXTENDS NrfRegistry, TLC

\* The instances of a type are interchangeable (not used with liveness).
Symmetry == Permutations(NF)
================================================================================
