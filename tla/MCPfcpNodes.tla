----------------------------- MODULE MCPfcpNodes -----------------------------
(* Instances of PfcpNodes for TLC. *)
EXTENDS PfcpNodes, TLC

\* Node objects and remote SEIDs are interchangeable; so are Node IDs.
Symmetry ==
    Permutations(Node) \cup Permutations(RSEID) \cup Permutations(NodeID)
=============================================================================
