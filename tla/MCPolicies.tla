----------------------------- MODULE MCPolicies -----------------------------
(* Instance of Policies for TLC.                                            *)
EXTENDS Policies, TLC

Symmetry == Permutations(Editors)
=============================================================================
