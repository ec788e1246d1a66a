------------------------------ MODULE MCAccess ------------------------------
(* Instance of Access for TLC. The parts share sets of model values, which *)
(* keeps the symmetry group small.                                         *)
EXTENDS Access, TLC

Symmetry == Permutations(Requests) \cup Permutations(Sids) \cup Permutations(Browsers)
=============================================================================
