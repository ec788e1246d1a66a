-------------------------- MODULE MCAdminAccounts ---------------------------
(* Instances of AdminAccounts for TLC.                                     *)
EXTENDS AdminAccounts, TLC

Symmetry == Permutations(Admins) \cup Permutations(Requests) \cup Permutations(Sessions)
=============================================================================
