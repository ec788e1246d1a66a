---------------------------- MODULE MCUserSystem ----------------------------
(* Instances of UserSystem for TLC.                                        *)
EXTENDS UserSystem, TLC

CONSTANTS a, b, A

\* normalizeEmail on the addresses of a run: A is another spelling of a.
Normalize == [e \in Emails |-> IF e = A THEN a ELSE e]

Symmetry == Permutations(Users) \cup Permutations(Requests)
              \cup Permutations(Tokens) \cup Permutations(Emails)
=============================================================================
