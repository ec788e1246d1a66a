----------------------------- MODULE MCProfiles -----------------------------
(* Instances of Profiles for TLC.                                          *)
EXTENDS Profiles, TLC

CONSTANTS u1, u2, h1, h2

\* The handles that the ids of new profiles give.
First == [u \in Users |-> IF u = u1 THEN h1 ELSE h2]

\* Users may be exchanged together with their first handles.
Exchange == u1 :> u2 @@ u2 :> u1 @@ h1 :> h2 @@ h2 :> h1

Symmetry == Permutations(Requests) \cup {Exchange}
=============================================================================
