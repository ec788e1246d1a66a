----------------------------- MODULE MCConsole ------------------------------
(* Instance of Console for TLC. The parts share sets of model values, which *)
(* keeps the symmetry group small.                                          *)
EXTENDS Console, TLC

\* A minute is two ticks of the clock.
EvenTime == [time \in Times |-> time - (time % 2)]

Symmetry == Permutations(Requests) \cup Permutations(Articles) \cup Permutations(Slugs)
=============================================================================
