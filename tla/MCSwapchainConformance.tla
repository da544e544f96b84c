------------------------ MODULE MCSwapchainConformance ------------------------
(* Model values of SwapchainConformance for TLC. *)
EXTENDS SwapchainConformance, TLC

Symmetry == Permutations(Threads)

\* All the pairs of calls that are no race.
Harmless == {{c, d} : c, d \in Calls} \ Races
=============================================================================
