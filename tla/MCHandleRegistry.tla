--------------------------- MODULE MCHandleRegistry ---------------------------
(* Model values of HandleRegistry for TLC. *)
EXTENDS HandleRegistryInv, TLC

\* Threads, heap addresses and handle values of a kind are interchangeable.
Symmetry == Permutations(Threads) \cup Permutations(Objects)
            \cup Permutations(Sessions) \cup Permutations(Leaves)
=============================================================================
