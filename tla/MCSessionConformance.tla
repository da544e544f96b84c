------------------------- MODULE MCSessionConformance -------------------------
(* Model values of SessionConformance for TLC. *)
EXTENDS SessionConformance, TLC

\* Every pair of calls that the API lets overlap and that is no race.
Harmless == {{c, d} : c \in Calls, d \in Calls}
               \ (Races \cup {{"waitFrame"}, {"beginFrame"}, {"endFrame"},
                             {"beginFrame", "endFrame"}})

Symmetry == Permutations(Threads)
=============================================================================
