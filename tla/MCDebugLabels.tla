----------------------------- MODULE MCDebugLabels -----------------------------
(* Values of DebugLabels' constants for TLC. *)
EXTENDS DebugLabels, TLC

Symmetry == Permutations(Sessions) \cup Permutations(Labels)

\* One that wants messages of the loader, and one that wants errors of the conformance layer.
MCCreateInfos ==
    {[severities |-> Severities, types |-> {"validation"}],
     [severities |-> {"error"}, types |-> {"conformance"}]}
=============================================================================
