----------------------------- MODULE SessionLabels -----------------------------
(***************************************************************************)
(* What the labels of XR_EXT_debug_utils promise for each session handle:   *)
(* regions are nested, and at most one individual label follows the last    *)
(* region that was opened or closed.                                       *)
(***************************************************************************)
EXTENDS Naturals, Sequences

CONSTANTS Sessions, Labels, Null

VARIABLES
    regions,           \* the open regions of each session, the outermost first
    individual         \* the individual label of each session

Init ==
    /\ regions = [s \in Sessions |-> <<>>]
    /\ individual = [s \in Sessions |-> Null]

Begin(s, l) ==
    /\ regions' = [regions EXCEPT ![s] = Append(@, l)]
    /\ individual' = [individual EXCEPT ![s] = Null]

\* Ending a region that was not begun changes no region.
End(s) ==
    /\ regions' = [regions EXCEPT ![s] = SubSeq(@, 1, Len(@) - 1)]
    /\ individual' = [individual EXCEPT ![s] = Null]

Insert(s, l) ==
    /\ individual' = [individual EXCEPT ![s] = l]
    /\ UNCHANGED regions

Next ==
    \E s \in Sessions :
        End(s) \/ \E l \in Labels : Begin(s, l) \/ Insert(s, l)

Spec == Init /\ [][Next]_<<regions, individual>>
=============================================================================
