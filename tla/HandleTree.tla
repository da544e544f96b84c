------------------------------ MODULE HandleTree ------------------------------
(***************************************************************************)
(* What the conformance layer's handle registry promises: a tree of the    *)
(* handles that are alive.  A handle enters under a parent that is in the  *)
(* tree, and leaves it only after all its children have left.              *)
(***************************************************************************)
CONSTANTS Handles, Null

VARIABLE tree          \* of each handle: is it registered, and its parent

Absent == [registered |-> FALSE, parent |-> Null]

Init == tree = [k \in Handles |-> Absent]

Insert(k, p) ==
    /\ tree[k] = Absent
    /\ p = Null \/ (p \in Handles /\ tree[p].registered)
    /\ tree' = [tree EXCEPT ![k] = [registered |-> TRUE, parent |-> p]]

Remove(k) ==
    /\ tree[k].registered
    /\ \A c \in Handles : tree[c].registered => tree[c].parent # k
    /\ tree' = [tree EXCEPT ![k] = Absent]

Next == \E k \in Handles : Remove(k) \/ \E p \in Handles \cup {Null} : Insert(k, p)

Spec == Init /\ [][Next]_tree
=============================================================================
