---------------------------- MODULE SwapchainImages ----------------------------
(***************************************************************************)
(* What a swapchain promises: images are acquired in some order, waited on  *)
(* and released in that same order, one at a time.                         *)
(***************************************************************************)
EXTENDS Sequences

CONSTANT Images

VARIABLES
    held,              \* images acquired and not released, the oldest first
    waited             \* has the oldest one been waited on?

Init == held = <<>> /\ waited = FALSE

Acquire(i) ==
    /\ \A n \in DOMAIN held : held[n] # i
    /\ held' = Append(held, i)
    /\ UNCHANGED waited

Wait ==
    /\ held # <<>> /\ ~waited
    /\ waited' = TRUE
    /\ UNCHANGED held

Release ==
    /\ waited
    /\ held' = Tail(held)
    /\ waited' = FALSE

Next == Wait \/ Release \/ \E i \in Images : Acquire(i)

Spec == Init /\ [][Next]_<<held, waited>>
=============================================================================
