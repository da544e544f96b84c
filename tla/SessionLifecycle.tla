--------------------------- MODULE SessionLifecycle ---------------------------
(***************************************************************************)
(* The life cycle of an XrSession as the conformance layer understands it:  *)
(* a session begins when it is READY and ends when it is STOPPING, it is    *)
(* SYNCHRONIZED, VISIBLE or FOCUSED only between the two, and may be lost   *)
(* at any time.                                                            *)
(***************************************************************************)
VARIABLES state,       \* the last state change observed
          running      \* has the session begun and not ended?

Init == state = "UNKNOWN" /\ running = FALSE

Begin == state = "READY" /\ ~running /\ running' = TRUE /\ UNCHANGED state

End == state = "STOPPING" /\ running /\ running' = FALSE /\ UNCHANGED state

\* State changes while the session does not run.
Rest(s) ==
    \/ state \in {"UNKNOWN", "READY", "STOPPING"} /\ s = "IDLE"
    \/ state = "IDLE" /\ s \in {"READY", "EXITING"}

\* State changes while it runs.
Run(s) ==
    \/ state = "READY" /\ s = "SYNCHRONIZED"
    \/ state = "SYNCHRONIZED" /\ s \in {"VISIBLE", "STOPPING"}
    \/ state = "VISIBLE" /\ s \in {"SYNCHRONIZED", "FOCUSED"}
    \/ state = "FOCUSED" /\ s = "VISIBLE"

Change(s) ==
    /\ s = "LOSS_PENDING" \/ (~running /\ Rest(s)) \/ (running /\ Run(s))
    /\ state' = s /\ UNCHANGED running

Next ==
    \/ Begin \/ End
    \/ \E s \in {"IDLE", "READY", "SYNCHRONIZED", "VISIBLE", "FOCUSED", "STOPPING",
                "EXITING", "LOSS_PENDING"} : Change(s)

Spec == Init /\ [][Next]_<<state, running>>
=============================================================================
