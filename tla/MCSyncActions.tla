---------------------------- MODULE MCSyncActions ----------------------------
(* Model values of SyncActions for TLC. *)
EXTENDS SyncActions, TLC

Symmetry == Permutations(Threads)

\* One thread polls for events while another synchronises.
PollDuringSync == {{"poll", "sync"}}
=============================================================================
