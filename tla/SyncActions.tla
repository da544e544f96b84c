----------------------------- MODULE SyncActions -----------------------------
(***************************************************************************)
(* How the conformance layer tells whether an interaction profile change of *)
(* a session was queued during xrSyncActions, the only time at which the    *)
(* runtime may queue one.  xrSyncActions raises an atomic flag around the   *)
(* runtime's call (Session.cpp), xrPollEvent lowers it when the queue of    *)
(* events is exhausted (Instance.cpp), and an event that finds it lowered   *)
(* is reported.                                                            *)
(***************************************************************************)
EXTENDS Naturals, Sequences

CONSTANTS
    Threads,           \* application threads
    Null,
    Rogue,             \* may the runtime queue a profile change at any time?
    MayOverlap,        \* the pairs of calls the application makes concurrently
    MaxEvents          \* bound on the runtime's event queue

SyncActionsStates == {"NOT_CALLED_SINCE_QUEUE_EXHAUST", "CALLED_SINCE_QUEUE_EXHAUST", "ONGOING"}
SessionStates == {"VISIBLE", "FOCUSED"}
ProfileChanges == {"profileChanged", "rogueProfileChanged"}
Results == {"SUCCESS", "SESSION_NOT_FOCUSED", "FAILED"}

ASSUME ConstantsAssumption ==
    /\ Null \notin Threads \cup SessionStates \cup ProfileChanges \cup Results
    /\ Rogue \in BOOLEAN
    /\ MayOverlap \subseteq SUBSET {"sync", "poll"}
    /\ MaxEvents \in Nat

VARIABLES
    \* The runtime.
    queue,             \* events not yet polled
    rtState,           \* is the session focused?
    \* The layer.
    syncActionsState,  \* CustomSessionState::syncActionsState
    sessionState,      \* CustomSessionState::sessionState
    lastSyncResult,    \* CustomActionSetState::lastSyncResult
    reports,           \* the profile changes that were reported
    \* The calls in progress.
    pc, event, result,
    \* What has happened, for the properties.
    calledSince,       \* has xrSyncActions run since the queue was last exhausted?
    rtLastSync,        \* the runtime's last answer to xrSyncActions that did not fail
    queuedDuring,      \* the syncs since whose answer a state change was pending
    endedInPoll        \* has a sync ended while a thread was inside xrPollEvent?

ghostVars == <<calledSince, rtLastSync, queuedDuring, endedInPoll>>
layerVars == <<syncActionsState, sessionState, lastSyncResult, reports>>
callVars == <<pc, event, result>>
vars == <<queue, rtState, syncActionsState, sessionState, lastSyncResult, reports, pc,
          event, result, calledSince, rtLastSync, queuedDuring, endedInPoll>>

TypeOK ==
    /\ queue \in Seq(ProfileChanges \cup SessionStates) /\ Len(queue) <= MaxEvents
    /\ rtState \in SessionStates /\ sessionState \in SessionStates
    /\ syncActionsState \in SyncActionsStates
    /\ lastSyncResult \in {"NotSynced", "NotFocused", "Synced"}
    /\ reports \subseteq ProfileChanges
    /\ pc \in [Threads -> {"idle", "syncing", "synced", "polling", "exhausted", "event"}]
    /\ event \in [Threads -> ProfileChanges \cup SessionStates \cup {Null}]
    /\ result \in [Threads -> Results \cup {Null}]
    /\ calledSince \in BOOLEAN
    /\ rtLastSync \in {Null, "SUCCESS", "SESSION_NOT_FOCUSED"}
    /\ queuedDuring \subseteq Threads
    /\ endedInPoll \in BOOLEAN

Init ==
    /\ queue = <<>> /\ rtState = "VISIBLE"
    /\ syncActionsState = "NOT_CALLED_SINCE_QUEUE_EXHAUST"
    /\ sessionState = "VISIBLE"
    /\ lastSyncResult = "NotSynced"
    /\ reports = {}
    /\ pc = [t \in Threads |-> "idle"]
    /\ event = [t \in Threads |-> Null]
    /\ result = [t \in Threads |-> Null]
    /\ calledSince = FALSE /\ rtLastSync = Null
    /\ queuedDuring = {} /\ endedInPoll = FALSE

-----------------------------------------------------------------------------

Syncing(u) == pc[u] \in {"syncing", "synced"}
Polling(u) == pc[u] \in {"polling", "exhausted", "event"}

MayCall(t, c) ==
    /\ pc[t] = "idle"
    /\ \A u \in Threads \ {t} : pc[u] # "idle" =>
          {c, IF Syncing(u) THEN "sync" ELSE "poll"} \in MayOverlap

Goto(t, step) == pc' = [pc EXCEPT ![t] = step]

Return(t) ==
    /\ Goto(t, "idle")
    /\ event' = [event EXCEPT ![t] = Null]
    /\ result' = [result EXCEPT ![t] = Null]

-----------------------------------------------------------------------------
(* The runtime.                                                            *)

\* A change of the session's state is queued, or polled but not yet observed.
Pending ==
    \/ \E n \in DOMAIN queue : queue[n] \in SessionStates
    \/ \E u \in Threads : event[u] \in SessionStates

\* The session gains or loses the input focus.
RuntimeTransition ==
    /\ Len(queue) < MaxEvents
    /\ \E s \in SessionStates \ {rtState} :
          rtState' = s /\ queue' = Append(queue, s)
    /\ queuedDuring' = queuedDuring \cup {u \in Threads : pc[u] = "synced"}
    /\ UNCHANGED <<layerVars, callVars, calledSince, rtLastSync, endedInPoll>>

\* During xrSyncActions of a focused session a profile change is queued.
QueueProfileChange(t) ==
    /\ pc[t] = "syncing" /\ rtState = "FOCUSED"
    /\ Len(queue) < MaxEvents
    /\ queue' = Append(queue, "profileChanged")
    /\ UNCHANGED <<rtState, layerVars, callVars, ghostVars>>

QueueRogueChange ==
    /\ Rogue /\ \A u \in Threads : ~Syncing(u)
    /\ Len(queue) < MaxEvents
    /\ queue' = Append(queue, "rogueProfileChanged")
    /\ UNCHANGED <<rtState, layerVars, callVars, ghostVars>>

-----------------------------------------------------------------------------
(* xrSyncActions.                                                          *)

\* The flag is raised before the call is forwarded.
BeginSyncActions(t) ==
    /\ MayCall(t, "sync")
    /\ syncActionsState' = "ONGOING"
    /\ Goto(t, "syncing")
    /\ calledSince' = TRUE
    /\ UNCHANGED <<queue, rtState, sessionState, lastSyncResult, reports, event, result,
                   rtLastSync, queuedDuring, endedInPoll>>

RuntimeSyncActions(t, r) ==
    /\ pc[t] = "syncing"
    /\ r \in {"FAILED", IF rtState = "FOCUSED" THEN "SUCCESS" ELSE "SESSION_NOT_FOCUSED"}
    /\ Goto(t, "synced")
    /\ result' = [result EXCEPT ![t] = r]
    /\ rtLastSync' = IF r = "FAILED" THEN rtLastSync ELSE r
    /\ queuedDuring' = IF Pending THEN queuedDuring \cup {t} ELSE queuedDuring \ {t}
    /\ UNCHANGED <<queue, rtState, layerVars, event, calledSince, endedInPoll>>

\* The runtime's answer does not fit the last session state the layer has seen.
Suspicious(t) ==
    \/ result[t] = "SESSION_NOT_FOCUSED" /\ sessionState = "FOCUSED"
    \/ result[t] = "SUCCESS" /\ sessionState # "FOCUSED"

\* actionset::OnSyncActionData.
OnSyncActionData_FailureRecorded(r) ==
    lastSyncResult' = CASE r = "SESSION_NOT_FOCUSED" -> "NotFocused"
                        [] r = "SUCCESS" -> "Synced"
                        [] OTHER -> r

OnSyncActionData_FailureIsNotFocused(r) ==
    lastSyncResult' = IF r = "SUCCESS" THEN "Synced" ELSE "NotFocused"

OnSyncActionData(r) ==
    lastSyncResult' = CASE r = "SESSION_NOT_FOCUSED" -> "NotFocused"
                        [] r = "SUCCESS" -> "Synced"
                        [] OTHER -> lastSyncResult

EndSyncActions(t) ==
    /\ pc[t] = "synced"
    /\ OnSyncActionData(result[t])
    /\ syncActionsState' = "CALLED_SINCE_QUEUE_EXHAUST"
    /\ Return(t)
    /\ queuedDuring' = queuedDuring \ {t}
    /\ endedInPoll' = (endedInPoll \/ \E u \in Threads : Polling(u))
    /\ UNCHANGED <<queue, rtState, sessionState, reports, calledSince, rtLastSync>>

-----------------------------------------------------------------------------
(* xrPollEvent.                                                            *)

BeginPoll(t) ==
    /\ MayCall(t, "poll")
    /\ Goto(t, "polling")
    /\ UNCHANGED <<queue, rtState, layerVars, event, result, ghostVars>>

PollUnavailable(t) ==
    /\ pc[t] = "polling" /\ queue = <<>>
    /\ Goto(t, "exhausted")
    /\ calledSince' = \E u \in Threads : Syncing(u)
    /\ UNCHANGED <<queue, rtState, layerVars, event, result, rtLastSync, queuedDuring,
                   endedInPoll>>

ExchangeSyncActionsState_Never == UNCHANGED syncActionsState

\* The compare-exchange leaves the flag of a sync that is going on.
ExchangeSyncActionsState ==
    syncActionsState' = IF syncActionsState = "CALLED_SINCE_QUEUE_EXHAUST"
                        THEN "NOT_CALLED_SINCE_QUEUE_EXHAUST" ELSE syncActionsState

QueueExhausted(t) ==
    /\ pc[t] = "exhausted"
    /\ ExchangeSyncActionsState
    /\ Return(t)
    /\ UNCHANGED <<queue, rtState, sessionState, lastSyncResult, reports, calledSince,
                   rtLastSync, queuedDuring, endedInPoll>>

PollEvent(t) ==
    /\ pc[t] = "polling" /\ queue # <<>>
    /\ queue' = Tail(queue)
    /\ event' = [event EXCEPT ![t] = Head(queue)]
    /\ Goto(t, "event")
    /\ UNCHANGED <<rtState, layerVars, result, ghostVars>>

Observe(s) == sessionState' = s

SessionStateChanged(t) ==
    /\ pc[t] = "event" /\ event[t] \in SessionStates
    /\ Observe(event[t])
    /\ Return(t)
    /\ UNCHANGED <<queue, rtState, syncActionsState, lastSyncResult, reports, calledSince,
                   rtLastSync, queuedDuring, endedInPoll>>

\* The flag stays: several of these events may be queued.
AfterProfileChange_Cleared == syncActionsState' = "NOT_CALLED_SINCE_QUEUE_EXHAUST"
AfterProfileChange == UNCHANGED syncActionsState

InteractionProfileChanged(t) ==
    /\ pc[t] = "event" /\ event[t] \in ProfileChanges
    /\ reports' = IF syncActionsState = "NOT_CALLED_SINCE_QUEUE_EXHAUST"
                  THEN reports \cup {event[t]} ELSE reports
    /\ AfterProfileChange
    /\ Return(t)
    /\ UNCHANGED <<queue, rtState, sessionState, lastSyncResult, calledSince, rtLastSync,
                   queuedDuring, endedInPoll>>

-----------------------------------------------------------------------------

Next ==
    \/ RuntimeTransition \/ QueueRogueChange
    \/ \E t \in Threads :
          \/ QueueProfileChange(t)
          \/ BeginSyncActions(t) \/ EndSyncActions(t)
          \/ \E r \in Results : RuntimeSyncActions(t, r)
          \/ BeginPoll(t) \/ PollUnavailable(t) \/ QueueExhausted(t)
          \/ PollEvent(t) \/ SessionStateChanged(t) \/ InteractionProfileChanged(t)

Spec == Init /\ [][Next]_vars

-----------------------------------------------------------------------------
(* Correctness.                                                            *)

Quiet == \A t \in Threads : pc[t] = "idle"

\* While an event is being checked the flag is lowered exactly if xrSyncActions
\* has not run since the queue was last exhausted, unless a sync has ended
\* inside a poll: then a rogue profile change is reported, and only then.
FlagAgrees ==
    ~endedInPoll =>
        \A t \in Threads : pc[t] = "event" =>
            (syncActionsState = "NOT_CALLED_SINCE_QUEUE_EXHAUST") = ~calledSince

\* Between calls an action set holds the runtime's last answer to xrSyncActions.
SyncResultAgrees ==
    Quiet => lastSyncResult = CASE rtLastSync = "SUCCESS" -> "Synced"
                                [] rtLastSync = "SESSION_NOT_FOCUSED" -> "NotFocused"
                                [] OTHER -> "NotSynced"

\* xrSyncActions is called suspicious only if a change of the session's state
\* was queued but not yet seen, or came in before the answer was examined.
SuspicionExplained == \A t \in Threads : pc[t] = "synced" /\ Suspicious(t) => t \in queuedDuring

\* A profile change that was queued during xrSyncActions is not reported, unless
\* a sync has ended while another thread was inside xrPollEvent.
FalseReportExplained == "profileChanged" \in reports => endedInPoll

\* What the hooks of Session.cpp and Instance.cpp say of a runtime is true, or what the
\* layer could not know in time explains it.
ReportsExplained == SuspicionExplained /\ FalseReportExplained
=============================================================================
