--------------------------- MODULE SyncActionsProofs ---------------------------
(***************************************************************************)
(* Proofs about SyncActions, for any number of threads, any bound on the    *)
(* queue, and a runtime that may be a rogue or not.  Of each kind of call   *)
(* the application makes one at a time: the layer admits that two syncs     *)
(* that overlap defeat its flag (Session.cpp:228), and two polls may        *)
(* examine their events in the other order.                                 *)
(***************************************************************************)
EXTENDS SyncActions, TLAPS

OneAtATime == {"sync"} \notin MayOverlap /\ {"poll"} \notin MayOverlap

Queued(e) == \E n \in DOMAIN queue : queue[n] = e

InFlight(e) == Queued(e) \/ \E t \in Threads : event[t] = e

NoStateQueued == \A n \in DOMAIN queue : queue[n] \notin SessionStates

Recorded(r) == CASE r = "SUCCESS" -> "Synced"
                 [] r = "SESSION_NOT_FOCUSED" -> "NotFocused"
                 [] OTHER -> "NotSynced"

\* One thread synchronises and one polls; only they have a result and an event.
OneOfEach ==
    /\ \A t, u \in Threads : Syncing(t) /\ Syncing(u) => t = u
    /\ \A t, u \in Threads : Polling(t) /\ Polling(u) => t = u
    /\ \A t \in Threads : (event[t] # Null) <=> (pc[t] = "event")
    /\ \A t \in Threads : (result[t] # Null) <=> (pc[t] = "synced")

\* The flag is ONGOING during a sync; it is late only while a poll that has found the
\* queue empty has not lowered it, and early if a sync has ended inside a poll.
FlagInv ==
    /\ (\E t \in Threads : Syncing(t)) => syncActionsState = "ONGOING" /\ calledSince
    /\ (\A t \in Threads : ~Syncing(t)) => syncActionsState # "ONGOING"
    /\ ~endedInPoll =>
           IF \E t \in Threads : pc[t] = "exhausted"
           THEN (\A t \in Threads : ~Syncing(t)) => ~calledSince
           ELSE (syncActionsState = "NOT_CALLED_SINCE_QUEUE_EXHAUST") <=> ~calledSince

\* The flag stays raised for every profile change that is still to be examined.
ChangeInv ==
    /\ ~endedInPoll /\ InFlight("profileChanged") =>
           calledSince /\ syncActionsState # "NOT_CALLED_SINCE_QUEUE_EXHAUST"
    /\ FalseReportExplained

\* The last session state that is in flight, or else the one observed, is the runtime's.
StateInv ==
    /\ \A n \in DOMAIN queue :
           /\ queue[n] \in SessionStates
           /\ \A m \in DOMAIN queue : m > n => queue[m] \notin SessionStates
           => queue[n] = rtState
    /\ NoStateQueued => \A t \in Threads : event[t] \in SessionStates => event[t] = rtState
    /\ ~Pending => sessionState = rtState

\* An answer after which no state was in flight was given in the state of the runtime.
AnswerInv ==
    \A t \in Threads : pc[t] = "synced" /\ t \notin queuedDuring =>
        /\ ~Pending
        /\ result[t] = "SUCCESS" => rtState = "FOCUSED"
        /\ result[t] = "SESSION_NOT_FOCUSED" => rtState = "VISIBLE"

\* The action set lags behind the runtime by the answer that is yet to be recorded.
ResultInv ==
    /\ (\A t \in Threads : pc[t] # "synced") => lastSyncResult = Recorded(rtLastSync)
    /\ \A t \in Threads : pc[t] = "synced" =>
           IF result[t] = "FAILED" THEN lastSyncResult = Recorded(rtLastSync)
           ELSE rtLastSync = result[t]

IInv == TypeOK /\ OneOfEach /\ FlagInv /\ ChangeInv /\ StateInv /\ AnswerInv /\ ResultInv

-----------------------------------------------------------------------------
(* One lemma for each action.                                              *)

\* The runtime changes the state of the session and queues the event.
LEMMA RuntimeTransitionStep ==
    ASSUME OneAtATime, IInv, RuntimeTransition
    PROVE  IInv'
<1>1. TypeOK'
  BY ConstantsAssumption, SMTT(20) DEF IInv, TypeOK, RuntimeTransition, layerVars,
     callVars
<1>2. OneOfEach'
  BY SMTT(20) DEF IInv, OneOfEach, RuntimeTransition, callVars, Syncing, Polling
<1>3. FlagInv'
  BY SMTT(20) DEF IInv, FlagInv, RuntimeTransition, layerVars, callVars, Syncing
<1>4. ChangeInv'
  BY SMTT(20) DEF IInv, ChangeInv, RuntimeTransition, layerVars, callVars,
     SessionStates, InFlight, Queued, FalseReportExplained
<1>5. StateInv'
  BY SMTT(20) DEF StateInv, RuntimeTransition, NoStateQueued, Pending
<1>6. AnswerInv'
  BY SMTT(20) DEF AnswerInv, RuntimeTransition, callVars
<1>7. ResultInv'
  BY SMTT(20) DEF IInv, ResultInv, RuntimeTransition, layerVars, callVars
<1> QED  BY <1>1, <1>2, <1>3, <1>4, <1>5, <1>6, <1>7 DEF IInv

\* A rogue runtime queues a profile change that no sync has caused.
LEMMA QueueRogueChangeStep ==
    ASSUME OneAtATime, IInv, QueueRogueChange
    PROVE  IInv'
<1>1. TypeOK'
  BY ConstantsAssumption, SMTT(20) DEF IInv, TypeOK, QueueRogueChange, ghostVars,
     layerVars, callVars, ProfileChanges
<1>2. OneOfEach'
  BY SMTT(20) DEF IInv, OneOfEach, QueueRogueChange, callVars, Syncing, Polling
<1>3. FlagInv'
  BY SMTT(20) DEF IInv, FlagInv, QueueRogueChange, ghostVars, layerVars, callVars,
     Syncing
<1>4. ChangeInv'
  BY SMTT(20) DEF IInv, ChangeInv, QueueRogueChange, ghostVars, layerVars, callVars,
     InFlight, Queued, FalseReportExplained
<1>5. StateInv'
  BY ConstantsAssumption, SMTT(20) DEF IInv, TypeOK, OneOfEach, StateInv,
     QueueRogueChange, vars, ghostVars, layerVars, callVars, Goto, SessionStates,
     ProfileChanges, SyncActionsStates, NoStateQueued, Pending, Polling
<1>6. AnswerInv'
  BY SMTT(20) DEF IInv, AnswerInv, QueueRogueChange, ghostVars, callVars,
     SessionStates, Pending
<1>7. ResultInv'
  BY SMTT(20) DEF IInv, ResultInv, QueueRogueChange, ghostVars, layerVars, callVars
<1> QED  BY <1>1, <1>2, <1>3, <1>4, <1>5, <1>6, <1>7 DEF IInv

\* A profile change is queued during a sync.
LEMMA QueueProfileChangeStep ==
    ASSUME NEW t \in Threads, OneAtATime, IInv, QueueProfileChange(t)
    PROVE  IInv'
<1>1. TypeOK'
  BY ConstantsAssumption, SMTT(20) DEF IInv, TypeOK, QueueProfileChange, ghostVars,
     layerVars, callVars, ProfileChanges
<1>2. OneOfEach'
  BY SMTT(20) DEF IInv, OneOfEach, QueueProfileChange, callVars, Syncing, Polling
<1>3. FlagInv'
  BY SMTT(20) DEF IInv, FlagInv, QueueProfileChange, ghostVars, layerVars, callVars,
     Syncing
<1>4. ChangeInv'
  BY SMTT(20) DEF IInv, FlagInv, ChangeInv, QueueProfileChange, ghostVars, layerVars,
     FalseReportExplained, Syncing
<1>5. StateInv'
  BY ConstantsAssumption, SMTT(20) DEF IInv, StateInv, QueueProfileChange, layerVars,
     callVars, SessionStates, NoStateQueued, Pending
<1>6. AnswerInv'
  BY SMTT(20) DEF IInv, AnswerInv, QueueProfileChange, ghostVars, callVars,
     SessionStates, Pending
<1>7. ResultInv'
  BY SMTT(20) DEF IInv, ResultInv, QueueProfileChange, ghostVars, layerVars, callVars
<1> QED  BY <1>1, <1>2, <1>3, <1>4, <1>5, <1>6, <1>7 DEF IInv

\* The flag becomes ONGOING.
LEMMA BeginSyncActionsStep ==
    ASSUME NEW t \in Threads, OneAtATime, IInv, BeginSyncActions(t)
    PROVE  IInv'
<1>1. TypeOK'
  BY SMTT(20) DEF IInv, TypeOK, BeginSyncActions, Goto, SyncActionsStates
<1>2. OneOfEach'
  BY SMTT(20) DEF IInv, OneOfEach, BeginSyncActions, MayCall, Goto, Syncing, Polling,
     OneAtATime
<1>3. FlagInv'
  BY SMTT(20) DEF IInv, TypeOK, FlagInv, BeginSyncActions, Goto, Syncing
<1>4. ChangeInv'
  BY SMTT(20) DEF IInv, ChangeInv, BeginSyncActions, FalseReportExplained
<1>5. StateInv'
  BY SMTT(20) DEF IInv, StateInv, BeginSyncActions, NoStateQueued, Pending
<1>6. AnswerInv'
  BY SMTT(20) DEF IInv, AnswerInv, BeginSyncActions, Goto, Pending
<1>7. ResultInv'
  BY SMTT(20) DEF IInv, ResultInv, BeginSyncActions, MayCall, Goto
<1> QED  BY <1>1, <1>2, <1>3, <1>4, <1>5, <1>6, <1>7 DEF IInv

\* The flag is left raised, and the action set takes the answer.
LEMMA EndSyncActionsStep ==
    ASSUME NEW t \in Threads, OneAtATime, IInv, EndSyncActions(t)
    PROVE  IInv'
<1>1. TypeOK'
  BY SMTT(20) DEF IInv, TypeOK, EndSyncActions, OnSyncActionData, Return, Goto,
     SyncActionsStates
<1>2. OneOfEach'
  BY SMTT(20) DEF IInv, TypeOK, OneOfEach, EndSyncActions, Return, Goto, Syncing,
     Polling
<1>3. FlagInv'
  BY SMTT(20) DEF IInv, TypeOK, OneOfEach, FlagInv, EndSyncActions, Return, Goto,
     Syncing, Polling
<1>4. ChangeInv'
  BY SMTT(20) DEF IInv, TypeOK, FlagInv, ChangeInv, EndSyncActions,
     FalseReportExplained, Syncing
<1>5. StateInv'
  BY SMTT(20) DEF IInv, OneOfEach, StateInv, EndSyncActions, Return, NoStateQueued,
     Pending
<1>6. AnswerInv'
  BY SMTT(20) DEF IInv, TypeOK, OneOfEach, AnswerInv, EndSyncActions, Return, Goto,
     Pending
<1>7. ResultInv'
  BY SMTT(20) DEF IInv, TypeOK, OneOfEach, ResultInv, EndSyncActions,
     OnSyncActionData, Return, Goto, Recorded
<1> QED  BY <1>1, <1>2, <1>3, <1>4, <1>5, <1>6, <1>7 DEF IInv

\* The runtime answers; the flag is still ONGOING.
LEMMA RuntimeSyncActionsStep ==
    ASSUME NEW t \in Threads, NEW r \in Results, OneAtATime, IInv, RuntimeSyncActions(t, r)
    PROVE  IInv'
<1>1. TypeOK'
  BY SMTT(20) DEF IInv, TypeOK, RuntimeSyncActions, layerVars, Goto
<1>2. OneOfEach'
  BY ConstantsAssumption, SMTT(20) DEF IInv, TypeOK, OneOfEach, RuntimeSyncActions,
     Goto, Syncing, Polling
<1>3. FlagInv'
  BY SMTT(20) DEF IInv, FlagInv, RuntimeSyncActions, layerVars, Goto, Syncing
<1>4. ChangeInv'
  BY SMTT(20) DEF IInv, ChangeInv, RuntimeSyncActions, layerVars, InFlight, Queued,
     FalseReportExplained
<1>5. StateInv'
  BY SMTT(20) DEF IInv, StateInv, RuntimeSyncActions, layerVars, NoStateQueued,
     Pending
<1>6. AnswerInv'
  BY SMTT(20) DEF IInv, TypeOK, AnswerInv, RuntimeSyncActions, Goto, SessionStates,
     Pending
<1>7. ResultInv'
  BY SMTT(20) DEF IInv, TypeOK, OneOfEach, ResultInv, RuntimeSyncActions, layerVars,
     Goto, Syncing
<1> QED  BY <1>1, <1>2, <1>3, <1>4, <1>5, <1>6, <1>7 DEF IInv

\* A poll enters the runtime.
LEMMA BeginPollStep ==
    ASSUME NEW t \in Threads, OneAtATime, IInv, BeginPoll(t)
    PROVE  IInv'
<1>1. TypeOK'
  BY SMTT(20) DEF IInv, TypeOK, BeginPoll, ghostVars, layerVars, Goto
<1>2. OneOfEach'
  BY SMTT(20) DEF IInv, OneOfEach, BeginPoll, MayCall, Goto, Syncing, Polling,
     OneAtATime
<1>3. FlagInv'
  BY SMTT(20) DEF IInv, FlagInv, BeginPoll, MayCall, ghostVars, layerVars, Goto,
     Syncing
<1>4. ChangeInv'
  BY SMTT(20) DEF IInv, ChangeInv, BeginPoll, ghostVars, layerVars, InFlight, Queued,
     FalseReportExplained
<1>5. StateInv'
  BY SMTT(20) DEF IInv, StateInv, BeginPoll, layerVars, NoStateQueued, Pending
<1>6. AnswerInv'
  BY SMTT(20) DEF IInv, AnswerInv, BeginPoll, ghostVars, Goto, Pending
<1>7. ResultInv'
  BY SMTT(20) DEF IInv, ResultInv, BeginPoll, MayCall, ghostVars, layerVars, Goto
<1> QED  BY <1>1, <1>2, <1>3, <1>4, <1>5, <1>6, <1>7 DEF IInv

\* The runtime answers a poll that the queue is empty.
LEMMA PollUnavailableStep ==
    ASSUME NEW t \in Threads, OneAtATime, IInv, PollUnavailable(t)
    PROVE  IInv'
<1>1. TypeOK'
  BY SMTT(20) DEF IInv, TypeOK, PollUnavailable, layerVars, Goto
<1>2. OneOfEach'
  BY SMTT(20) DEF IInv, OneOfEach, PollUnavailable, Goto, Syncing, Polling
<1>3. FlagInv'
  BY SMTT(20) DEF IInv, TypeOK, FlagInv, PollUnavailable, layerVars, Goto, Syncing
<1>4. ChangeInv'
  BY ConstantsAssumption, SMTT(20) DEF IInv, OneOfEach, ChangeInv, PollUnavailable,
     layerVars, ProfileChanges, InFlight, Queued, FalseReportExplained, Polling
<1>5. StateInv'
  BY SMTT(20) DEF IInv, StateInv, PollUnavailable, layerVars, NoStateQueued, Pending
<1>6. AnswerInv'
  BY SMTT(20) DEF IInv, AnswerInv, PollUnavailable, Goto, Pending
<1>7. ResultInv'
  BY SMTT(20) DEF IInv, ResultInv, PollUnavailable, layerVars, Goto
<1> QED  BY <1>1, <1>2, <1>3, <1>4, <1>5, <1>6, <1>7 DEF IInv

\* The compare-exchange lowers the flag.
LEMMA QueueExhaustedStep ==
    ASSUME NEW t \in Threads, OneAtATime, IInv, QueueExhausted(t)
    PROVE  IInv'
<1>1. TypeOK'
  BY SMTT(20) DEF IInv, TypeOK, QueueExhausted, ExchangeSyncActionsState, Return,
     Goto, SyncActionsStates
<1>2. OneOfEach'
  BY SMTT(20) DEF IInv, OneOfEach, QueueExhausted, Return, Goto, Syncing, Polling
<1>3. FlagInv'
  BY SMTT(20) DEF IInv, TypeOK, FlagInv, QueueExhausted, ExchangeSyncActionsState,
     Return, Goto, SyncActionsStates, Syncing
<1>4. ChangeInv'
  BY SMTT(20) DEF IInv, OneOfEach, FlagInv, ChangeInv, QueueExhausted,
     ExchangeSyncActionsState, Return, InFlight, Queued, FalseReportExplained
<1>5. StateInv'
  BY SMTT(20) DEF IInv, OneOfEach, StateInv, QueueExhausted, Return, NoStateQueued,
     Pending
<1>6. AnswerInv'
  BY SMTT(20) DEF IInv, OneOfEach, AnswerInv, QueueExhausted, Return, Goto, Pending
<1>7. ResultInv'
  BY SMTT(20) DEF IInv, ResultInv, QueueExhausted, Return, Goto
<1> QED  BY <1>1, <1>2, <1>3, <1>4, <1>5, <1>6, <1>7 DEF IInv

\* The queue moves on by one event, which is then in hand.
LEMMA PollEventStep ==
    ASSUME NEW t \in Threads, OneAtATime, IInv, PollEvent(t)
    PROVE  IInv'
<1>1. TypeOK'
  BY ConstantsAssumption, SMTT(20) DEF IInv, TypeOK, PollEvent, ghostVars, layerVars,
     Goto
<1>2. OneOfEach'
  BY ConstantsAssumption, SMTT(20) DEF IInv, TypeOK, OneOfEach, PollEvent, Goto,
     Syncing, Polling
<1>3. FlagInv'
  BY SMTT(20) DEF IInv, FlagInv, PollEvent, ghostVars, layerVars, Goto, Syncing
<1>4. ChangeInv'
  BY SMTT(20) DEF IInv, TypeOK, ChangeInv, PollEvent, ghostVars, layerVars, InFlight,
     Queued, FalseReportExplained
<1>5. StateInv'
  <2>1. /\ queue \in Seq(ProfileChanges \cup SessionStates) /\ queue # <<>>
        /\ queue' = Tail(queue) /\ rtState' = rtState /\ sessionState' = sessionState
        /\ event' = [event EXCEPT ![t] = Head(queue)]
        /\ event \in [Threads -> ProfileChanges \cup SessionStates \cup {Null}]
    BY DEF IInv, TypeOK, PollEvent, layerVars
  <2>2. /\ Len(queue') = Len(queue) - 1 /\ Len(queue) \in Nat /\ Len(queue) > 0
        /\ DOMAIN queue = 1..Len(queue) /\ DOMAIN queue' = 1..Len(queue')
        /\ \A n \in DOMAIN queue' : queue'[n] = queue[n + 1]
        /\ Head(queue) = queue[1]
    BY <2>1, SMTT(20)
  <2>3. \A u \in Threads : event'[u] # Null => u = t
    BY SMTT(20) DEF IInv, TypeOK, OneOfEach, PollEvent, Polling
  <2>4. ASSUME NEW n \in DOMAIN queue', queue'[n] \in SessionStates,
               \A m \in DOMAIN queue' : m > n => queue'[m] \notin SessionStates
        PROVE  queue'[n] = rtState'
    <3>1. n + 1 \in DOMAIN queue /\ queue[n + 1] = queue'[n]
      BY <2>2
    <3>2. ASSUME NEW m \in DOMAIN queue, m > n + 1 PROVE queue[m] \notin SessionStates
      <4>1. m - 1 \in DOMAIN queue' /\ m - 1 > n /\ queue'[m - 1] = queue[m]
        BY <2>2, <3>2
      <4> QED  BY <4>1, <2>4
    <3> QED  BY <2>1, <2>4, <3>1, <3>2 DEF IInv, StateInv
  <2>5. NoStateQueued' /\ Head(queue) \in SessionStates => Head(queue) = rtState
    <3>1. ASSUME NoStateQueued', NEW m \in DOMAIN queue, m > 1
          PROVE  queue[m] \notin SessionStates
      <4>1. m - 1 \in DOMAIN queue' /\ queue'[m - 1] = queue[m]
        BY <2>2, <3>1
      <4> QED  BY <4>1, <3>1 DEF NoStateQueued
    <3>2. 1 \in DOMAIN queue
      BY <2>2
    <3> QED  BY <2>2, <3>1, <3>2 DEF IInv, StateInv
  <2>6. ~Pending' => ~Pending
    <3>1. ASSUME NEW n \in DOMAIN queue, queue[n] \in SessionStates PROVE Pending'
      <4>1. CASE n = 1
        BY <2>1, <2>2, <3>1, <4>1 DEF Pending
      <4>2. CASE n # 1
        <5>1. n - 1 \in DOMAIN queue' /\ queue'[n - 1] = queue[n]
          BY <2>2, <4>2
        <5> QED  BY <3>1, <5>1 DEF Pending
      <4> QED  BY <4>1, <4>2
    <3>2. ASSUME NEW u \in Threads, event[u] \in SessionStates PROVE FALSE
      BY <3>2, ConstantsAssumption, SMTT(20) DEF IInv, TypeOK, OneOfEach, PollEvent, Polling
    <3> QED  BY <3>1, <3>2 DEF Pending
  <2> QED
    BY <2>1, <2>3, <2>4, <2>5, <2>6, ConstantsAssumption, SMTT(20)
       DEF IInv, StateInv, NoStateQueued
<1>6. AnswerInv'
  BY SMTT(20) DEF IInv, TypeOK, AnswerInv, PollEvent, ghostVars, Goto, Pending
<1>7. ResultInv'
  BY SMTT(20) DEF IInv, ResultInv, PollEvent, ghostVars, layerVars, Goto
<1> QED  BY <1>1, <1>2, <1>3, <1>4, <1>5, <1>6, <1>7 DEF IInv

\* The state in hand becomes the one observed.
LEMMA SessionStateChangedStep ==
    ASSUME NEW t \in Threads, OneAtATime, IInv, SessionStateChanged(t)
    PROVE  IInv'
<1>1. TypeOK'
  BY SMTT(20) DEF IInv, TypeOK, SessionStateChanged, Observe, Return, Goto
<1>2. OneOfEach'
  BY SMTT(20) DEF IInv, TypeOK, OneOfEach, SessionStateChanged, Return, Goto, Syncing,
     Polling
<1>3. FlagInv'
  BY SMTT(20) DEF IInv, FlagInv, SessionStateChanged, Return, Goto, Syncing
<1>4. ChangeInv'
  BY ConstantsAssumption, SMTT(20) DEF IInv, ChangeInv, SessionStateChanged, Return,
     ProfileChanges, InFlight, Queued, FalseReportExplained
<1>5. StateInv'
  BY ConstantsAssumption, SMTT(20) DEF IInv, StateInv, SessionStateChanged, Observe,
     Return, NoStateQueued, Pending
<1>6. AnswerInv'
  BY SMTT(20) DEF IInv, AnswerInv, SessionStateChanged, Return, Goto, Pending
<1>7. ResultInv'
  BY SMTT(20) DEF IInv, ResultInv, SessionStateChanged, Return, Goto
<1> QED  BY <1>1, <1>2, <1>3, <1>4, <1>5, <1>6, <1>7 DEF IInv

\* The profile change in hand is judged by the flag.
LEMMA InteractionProfileChangedStep ==
    ASSUME NEW t \in Threads, OneAtATime, IInv, InteractionProfileChanged(t)
    PROVE  IInv'
<1>1. TypeOK'
  <2>1. reports' \subseteq ProfileChanges
    BY SMTT(20) DEF IInv, TypeOK, InteractionProfileChanged
  <2>2. pc' \in [Threads -> {"idle", "syncing", "synced", "polling", "exhausted", "event"}]
    BY SMTT(20) DEF IInv, TypeOK, InteractionProfileChanged, Return, Goto
  <2>3. event' \in [Threads -> ProfileChanges \cup SessionStates \cup {Null}]
    BY SMTT(20) DEF IInv, TypeOK, InteractionProfileChanged, Return
  <2>4. result' \in [Threads -> Results \cup {Null}]
    BY SMTT(20) DEF IInv, TypeOK, InteractionProfileChanged, Return
  <2> QED
    BY <2>1, <2>2, <2>3, <2>4, SMTT(20)
       DEF IInv, TypeOK, InteractionProfileChanged, AfterProfileChange
<1>2. OneOfEach'
  BY SMTT(20) DEF IInv, TypeOK, OneOfEach, InteractionProfileChanged, Return, Goto,
     Syncing, Polling
<1>3. FlagInv'
  BY SMTT(20) DEF IInv, FlagInv, InteractionProfileChanged, AfterProfileChange,
     Return, Goto, Syncing
<1>4. ChangeInv'
  BY ConstantsAssumption, SMTT(20) DEF IInv, ChangeInv, InteractionProfileChanged,
     AfterProfileChange, Return, ProfileChanges, InFlight, Queued,
     FalseReportExplained
<1>5. StateInv'
  BY ConstantsAssumption, SMTT(20) DEF IInv, StateInv, InteractionProfileChanged,
     Return, SessionStates, ProfileChanges, NoStateQueued, Pending
<1>6. AnswerInv'
  BY SMTT(20) DEF IInv, OneOfEach, AnswerInv, InteractionProfileChanged, Return, Goto,
     Pending
<1>7. ResultInv'
  BY SMTT(20) DEF IInv, ResultInv, InteractionProfileChanged, Return, Goto
<1> QED  BY <1>1, <1>2, <1>3, <1>4, <1>5, <1>6, <1>7 DEF IInv

-----------------------------------------------------------------------------
(* The theorems.                                                           *)

\* No call is in progress, and nothing is queued.
LEMMA InitStep == Init => IInv
<1> SUFFICES ASSUME Init PROVE IInv
  OBVIOUS
<1>1. TypeOK
  <2>1. queue \in Seq(ProfileChanges \cup SessionStates) /\ Len(queue) <= MaxEvents
    BY ConstantsAssumption DEF Init
  <2> QED  BY <2>1 DEF Init, TypeOK, SessionStates, SyncActionsStates
<1>2. OneOfEach
  BY DEF Init, OneOfEach, Syncing, Polling
<1>3. FlagInv /\ ChangeInv
  BY ConstantsAssumption, SMTT(20)
     DEF Init, FlagInv, ChangeInv, InFlight, Queued, FalseReportExplained, Syncing, ProfileChanges
<1>4. StateInv /\ AnswerInv /\ ResultInv
  BY ConstantsAssumption, SMTT(20)
     DEF Init, StateInv, NoStateQueued, Pending, AnswerInv, ResultInv, Recorded, Results
<1> QED  BY <1>1, <1>2, <1>3, <1>4 DEF IInv

\* Every part speaks of the variables alone.
LEMMA StutteringStep == ASSUME IInv, UNCHANGED vars PROVE IInv'
<1>1. (TypeOK /\ OneOfEach /\ FlagInv)'
  BY DEF IInv, vars, TypeOK, OneOfEach, FlagInv, Syncing, Polling
<1>2. (ChangeInv /\ StateInv)'
  BY DEF IInv, vars, ChangeInv, InFlight, Queued, FalseReportExplained, StateInv, NoStateQueued,
         Pending
<1>3. (AnswerInv /\ ResultInv)'
  BY DEF IInv, vars, AnswerInv, Pending, ResultInv, Recorded
<1> QED  BY <1>1, <1>2, <1>3 DEF IInv

\* Every step preserves the invariant.
LEMMA NextStep == ASSUME OneAtATime, IInv, [Next]_vars PROVE IInv'
<1>1. CASE RuntimeTransition
  BY <1>1, RuntimeTransitionStep
<1>2. CASE QueueRogueChange
  BY <1>2, QueueRogueChangeStep
<1>3. ASSUME NEW t \in Threads,
             \/ QueueProfileChange(t) \/ BeginSyncActions(t) \/ EndSyncActions(t)
             \/ \E r \in Results : RuntimeSyncActions(t, r)
      PROVE  IInv'
  BY <1>3, QueueProfileChangeStep, BeginSyncActionsStep, EndSyncActionsStep,
     RuntimeSyncActionsStep
<1>4. ASSUME NEW t \in Threads,
             \/ BeginPoll(t) \/ PollUnavailable(t) \/ QueueExhausted(t)
             \/ PollEvent(t) \/ SessionStateChanged(t) \/ InteractionProfileChanged(t)
      PROVE  IInv'
  BY <1>4, BeginPollStep, PollUnavailableStep, QueueExhaustedStep, PollEventStep,
     SessionStateChangedStep, InteractionProfileChangedStep
<1>5. CASE UNCHANGED vars
  BY <1>5, StutteringStep
<1> QED  BY <1>1, <1>2, <1>3, <1>4, <1>5 DEF Next

\* The inductive invariant holds in every state.
THEOREM Invariance == ASSUME OneAtATime PROVE Spec => []IInv
<1>1. IInv /\ [Next]_vars => IInv'
  BY NextStep
<1> QED  BY InitStep, <1>1, PTL DEF Spec

-----------------------------------------------------------------------------

\* The type invariant of the flag, the recorded results and the calls in progress.
THEOREM TypeCorrect == ASSUME OneAtATime PROVE Spec => []TypeOK
<1>1. IInv => TypeOK
  BY DEF IInv
<1> QED  BY Invariance, <1>1, PTL

\* An event that is examined finds the flag as the calls have left it (Instance.cpp:96,
\* Session.cpp:222), unless a sync has ended inside a poll.
THEOREM FlagCorrect == ASSUME OneAtATime PROVE Spec => []FlagAgrees
<1>1. IInv => FlagAgrees
  <2> SUFFICES ASSUME IInv, ~endedInPoll, NEW t \in Threads, pc[t] = "event"
               PROVE  (syncActionsState = "NOT_CALLED_SINCE_QUEUE_EXHAUST") = ~calledSince
    BY DEF FlagAgrees
  <2>1. \A u \in Threads : pc[u] # "exhausted"
    BY DEF IInv, OneOfEach, Polling
  <2>2. calledSince \in BOOLEAN
    BY DEF IInv, TypeOK
  <2> QED  BY <2>1, <2>2 DEF IInv, FlagInv
<1> QED  BY Invariance, <1>1, PTL

\* Between calls the action set holds the last answer that did not fail (ActionSet.cpp:48).
THEOREM ResultCorrect == ASSUME OneAtATime PROVE Spec => []SyncResultAgrees
<1>1. IInv => SyncResultAgrees
  BY DEF IInv, ResultInv, SyncResultAgrees, Quiet, Recorded
<1> QED  BY Invariance, <1>1, PTL

\* A runtime that obeys the rules is called suspicious only for a state change that was
\* still in flight (Session.cpp:214), and reported for a profile change only after a
\* sync has ended inside a poll (Instance.cpp:100).
THEOREM ReportsTrue == ASSUME OneAtATime PROVE Spec => []ReportsExplained
<1>1. IInv => SuspicionExplained
  <2> SUFFICES ASSUME IInv, NEW t \in Threads, pc[t] = "synced", t \notin queuedDuring
               PROVE  ~Suspicious(t)
    BY DEF SuspicionExplained
  <2> QED  BY DEF IInv, AnswerInv, StateInv, Suspicious
<1>2. IInv => FalseReportExplained
  BY DEF IInv, ChangeInv
<1> QED  BY Invariance, <1>1, <1>2, PTL DEF ReportsExplained
=============================================================================
