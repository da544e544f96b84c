-------------------------- MODULE SessionConformance --------------------------
(***************************************************************************)
(* What the conformance layer tracks of one XrSession (Session.cpp), beside *)
(* the runtime it checks.  Every hook forwards its call to the runtime and  *)
(* then, under the session's lock, compares the runtime's answer with its   *)
(* own record and updates the record; xrEndFrame alone holds the lock       *)
(* across the runtime's call.  Session state changes reach the layer        *)
(* through the event queue, on whatever thread polls it.                    *)
(*                                                                         *)
(* The runtime below conforms to the session life cycle, so every error the *)
(* layer reports here is a false one, and a warning is excused only by what *)
(* the layer cannot know: the suspicions of Session.cpp are "possibly       *)
(* nonconformant" behaviour.                                                *)
(***************************************************************************)
EXTENDS Naturals, Sequences

CONSTANTS
    Threads,          \* application threads
    Null,
    MayOverlap,       \* the pairs of calls the application makes concurrently
    AcceptsEarly,     \* does the runtime begin and end a session whose latest
                      \* state change the application has not polled yet?
    MaxFrames,        \* bound on the frames submitted per session
    MaxTime,          \* bound on predicted display times
    MaxEvents         \* bound on the runtime's event queue

Calls == {"pollEvent", "beginSession", "endSession", "requestExit",
          "waitFrame", "beginFrame", "endFrame"}

\* What the API excludes for one session: parallel xrWaitFrame calls, and
\* parallel xrBeginFrame and xrEndFrame calls.
ASSUME ConstantsAssumption ==
    /\ Null \notin Threads
    /\ AcceptsEarly \in BOOLEAN
    /\ MaxFrames \in Nat /\ MaxTime \in Nat /\ MaxEvents \in Nat
    /\ MayOverlap \cap {{"waitFrame"}, {"beginFrame"}, {"endFrame"},
                        {"beginFrame", "endFrame"}} = {}

\* The pairs of calls whose hooks may run in another order than the runtime's answers,
\* or observe one another half-way: the layer judges a session by its record only as
\* long as no such pair overlaps.  Every other pair is harmless.
Races == {{"pollEvent"}, {"beginSession"}, {"endSession"},
          {"pollEvent", "beginSession"}, {"pollEvent", "endSession"},
          {"pollEvent", "requestExit"}, {"beginSession", "endSession"},
          {"beginSession", "requestExit"}, {"endSession", "requestExit"},
          {"beginSession", "endFrame"}}

States == {"UNKNOWN", "IDLE", "READY", "SYNCHRONIZED", "VISIBLE", "FOCUSED",
           "STOPPING", "EXITING", "LOSS_PENDING"}
Results == {"SUCCESS", "FRAME_DISCARDED", "SESSION_RUNNING", "SESSION_NOT_RUNNING",
            "SESSION_NOT_STOPPING", "FAILED"}

VARIABLES
    \* The runtime.
    rtState, rtRunning, rtExitRequested, rtFrameBegun, rtWaited, rtSubmitted, rtTime,
    queue,            \* state changes not yet polled
    endsEarly,        \* may the runtime end a session before it has had a frame?
    \* CustomSessionState.
    headless,         \* was the session created without a graphics binding?
    lock,             \* holder of CustomSessionState::lock across a runtime call
    sessionState, sessionBegun, sessionExitRequested, frameBegun,
    lastPredictedDisplayTime, frameCount,
    reports,          \* failures the layer has reported
    \* The calls in progress.
    pc,               \* the call each thread is in, past the runtime
    got,              \* the result or the session state the runtime returned
    predicted         \* the display time the runtime returned

runtimeVars == <<rtState, rtRunning, rtExitRequested, rtFrameBegun, rtWaited,
                 rtSubmitted, rtTime, queue>>
layerVars == <<sessionState, sessionBegun, sessionExitRequested, frameBegun,
               lastPredictedDisplayTime, frameCount>>
vars == <<rtState, rtRunning, rtExitRequested, rtFrameBegun, rtWaited, rtSubmitted,
          rtTime, queue, endsEarly, headless, lock, sessionState, sessionBegun,
          sessionExitRequested, frameBegun, lastPredictedDisplayTime, frameCount, reports, pc, got, predicted>>

Errors == {"transition", "synchronizedNotBegun", "idleNotEnded", "begunTwice",
           "runningNotBegun", "endNotBegun", "begunNotRunning", "displayTime",
           "discardExpected", "discardUnexpected", "endFrameNotBegun"}
Warnings == {"synchronizedNoFrame", "endNotStopping", "stoppingNotEnded"}

TypeOK ==
    /\ rtState \in States /\ sessionState \in States
    /\ queue \in Seq(States) /\ Len(queue) <= MaxEvents
    /\ rtRunning \in BOOLEAN /\ rtExitRequested \in BOOLEAN /\ rtFrameBegun \in BOOLEAN
    /\ rtWaited \in BOOLEAN /\ rtSubmitted \in BOOLEAN
    /\ endsEarly \in BOOLEAN /\ headless \in BOOLEAN
    /\ sessionBegun \in BOOLEAN /\ sessionExitRequested \in BOOLEAN /\ frameBegun \in BOOLEAN
    /\ rtTime \in 0..MaxTime /\ lastPredictedDisplayTime \in 0..MaxTime
    /\ frameCount \in 0..MaxFrames
    /\ lock \in Threads \cup {Null}
    /\ reports \subseteq Errors \cup Warnings
    /\ pc \in [Threads -> Calls \cup {"idle", "endFrameDone"}]
    /\ got \in [Threads -> States \cup Results \cup {Null}]
    /\ predicted \in [Threads -> 0..MaxTime]

Init ==
    /\ rtState = "UNKNOWN" /\ queue = <<>>
    /\ rtRunning = FALSE /\ rtExitRequested = FALSE
    /\ rtFrameBegun = FALSE /\ rtWaited = FALSE /\ rtSubmitted = FALSE
    /\ rtTime = 0
    /\ endsEarly \in BOOLEAN /\ headless \in BOOLEAN
    /\ lock = Null
    /\ sessionState = "UNKNOWN" /\ sessionBegun = FALSE /\ sessionExitRequested = FALSE
    /\ frameBegun = FALSE /\ lastPredictedDisplayTime = 0 /\ frameCount = 0
    /\ reports = {}
    /\ pc = [t \in Threads |-> "idle"]
    /\ got = [t \in Threads |-> Null]
    /\ predicted = [t \in Threads |-> 0]

-----------------------------------------------------------------------------
(* The runtime's session life cycle.                                       *)

\* The state changes a conforming runtime makes.  A session becomes SYNCHRONIZED once it
\* has had a frame, with the three exceptions that Session.cpp names.
MayEnter(s) ==
    CASE rtState = "UNKNOWN"      -> s = "IDLE"
      [] rtState = "IDLE"         -> s \in {"READY", "EXITING"}
      [] rtState = "READY"        -> \/ s = "IDLE" /\ ~rtRunning
                                     \/ /\ s = "SYNCHRONIZED" /\ rtRunning
                                        /\ rtSubmitted \/ rtExitRequested \/ headless \/ endsEarly
      [] rtState = "SYNCHRONIZED" -> s \in {"VISIBLE", "STOPPING"}
      [] rtState = "VISIBLE"      -> s \in {"FOCUSED", "SYNCHRONIZED"}
      [] rtState = "FOCUSED"      -> s = "VISIBLE"
      [] rtState = "STOPPING"     -> s = "IDLE" /\ ~rtRunning
      [] OTHER                    -> FALSE

RuntimeTransition(s) ==
    /\ MayEnter(s) \/ (s = "LOSS_PENDING" /\ rtState # "LOSS_PENDING")
    /\ Len(queue) < MaxEvents
    /\ rtState' = s
    /\ queue' = Append(queue, s)
    /\ UNCHANGED <<rtRunning, rtExitRequested, rtFrameBegun, rtWaited, rtSubmitted,
                   rtTime, lock, layerVars, reports, pc, got, predicted>>

Delivered == AcceptsEarly \/ queue = <<>>

-----------------------------------------------------------------------------
(* Calls.                                                                  *)

CallOf(u) == IF pc[u] = "endFrameDone" THEN "endFrame" ELSE pc[u]

MayCall(t, c) ==
    /\ pc[t] = "idle"
    /\ \A u \in Threads \ {t} : pc[u] # "idle" => {c, CallOf(u)} \in MayOverlap

\* The runtime has returned r to call c of thread t.  A call that it rejects
\* with a result the hook does not examine changes nothing and is left out.
Forwarded(t, c, r) ==
    /\ pc' = [pc EXCEPT ![t] = c]
    /\ got' = [got EXCEPT ![t] = r]
    /\ UNCHANGED predicted

Return(t) ==
    /\ pc' = [pc EXCEPT ![t] = "idle"]
    /\ got' = [got EXCEPT ![t] = Null]
    /\ predicted' = [predicted EXCEPT ![t] = 0]

\* The failures of set r whose condition holds are reported.
Report(r) == reports' = reports \cup r
If(condition, failure) == IF condition THEN {failure} ELSE {}

Locked(t) == lock = Null /\ UNCHANGED lock

-----------------------------------------------------------------------------
(* xrPollEvent and SessionStateChanged.                                    *)

PollEvent(t) ==
    /\ MayCall(t, "pollEvent") /\ queue # <<>>
    /\ queue' = Tail(queue)
    /\ Forwarded(t, "pollEvent", Head(queue))
    /\ UNCHANGED <<rtState, rtRunning, rtExitRequested, rtFrameBegun, rtWaited,
                   rtSubmitted, rtTime, lock, layerVars, reports>>

validStateTransitions ==
    {<<"UNKNOWN", "IDLE">>, <<"IDLE", "READY">>, <<"READY", "SYNCHRONIZED">>,
     <<"READY", "IDLE">>, <<"SYNCHRONIZED", "IDLE">>, <<"SYNCHRONIZED", "VISIBLE">>,
     <<"VISIBLE", "FOCUSED">>, <<"FOCUSED", "VISIBLE">>, <<"VISIBLE", "SYNCHRONIZED">>,
     <<"SYNCHRONIZED", "STOPPING">>, <<"STOPPING", "IDLE">>, <<"IDLE", "EXITING">>}

IsValidStateTransition(old, s) ==
    s = "LOSS_PENDING" \/ <<old, s>> \in validStateTransitions

SessionStateChanged(t) ==
    LET s == got[t]
    IN  /\ pc[t] = "pollEvent" /\ Locked(t)
        /\ Report(If(~IsValidStateTransition(sessionState, s), "transition")
             \cup If(s = "SYNCHRONIZED" /\ ~sessionBegun, "synchronizedNotBegun")
             \cup If(s = "SYNCHRONIZED" /\ frameCount = 0
                     /\ ~sessionExitRequested /\ ~headless, "synchronizedNoFrame")
             \cup If(s = "IDLE" /\ sessionBegun, "idleNotEnded"))
        /\ sessionState' = s
        /\ Return(t)
        /\ UNCHANGED <<runtimeVars, sessionBegun, sessionExitRequested, frameBegun,
                       lastPredictedDisplayTime, frameCount>>

-----------------------------------------------------------------------------
(* xrBeginSession, xrEndSession, xrRequestExitSession.                     *)

BeginSession(t) ==
    /\ MayCall(t, "beginSession")
    /\ IF rtRunning
       THEN Forwarded(t, "beginSession", "SESSION_RUNNING") /\ UNCHANGED runtimeVars
       ELSE /\ rtState = "READY" /\ Delivered
            /\ rtRunning' = TRUE /\ rtSubmitted' = FALSE
            /\ Forwarded(t, "beginSession", "SUCCESS")
            /\ UNCHANGED <<rtState, rtExitRequested, rtFrameBegun, rtWaited, rtTime, queue>>
    /\ UNCHANGED <<lock, layerVars, reports>>

SessionHasBegun(t) ==
    /\ pc[t] = "beginSession" /\ Locked(t)
    /\ IF got[t] = "SUCCESS"
       THEN /\ Report(If(sessionBegun, "begunTwice"))
            /\ sessionBegun' = TRUE
            /\ frameCount' = 0
       ELSE /\ Report(If(~sessionBegun, "runningNotBegun"))
            /\ UNCHANGED <<sessionBegun, frameCount>>
    /\ Return(t)
    /\ UNCHANGED <<runtimeVars, sessionState, sessionExitRequested, frameBegun,
                   lastPredictedDisplayTime>>

EndSession(t) ==
    /\ MayCall(t, "endSession")
    /\ IF rtRunning /\ rtState = "STOPPING" /\ Delivered
       THEN /\ rtRunning' = FALSE /\ rtExitRequested' = FALSE
            /\ Forwarded(t, "endSession", "SUCCESS")
            /\ UNCHANGED <<rtState, rtFrameBegun, rtWaited, rtSubmitted, rtTime, queue>>
       ELSE /\ Forwarded(t, "endSession", IF rtRunning THEN "SESSION_NOT_STOPPING"
                                         ELSE "SESSION_NOT_RUNNING")
            /\ UNCHANGED runtimeVars
    /\ UNCHANGED <<lock, layerVars, reports>>

StillBegun == UNCHANGED sessionBegun
NotBegun == sessionBegun' = FALSE
ExitRequestKept == UNCHANGED sessionExitRequested
ExitRequestOver == sessionExitRequested' = FALSE

SessionHasEnded(t) ==
    /\ pc[t] = "endSession" /\ Locked(t)
    /\ Report(
         CASE got[t] = "SUCCESS" ->
                If(~sessionBegun, "endNotBegun")
                \cup If(sessionState # "STOPPING", "endNotStopping")
           [] got[t] = "SESSION_NOT_RUNNING" -> If(sessionBegun, "begunNotRunning")
           [] got[t] = "SESSION_NOT_STOPPING" ->
                If(sessionState = "STOPPING", "stoppingNotEnded"))
    /\ IF got[t] = "SUCCESS" THEN NotBegun /\ ExitRequestOver
       ELSE UNCHANGED <<sessionBegun, sessionExitRequested>>
    /\ Return(t)
    /\ UNCHANGED <<runtimeVars, sessionState, frameBegun, lastPredictedDisplayTime, frameCount>>

RequestExitSession(t) ==
    /\ MayCall(t, "requestExit")
    /\ rtExitRequested' = rtRunning
    /\ Forwarded(t, "requestExit", IF rtRunning THEN "SUCCESS" ELSE "SESSION_NOT_RUNNING")
    /\ UNCHANGED <<rtState, rtRunning, rtFrameBegun, rtWaited, rtSubmitted, rtTime, queue,
                   lock, layerVars, reports>>

ExitIsRequested(t) ==
    /\ pc[t] = "requestExit" /\ Locked(t)
    /\ IF got[t] = "SUCCESS"
       THEN /\ Report(If(~sessionBegun, "endNotBegun"))
            /\ sessionExitRequested' = TRUE
       ELSE /\ Report(If(sessionBegun, "begunNotRunning"))
            /\ UNCHANGED sessionExitRequested
    /\ Return(t)
    /\ UNCHANGED <<runtimeVars, sessionState, sessionBegun, frameBegun,
                   lastPredictedDisplayTime, frameCount>>

-----------------------------------------------------------------------------
(* The frame loop.                                                         *)

\* The runtime predicts later and later display times, and holds xrWaitFrame
\* back until the frame of the previous one has been begun.
WaitFrame(t) ==
    /\ MayCall(t, "waitFrame") /\ rtRunning /\ ~rtWaited
    /\ rtTime < MaxTime
    /\ rtTime' = rtTime + 1 /\ rtWaited' = TRUE
    /\ pc' = [pc EXCEPT ![t] = "waitFrame"]
    /\ predicted' = [predicted EXCEPT ![t] = rtTime + 1]
    /\ UNCHANGED <<rtState, rtRunning, rtExitRequested, rtFrameBegun, rtSubmitted, queue,
                   lock, layerVars, reports, got>>

\* The display time to compare the next prediction with.
PredictedTime_NextPeriod(t) == predicted[t] + 1
PredictedTime(t) == predicted[t]

FrameIsPredicted(t) ==
    /\ pc[t] = "waitFrame" /\ Locked(t)
    /\ Report(If(predicted[t] <= lastPredictedDisplayTime, "displayTime"))
    /\ lastPredictedDisplayTime' = PredictedTime(t)
    /\ Return(t)
    /\ UNCHANGED <<runtimeVars, sessionState, sessionBegun, sessionExitRequested, frameBegun,
                   frameCount>>

BeginFrame(t) ==
    /\ MayCall(t, "beginFrame") /\ rtRunning /\ rtWaited
    /\ rtWaited' = FALSE /\ rtFrameBegun' = TRUE
    /\ Forwarded(t, "beginFrame", IF rtFrameBegun THEN "FRAME_DISCARDED" ELSE "SUCCESS")
    /\ UNCHANGED <<rtState, rtRunning, rtExitRequested, rtSubmitted, rtTime, queue,
                   lock, layerVars, reports>>

FrameHasBegun(t) ==
    /\ pc[t] = "beginFrame" /\ Locked(t)
    /\ Report(If(frameBegun /\ got[t] = "SUCCESS", "discardExpected")
         \cup If(~frameBegun /\ got[t] = "FRAME_DISCARDED", "discardUnexpected"))
    /\ frameBegun' = TRUE
    /\ Return(t)
    /\ UNCHANGED <<runtimeVars, sessionState, sessionBegun, sessionExitRequested,
                   lastPredictedDisplayTime, frameCount>>

\* xrEndFrame takes the lock before it forwards the call.
EnterEndFrame_Unlocked(t) ==
    /\ MayCall(t, "endFrame") /\ frameCount < MaxFrames
    /\ Forwarded(t, "endFrame", Null)
    /\ UNCHANGED <<lock, runtimeVars, layerVars, reports>>

EnterEndFrame(t) ==
    /\ MayCall(t, "endFrame") /\ frameCount < MaxFrames
    /\ lock = Null /\ lock' = t
    /\ Forwarded(t, "endFrame", Null)
    /\ UNCHANGED <<runtimeVars, layerVars, reports>>

\* The runtime ends the frame that was begun, or rejects the call.
EndFrame(t) ==
    /\ pc[t] = "endFrame"
    /\ \/ /\ rtRunning /\ rtFrameBegun
          /\ rtFrameBegun' = FALSE /\ rtSubmitted' = TRUE
          /\ Forwarded(t, "endFrameDone", "SUCCESS")
       \/ /\ Forwarded(t, "endFrameDone", "FAILED")
          /\ UNCHANGED <<rtFrameBegun, rtSubmitted>>
    /\ UNCHANGED <<rtState, rtRunning, rtExitRequested, rtWaited, rtTime, queue,
                   lock, layerVars, reports>>

FrameOver(t) == frameBegun' = FALSE

FrameHasEnded(t) ==
    /\ pc[t] = "endFrameDone"
    /\ IF got[t] = "SUCCESS"
       THEN /\ Report(If(~frameBegun, "endFrameNotBegun"))
            /\ FrameOver(t)
            /\ frameCount' = frameCount + 1
       ELSE UNCHANGED <<reports, frameBegun, frameCount>>
    /\ lock' = Null
    /\ Return(t)
    /\ UNCHANGED <<runtimeVars, sessionState, sessionBegun, sessionExitRequested,
                   lastPredictedDisplayTime>>

-----------------------------------------------------------------------------

Lifecycle(t) ==
    \/ PollEvent(t) \/ SessionStateChanged(t)
    \/ BeginSession(t) \/ SessionHasBegun(t)
    \/ EndSession(t) \/ SessionHasEnded(t)
    \/ RequestExitSession(t) \/ ExitIsRequested(t)

FrameLoop(t) ==
    \/ WaitFrame(t) \/ FrameIsPredicted(t)
    \/ BeginFrame(t) \/ FrameHasBegun(t)
    \/ EnterEndFrame(t) \/ EndFrame(t) \/ FrameHasEnded(t)

\* headless is set once, when the session is created, and endsEarly says what runtime it is.
Next ==
    /\ \/ \E s \in States : RuntimeTransition(s)
       \/ \E t \in Threads : Lifecycle(t) \/ FrameLoop(t)
    /\ UNCHANGED <<endsEarly, headless>>

Spec == Init /\ [][Next]_vars

-----------------------------------------------------------------------------
(* Correctness.                                                            *)

\* A conforming runtime is not reported as nonconformant.
NoFalseError == reports \cap Errors = {}

\* A session that synchronizes without a frame, an exit request or being headless is
\* suspected only of a runtime that ends sessions early (the exception that makes this a
\* warning): a frame submitted just before is never missed.
EarlyEndExplains == "synchronizedNoFrame" \in reports => endsEarly

\* An end that succeeds is suspected only of a runtime that acts on changes the application
\* has not polled.
UnpolledExplains == "endNotStopping" \in reports => AcceptsEarly

\* An end that is refused although the last state polled is STOPPING is suspected only
\* when the session is being lost: its LOSS_PENDING was queued and not yet polled.
LossExplains == "stoppingNotEnded" \in reports => rtState = "LOSS_PENDING"

\* Whatever the threads do at the same time, the hooks of Session.cpp report no error of
\* a conforming runtime, and each of their three suspicions has its excuse: the record
\* kept under the lock lags behind the runtime in no other way that they could notice.
NoFalseReport == NoFalseError /\ EarlyEndExplains /\ UnpolledExplains /\ LossExplains

\* Between calls the layer's record of the session is the runtime's: whether it
\* is running, asked to exit, has a frame begun and has had a frame, and the
\* last display time it predicted.
RecordAgrees ==
    (\A t \in Threads : pc[t] = "idle") =>
        /\ sessionBegun = rtRunning
        /\ sessionExitRequested = rtExitRequested
        /\ frameBegun = rtFrameBegun
        /\ rtRunning => (frameCount > 0) = rtSubmitted
        /\ lastPredictedDisplayTime = rtTime

\* What the layer sees of a session, its last state change and whether it has
\* begun, goes through the life cycle of a session.
Cycle == INSTANCE SessionLifecycle WITH state <- sessionState, running <- sessionBegun
ImplementsLifecycle == Cycle!Spec
=============================================================================
