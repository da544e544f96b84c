----------------------- MODULE SessionConformanceProofs -----------------------
(***************************************************************************)
(* Proofs about SessionConformance, for any threads and any bounds: types   *)
(* and results are right whatever overlaps, and the record of the layer,    *)
(* its verdicts and the life cycle it sees are right as long as no race     *)
(* does and the runtime begins and ends a session only when the application *)
(* knows its state.                                                        *)
(***************************************************************************)
EXTENDS SessionConformance, SequenceTheorems, TLAPS

Serialised == MayOverlap \cap Races = {} /\ ~AcceptsEarly

Ending == {"endFrame", "endFrameDone"}

\* Each call in progress has a result that it can have; xrEndFrame holds the lock.
CallInv ==
    /\ \A t \in Threads : (pc[t] \in Ending) <=> (lock = t)
    /\ \A t \in Threads : pc[t] \in Ending => frameCount < MaxFrames
    /\ \A t \in Threads :
         /\ pc[t] = "pollEvent" => got[t] \in States
         /\ pc[t] = "beginSession" => got[t] \in {"SUCCESS", "SESSION_RUNNING"}
         /\ pc[t] = "endSession" =>
               got[t] \in {"SUCCESS", "SESSION_NOT_RUNNING", "SESSION_NOT_STOPPING"}
         /\ pc[t] = "beginFrame" => got[t] \in {"SUCCESS", "FRAME_DISCARDED"}

TypeInv == TypeOK /\ CallInv

Excluded(c) ==
    CASE c = "pollEvent" -> {"pollEvent", "beginSession", "endSession", "requestExit"}
      [] c = "beginSession" ->
            {"pollEvent", "beginSession", "endSession", "requestExit"} \cup Ending
      [] c = "endSession" -> {"pollEvent", "beginSession", "endSession", "requestExit"}
      [] c = "requestExit" -> {"pollEvent", "beginSession", "endSession"}
      [] c = "waitFrame" -> {"waitFrame"}
      [] c = "beginFrame" -> {"beginFrame"} \cup Ending
      [] c \in Ending -> {"beginSession", "beginFrame"} \cup Ending
      [] OTHER -> {}

\* No race is in progress.
NoRace == \A t, u \in Threads : t # u => pc[u] \notin Excluded(pc[t])

\* A call of this kind has succeeded, and its hook has not recorded it.
Succeeded(t, c) == pc[t] = c /\ got[t] = "SUCCESS"
Unrecorded(c) == \E t \in Threads : Succeeded(t, c)

RunningInv ==
    /\ rtState \in {"SYNCHRONIZED", "VISIBLE", "FOCUSED"} => rtRunning
    /\ rtState \in {"UNKNOWN", "IDLE", "EXITING"} => ~rtRunning
    /\ Unrecorded("beginSession") => rtRunning /\ ~sessionBegun /\ sessionState = "READY"
    /\ Unrecorded("endSession") => ~rtRunning /\ sessionBegun /\ sessionState = "STOPPING"
    /\ ~Unrecorded("beginSession") /\ ~Unrecorded("endSession") =>
           (sessionBegun <=> rtRunning)
    /\ \A t \in Threads :
         /\ pc[t] = "beginSession" => rtRunning
         /\ pc[t] = "endSession" => (rtRunning <=> got[t] = "SESSION_NOT_STOPPING")
         /\ pc[t] = "requestExit" => (rtRunning <=> got[t] = "SUCCESS")

\* The life cycle's change from one state to another while the session does not, or does, run.
Follows(old, s, running) ==
    \/ s = "LOSS_PENDING"
    \/ ~running /\ \/ old \in {"UNKNOWN", "READY", "STOPPING"} /\ s = "IDLE"
                   \/ old = "IDLE" /\ s \in {"READY", "EXITING"}
    \/ running /\ \/ old = "READY" /\ s = "SYNCHRONIZED"
                  \/ old = "SYNCHRONIZED" /\ s \in {"VISIBLE", "STOPPING"}
                  \/ old = "VISIBLE" /\ s \in {"SYNCHRONIZED", "FOCUSED"}
                  \/ old = "FOCUSED" /\ s = "VISIBLE"

\* The changes of a path lead from one state to another.
Leads(old, path, new, running) ==
    IF path = <<>> THEN old = new
    ELSE /\ Follows(old, path[1], running)
         /\ \A n \in 1..Len(path) - 1 : Follows(path[n], path[n + 1], running)
         /\ path[Len(path)] = new

\* From the state the layer has observed, through one that is being observed and those
\* that are queued, the life cycle leads to the runtime's state.
StateInv ==
    /\ (\A t \in Threads : pc[t] # "pollEvent") => Leads(sessionState, queue, rtState, rtRunning)
    /\ \A t \in Threads : pc[t] = "pollEvent" =>
           /\ Follows(sessionState, got[t], rtRunning)
           /\ Leads(got[t], queue, rtState, rtRunning)

ExitInv ==
    /\ rtExitRequested => rtRunning
    /\ Unrecorded("requestExit") => rtExitRequested
    /\ ~Unrecorded("requestExit") /\ ~Unrecorded("endSession") =>
           (sessionExitRequested <=> rtExitRequested)

\* A session that has become SYNCHRONIZED had reason to.
SynchronizedInv ==
    \/ rtSubmitted \/ rtExitRequested \/ headless \/ endsEarly
    \/ /\ rtState \notin {"SYNCHRONIZED", "VISIBLE", "FOCUSED"}
       /\ \A n \in DOMAIN queue : queue[n] # "SYNCHRONIZED"
       /\ \A t \in Threads : pc[t] = "pollEvent" => got[t] # "SYNCHRONIZED"

FrameInv ==
    /\ Unrecorded("beginSession") => ~rtSubmitted
    /\ Unrecorded("endFrameDone") => rtSubmitted
    /\ rtRunning /\ ~Unrecorded("beginSession") /\ ~Unrecorded("endFrameDone") =>
           (frameCount > 0 <=> rtSubmitted)
    /\ Unrecorded("beginFrame") => rtFrameBegun /\ ~frameBegun
    /\ Unrecorded("endFrameDone") => ~rtFrameBegun /\ frameBegun
    /\ \A t \in Threads : pc[t] = "beginFrame" /\ got[t] = "FRAME_DISCARDED" =>
           rtFrameBegun /\ frameBegun
    /\ ~Unrecorded("beginFrame") /\ ~Unrecorded("endFrameDone") =>
           (frameBegun <=> rtFrameBegun)

\* The display time is recorded when xrWaitFrame returns.
TimeInv ==
    /\ \A t \in Threads : pc[t] = "waitFrame" =>
           predicted[t] = rtTime /\ rtTime = lastPredictedDisplayTime + 1
    /\ (\A t \in Threads : pc[t] # "waitFrame") => lastPredictedDisplayTime = rtTime

\* The runtime that is about to lose the session stays so: once it has queued
\* LOSS_PENDING, and once it has refused to end a session known to be STOPPING.
LossInv ==
    /\ \A n \in DOMAIN queue : queue[n] = "LOSS_PENDING" => rtState = "LOSS_PENDING"
    /\ \A t \in Threads :
         pc[t] = "endSession" /\ got[t] = "SESSION_NOT_STOPPING" /\ sessionState = "STOPPING"
           => rtState = "LOSS_PENDING"

IInv ==
    /\ TypeInv /\ NoRace /\ RunningInv /\ StateInv /\ ExitInv /\ SynchronizedInv
    /\ FrameInv /\ TimeInv /\ LossInv /\ NoFalseReport

-----------------------------------------------------------------------------
(* Calls that overlap, and paths of the life cycle.                        *)

\* Each pair of calls that exclude one another is a race or excluded by the API.
LEMMA ExcludedPairs ==
    ASSUME NEW c \in Calls, NEW d \in Calls \cup Ending, d \in Excluded(c)
    PROVE  {c, IF d = "endFrameDone" THEN "endFrame" ELSE d} \in
               Races \cup {{"waitFrame"}, {"beginFrame"}, {"endFrame"},
                           {"beginFrame", "endFrame"}}
BY SMTT(20) DEF Excluded, Ending, Races, Calls

LEMMA ExcludedSymmetric ==
    ASSUME NEW c \in Calls, NEW d \in Calls \cup Ending \cup {"idle"}
    PROVE  c \in Excluded(d) <=> d \in Excluded(c)
BY SMTT(20) DEF Excluded, Ending, Calls

\* A call is not made while one that it excludes is in progress.
LEMMA Admitted ==
    ASSUME Serialised, TypeOK, NEW t \in Threads, NEW c \in Calls, MayCall(t, c),
           NEW u \in Threads, u # t
    PROVE  pc[u] \notin Excluded(c) /\ c \notin Excluded(pc[u])
<1>1. pc[u] \in Calls \cup Ending \cup {"idle"}
  BY DEF TypeOK, Ending
<1>2. pc[u] = "idle" => pc[u] \notin Excluded(c)
  BY DEF Excluded, Calls, Ending
<1>3. pc[u] # "idle" => {c, CallOf(u)} \in MayOverlap
  BY DEF MayCall
<1>4. pc[u] \notin Excluded(c)
  BY <1>1, <1>2, <1>3, ExcludedPairs, ConstantsAssumption DEF Serialised, CallOf
<1> QED  BY <1>1, <1>4, ExcludedSymmetric

LEMMA Alone ==
    ASSUME Serialised, TypeOK, NEW t \in Threads, NEW c \in Calls, MayCall(t, c),
           NEW d \in Excluded(c)
    PROVE  \A u \in Threads : pc[u] # d
<1>1. pc[t] # d
  BY SMTT(10) DEF MayCall, Excluded, Ending, Calls
<1> QED BY <1>1, Admitted

\* A call that is made is no race with another.
LEMMA Entered ==
    ASSUME Serialised, TypeOK, NoRace, NEW t \in Threads, NEW c \in Calls,
           MayCall(t, c), pc' = [pc EXCEPT ![t] = c]
    PROVE  NoRace'
BY Admitted, SMTT(20) DEF NoRace, TypeOK

LEMMA EmptyIffZero == ASSUME NEW S, NEW seq \in Seq(S) PROVE seq = <<>> <=> Len(seq) = 0
BY EmptySeq

\* The first change of a path can be taken, and the others lead on.
LEMMA LeadsTail ==
    ASSUME NEW path \in Seq(States), path # <<>>, NEW old, NEW new, NEW running,
           Leads(old, path, new, running)
    PROVE  /\ Follows(old, Head(path), running)
           /\ Leads(Head(path), Tail(path), new, running)
<1>1. Follows(old, Head(path), running)
  BY DEF Leads
<1>2. /\ Len(path) \in Nat \ {0} /\ Len(Tail(path)) = Len(path) - 1
      /\ Tail(path) \in Seq(States) /\ \A n \in 1..Len(Tail(path)) : Tail(path)[n] = path[n + 1]
  BY EmptySeq, HeadTailProperties
<1>3. CASE Len(path) = 1
  <2>1. Tail(path) = <<>>
    <3>1. Len(Tail(path)) = 0
      BY <1>2, <1>3
    <3> QED
      BY <1>2, <3>1, EmptyIffZero, Zenon
  <2> QED
    BY <1>1, <1>3, <2>1 DEF Leads
<1>4. CASE Len(path) # 1
  <2>1. Tail(path) # <<>>
    <3>1. Len(Tail(path)) # 0
      BY <1>2, <1>4
    <3> QED
      BY <1>2, <3>1, EmptyIffZero, Zenon
  <2>2. Follows(Head(path), Tail(path)[1], running) /\ Tail(path)[Len(Tail(path))] = new
    BY <1>2, <1>4 DEF Leads
  <2>3. \A n \in 1..Len(Tail(path)) - 1 : Follows(Tail(path)[n], Tail(path)[n + 1], running)
    BY <1>2, <1>4 DEF Leads
  <2> QED
    BY <1>1, <2>1, <2>2, <2>3 DEF Leads
<1> QED  BY <1>3, <1>4

\* A path is continued by a change of its last state.
LEMMA LeadsAppend ==
    ASSUME NEW path \in Seq(States), NEW old, NEW new, NEW running, NEW s \in States,
           Leads(old, path, new, running), Follows(new, s, running)
    PROVE  Leads(old, Append(path, s), s, running)
<1>1. CASE path = <<>>
  BY <1>1, SMTT(10) DEF Leads
<1>2. CASE path # <<>>
  BY <1>2, SMTT(10) DEF Leads
<1> QED  BY <1>1, <1>2

-----------------------------------------------------------------------------
(* Types, whatever calls overlap.                                          *)

\* A call that returns leaves no result behind.
LEMMA ReturnTypes ==
    ASSUME TypeOK, NEW t \in Threads, Return(t)
    PROVE  /\ pc' \in [Threads -> Calls \cup {"idle", "endFrameDone"}]
           /\ got' \in [Threads -> States \cup Results \cup {Null}]
           /\ predicted' \in [Threads -> 0..MaxTime]
BY ConstantsAssumption DEF TypeOK, Return

\* A call that is forwarded has the result it is forwarded with.
LEMMA ForwardedTypes ==
    ASSUME TypeOK, NEW t \in Threads, NEW c \in Calls \cup {"endFrameDone"},
           NEW r \in States \cup Results \cup {Null}, Forwarded(t, c, r)
    PROVE  /\ pc' \in [Threads -> Calls \cup {"idle", "endFrameDone"}]
           /\ got' \in [Threads -> States \cup Results \cup {Null}]
           /\ predicted' \in [Threads -> 0..MaxTime]
BY DEF TypeOK, Forwarded

\* RuntimeTransition keeps the types, and the results that calls in progress can have.
LEMMA RuntimeTransitionTypes ==
    ASSUME TypeInv, UNCHANGED <<endsEarly, headless>>,
           NEW s \in States, RuntimeTransition(s)
    PROVE  TypeInv'
<1>1. TypeOK'
  BY ConstantsAssumption DEF TypeInv, TypeOK, RuntimeTransition, layerVars
<1>2. CallInv'
  BY DEF TypeInv, CallInv, RuntimeTransition, layerVars
<1> QED
  BY <1>1, <1>2 DEF TypeInv

\* PollEvent keeps the types, and the results that calls in progress can have.
LEMMA PollEventTypes ==
    ASSUME TypeInv, UNCHANGED <<endsEarly, headless>>,
           NEW t \in Threads, PollEvent(t)
    PROVE  TypeInv'
<1>1. TypeOK'
  BY ConstantsAssumption
     DEF TypeInv, TypeOK, CallInv, MayCall, States, Errors, Calls, PollEvent, Forwarded,
         layerVars
<1>2. CallInv'
  BY DEF TypeInv, TypeOK, CallInv, MayCall, Ending, PollEvent, Forwarded, layerVars
<1> QED
  BY <1>1, <1>2 DEF TypeInv

\* SessionStateChanged keeps the types, and the results that calls in progress can have.
LEMMA SessionStateChangedTypes ==
    ASSUME TypeInv, UNCHANGED <<endsEarly, headless>>,
           NEW t \in Threads, SessionStateChanged(t)
    PROVE  TypeInv'
<1>1. TypeOK'
  BY ConstantsAssumption
     DEF TypeInv, TypeOK, CallInv, MayCall, States, Errors, Warnings, Calls,
         SessionStateChanged, Locked, Report, If, Return, runtimeVars,
         validStateTransitions
<1>2. CallInv'
  BY DEF TypeInv, TypeOK, CallInv, Ending, SessionStateChanged, Locked, Return
<1> QED
  BY <1>1, <1>2 DEF TypeInv

\* BeginSession keeps the types, and the results that calls in progress can have.
LEMMA BeginSessionTypes ==
    ASSUME TypeInv, UNCHANGED <<endsEarly, headless>>,
           NEW t \in Threads, BeginSession(t)
    PROVE  TypeInv'
<1>1. TypeOK'
  <2>1. rtRunning' \in BOOLEAN /\ rtSubmitted' \in BOOLEAN
    BY Zenon DEF BeginSession, runtimeVars, TypeInv, TypeOK
  <2>2. /\ pc' \in [Threads -> Calls \cup {"idle", "endFrameDone"}]
        /\ got' \in [Threads -> States \cup Results \cup {Null}]
        /\ predicted' \in [Threads -> 0..MaxTime]
    BY ForwardedTypes DEF BeginSession, TypeInv, Calls, Results
  <2> QED
    BY <2>1, <2>2 DEF BeginSession, runtimeVars, layerVars, TypeInv, TypeOK
<1>2. CallInv'
  BY DEF TypeInv, TypeOK, CallInv, MayCall, Delivered, Ending, BeginSession, Forwarded,
         layerVars
<1> QED
  BY <1>1, <1>2 DEF TypeInv

\* SessionHasBegun keeps the types, and the results that calls in progress can have.
LEMMA SessionHasBegunTypes ==
    ASSUME TypeInv, UNCHANGED <<endsEarly, headless>>,
           NEW t \in Threads, SessionHasBegun(t)
    PROVE  TypeInv'
<1>1. TypeOK'
  <2>1. sessionBegun' \in BOOLEAN
    BY Zenon DEF SessionHasBegun, TypeInv, TypeOK
  <2>2. reports' \subseteq Errors \cup Warnings
    <3>1. \/ reports' = reports \cup {} \/ reports' = reports \cup {"begunTwice"}
          \/ reports' = reports \cup {"runningNotBegun"}
      BY Zenon DEF SessionHasBegun, Report, If
    <3> QED
      BY <3>1 DEF Errors, TypeInv, TypeOK
  <2>3. frameCount' \in 0..MaxFrames
    BY ConstantsAssumption DEF SessionHasBegun, TypeInv, TypeOK
  <2> QED
    BY <2>1, <2>2, <2>3, ReturnTypes
       DEF SessionHasBegun, Locked, runtimeVars, TypeInv, TypeOK
<1>2. CallInv'
  BY ConstantsAssumption
     DEF TypeInv, TypeOK, CallInv, MayCall, Ending, States, SessionHasBegun, Locked,
         Return
<1> QED
  BY <1>1, <1>2 DEF TypeInv

\* EndSession keeps the types, and the results that calls in progress can have.
LEMMA EndSessionTypes ==
    ASSUME TypeInv, UNCHANGED <<endsEarly, headless>>,
           NEW t \in Threads, EndSession(t)
    PROVE  TypeInv'
<1>1. TypeOK'
  <2>1. rtRunning' \in BOOLEAN /\ rtExitRequested' \in BOOLEAN
    BY Zenon DEF EndSession, runtimeVars, TypeInv, TypeOK
  <2>2. /\ pc' \in [Threads -> Calls \cup {"idle", "endFrameDone"}]
        /\ got' \in [Threads -> States \cup Results \cup {Null}]
        /\ predicted' \in [Threads -> 0..MaxTime]
    BY ForwardedTypes DEF EndSession, TypeInv, Calls, Results
  <2> QED
    BY <2>1, <2>2 DEF EndSession, runtimeVars, layerVars, TypeInv, TypeOK
<1>2. CallInv'
  BY ConstantsAssumption, SMTT(30)
     DEF TypeInv, TypeOK, CallInv, MayCall, Delivered, Ending, States, EndSession,
         Forwarded, runtimeVars, layerVars
<1> QED
  BY <1>1, <1>2 DEF TypeInv

\* SessionHasEnded keeps the types, and the results that calls in progress can have.
LEMMA SessionHasEndedTypes ==
    ASSUME TypeInv, UNCHANGED <<endsEarly, headless>>,
           NEW t \in Threads, SessionHasEnded(t)
    PROVE  TypeInv'
<1>1. TypeOK'
  <2>1. sessionBegun' \in BOOLEAN /\ sessionExitRequested' \in BOOLEAN
    BY Zenon DEF SessionHasEnded, NotBegun, ExitRequestOver, TypeInv, TypeOK
  <2>2. reports' \subseteq Errors \cup Warnings
    <3>1. got[t] \in {"SUCCESS", "SESSION_NOT_RUNNING", "SESSION_NOT_STOPPING"}
      BY DEF SessionHasEnded, TypeInv, CallInv
    <3> QED
      BY <3>1, SMTT(10) DEF SessionHasEnded, Report, If, Errors, Warnings, TypeInv, TypeOK
  <2> QED
    BY <2>1, <2>2, ReturnTypes DEF SessionHasEnded, Locked, runtimeVars, TypeInv, TypeOK
<1>2. CallInv'
  BY DEF TypeInv, TypeOK, CallInv, Ending, SessionHasEnded, Locked, Return
<1> QED
  BY <1>1, <1>2 DEF TypeInv

\* RequestExitSession keeps the types, and the results that calls in progress can have.
LEMMA RequestExitSessionTypes ==
    ASSUME TypeInv, UNCHANGED <<endsEarly, headless>>,
           NEW t \in Threads, RequestExitSession(t)
    PROVE  TypeInv'
<1>1. TypeOK'
  BY DEF TypeInv, TypeOK, Calls, Results, RequestExitSession, Forwarded, layerVars
<1>2. CallInv'
  BY DEF TypeInv, CallInv, MayCall, Ending, RequestExitSession, Forwarded, layerVars
<1> QED
  BY <1>1, <1>2 DEF TypeInv

\* ExitIsRequested keeps the types, and the results that calls in progress can have.
LEMMA ExitIsRequestedTypes ==
    ASSUME TypeInv, UNCHANGED <<endsEarly, headless>>,
           NEW t \in Threads, ExitIsRequested(t)
    PROVE  TypeInv'
<1>1. TypeOK'
  <2>1. sessionExitRequested' \in BOOLEAN
    BY Zenon DEF ExitIsRequested, TypeInv, TypeOK
  <2>2. reports' \subseteq Errors \cup Warnings
    <3>1. \/ reports' = reports \cup {} \/ reports' = reports \cup {"endNotBegun"}
          \/ reports' = reports \cup {"begunNotRunning"}
      BY Zenon DEF ExitIsRequested, Report, If
    <3> QED
      BY <3>1 DEF Errors, TypeInv, TypeOK
  <2> QED
    BY <2>1, <2>2, ReturnTypes DEF ExitIsRequested, Locked, runtimeVars, TypeInv, TypeOK
<1>2. CallInv'
  BY DEF TypeInv, CallInv, Ending, States, ExitIsRequested, Locked, Return
<1> QED
  BY <1>1, <1>2 DEF TypeInv

\* WaitFrame keeps the types, and the results that calls in progress can have.
LEMMA WaitFrameTypes ==
    ASSUME TypeInv, UNCHANGED <<endsEarly, headless>>,
           NEW t \in Threads, WaitFrame(t)
    PROVE  TypeInv'
<1>1. TypeOK'
  BY ConstantsAssumption
     DEF TypeInv, TypeOK, CallInv, MayCall, States, Calls, WaitFrame, layerVars
<1>2. CallInv'
  BY DEF TypeInv, CallInv, MayCall, Ending, WaitFrame, layerVars
<1> QED
  BY <1>1, <1>2 DEF TypeInv

\* FrameIsPredicted keeps the types, and the results that calls in progress can have.
LEMMA FrameIsPredictedTypes ==
    ASSUME TypeInv, UNCHANGED <<endsEarly, headless>>,
           NEW t \in Threads, FrameIsPredicted(t)
    PROVE  TypeInv'
<1>1. TypeOK'
  BY ConstantsAssumption
     DEF TypeInv, TypeOK, CallInv, MayCall, States, Errors, Warnings, Calls,
         FrameIsPredicted, Locked, Report, If, PredictedTime, Return, runtimeVars
<1>2. CallInv'
  BY DEF TypeInv, CallInv, Ending, States, FrameIsPredicted, Locked, Return
<1> QED
  BY <1>1, <1>2 DEF TypeInv

\* BeginFrame keeps the types, and the results that calls in progress can have.
LEMMA BeginFrameTypes ==
    ASSUME TypeInv, UNCHANGED <<endsEarly, headless>>,
           NEW t \in Threads, BeginFrame(t)
    PROVE  TypeInv'
<1>1. TypeOK'
  <2>1. rtWaited' \in BOOLEAN /\ rtFrameBegun' \in BOOLEAN
    BY Zenon DEF BeginFrame
  <2>2. /\ pc' \in [Threads -> Calls \cup {"idle", "endFrameDone"}]
        /\ got' \in [Threads -> States \cup Results \cup {Null}]
        /\ predicted' \in [Threads -> 0..MaxTime]
    BY ForwardedTypes DEF BeginFrame, TypeInv, Calls, Results
  <2> QED
    BY <2>1, <2>2 DEF BeginFrame, layerVars, TypeInv, TypeOK
<1>2. CallInv'
  BY DEF TypeInv, TypeOK, CallInv, MayCall, Ending, BeginFrame, Forwarded, layerVars
<1> QED
  BY <1>1, <1>2 DEF TypeInv

\* FrameHasBegun keeps the types, and the results that calls in progress can have.
LEMMA FrameHasBegunTypes ==
    ASSUME TypeInv, UNCHANGED <<endsEarly, headless>>,
           NEW t \in Threads, FrameHasBegun(t)
    PROVE  TypeInv'
<1>1. TypeOK'
  BY ConstantsAssumption
     DEF TypeInv, TypeOK, CallInv, MayCall, States, Errors, Warnings, FrameHasBegun,
         Locked, Report, If, Return, runtimeVars
<1>2. CallInv'
  BY DEF TypeInv, TypeOK, CallInv, Ending, States, FrameHasBegun, Locked, Return
<1> QED
  BY <1>1, <1>2 DEF TypeInv

\* EnterEndFrame keeps the types, and the results that calls in progress can have.
LEMMA EnterEndFrameTypes ==
    ASSUME TypeInv, UNCHANGED <<endsEarly, headless>>,
           NEW t \in Threads, EnterEndFrame(t)
    PROVE  TypeInv'
<1>1. TypeOK'
  BY DEF TypeInv, TypeOK, Warnings, Calls, EnterEndFrame, Forwarded, runtimeVars,
         layerVars
<1>2. CallInv'
  BY ConstantsAssumption
     DEF TypeInv, TypeOK, CallInv, MayCall, Ending, EnterEndFrame, Forwarded, layerVars
<1> QED
  BY <1>1, <1>2 DEF TypeInv

\* EndFrame keeps the types, and the results that calls in progress can have.
LEMMA EndFrameTypes ==
    ASSUME TypeInv, UNCHANGED <<endsEarly, headless>>,
           NEW t \in Threads, EndFrame(t)
    PROVE  TypeInv'
<1>1. TypeOK'
  <2>1. rtFrameBegun' \in BOOLEAN /\ rtSubmitted' \in BOOLEAN
    BY Zenon DEF EndFrame, TypeInv, TypeOK
  <2>2. /\ pc' \in [Threads -> Calls \cup {"idle", "endFrameDone"}]
        /\ got' \in [Threads -> States \cup Results \cup {Null}]
        /\ predicted' \in [Threads -> 0..MaxTime]
    BY ForwardedTypes DEF EndFrame, TypeInv, Results
  <2> QED
    BY <2>1, <2>2 DEF EndFrame, layerVars, TypeInv, TypeOK
<1>2. CallInv'
  BY ConstantsAssumption
     DEF TypeInv, TypeOK, CallInv, MayCall, Ending, States, EndFrame, Forwarded, layerVars
<1> QED
  BY <1>1, <1>2 DEF TypeInv

\* FrameHasEnded keeps the types, and the results that calls in progress can have.
LEMMA FrameHasEndedTypes ==
    ASSUME TypeInv, UNCHANGED <<endsEarly, headless>>,
           NEW t \in Threads, FrameHasEnded(t)
    PROVE  TypeInv'
<1>1. TypeOK'
  <2>1. frameBegun' \in BOOLEAN
    BY Zenon DEF FrameHasEnded, FrameOver, TypeInv, TypeOK
  <2>2. reports' \subseteq Errors \cup Warnings
    <3>1. \/ reports' = reports \/ reports' = reports \cup {}
          \/ reports' = reports \cup {"endFrameNotBegun"}
      BY Zenon DEF FrameHasEnded, Report, If
    <3> QED
      BY <3>1 DEF Errors, TypeInv, TypeOK
  <2>3. frameCount' \in 0..MaxFrames
    <3>1. frameCount < MaxFrames
      BY DEF FrameHasEnded, TypeInv, CallInv, Ending
    <3> QED
      BY <3>1, ConstantsAssumption, SMTT(10) DEF FrameHasEnded, TypeInv, TypeOK
  <2> QED
    BY <2>1, <2>2, <2>3, ReturnTypes DEF FrameHasEnded, runtimeVars, TypeInv, TypeOK
<1>2. CallInv'
  BY ConstantsAssumption
     DEF TypeInv, TypeOK, CallInv, MayCall, Ending, States, FrameHasEnded, Return
<1> QED
  BY <1>1, <1>2 DEF TypeInv

\* Every step keeps the types.
LEMMA NextTypes ==
    ASSUME TypeInv, [Next]_vars
    PROVE  TypeInv'
<1>1. CASE UNCHANGED vars
  BY <1>1 DEF TypeInv, TypeOK, CallInv, vars
<1>2. ASSUME UNCHANGED <<endsEarly, headless>>, NEW s \in States, RuntimeTransition(s)
      PROVE  TypeInv'
  BY <1>2, RuntimeTransitionTypes
<1>3. ASSUME UNCHANGED <<endsEarly, headless>>, NEW t \in Threads, Lifecycle(t)
      PROVE  TypeInv'
  BY <1>3, PollEventTypes, SessionStateChangedTypes, BeginSessionTypes, SessionHasBegunTypes,
     EndSessionTypes, SessionHasEndedTypes, RequestExitSessionTypes, ExitIsRequestedTypes
     DEF Lifecycle
<1>4. ASSUME UNCHANGED <<endsEarly, headless>>, NEW t \in Threads, FrameLoop(t)
      PROVE  TypeInv'
  BY <1>4, WaitFrameTypes, FrameIsPredictedTypes, BeginFrameTypes, FrameHasBegunTypes,
     EnterEndFrameTypes, EndFrameTypes, FrameHasEndedTypes
     DEF FrameLoop
<1> QED
  BY <1>1, <1>2, <1>3, <1>4 DEF Next

\* Nothing has been called, and nothing has happened.
LEMMA InitTypes == Init => TypeInv
<1> SUFFICES ASSUME Init PROVE TypeInv
  OBVIOUS
<1>1. TypeOK
  <2>1. queue \in Seq(States) /\ Len(queue) <= MaxEvents
    BY ConstantsAssumption, EmptySeq DEF Init
  <2>2. /\ rtRunning \in BOOLEAN /\ rtExitRequested \in BOOLEAN /\ rtFrameBegun \in BOOLEAN
        /\ rtWaited \in BOOLEAN /\ rtSubmitted \in BOOLEAN
        /\ endsEarly \in BOOLEAN /\ headless \in BOOLEAN
        /\ sessionBegun \in BOOLEAN /\ sessionExitRequested \in BOOLEAN /\ frameBegun \in BOOLEAN
    BY Zenon DEF Init
  <2>3. /\ rtState \in States /\ sessionState \in States
        /\ rtTime \in 0..MaxTime /\ lastPredictedDisplayTime \in 0..MaxTime
        /\ frameCount \in 0..MaxFrames /\ lock \in Threads \cup {Null}
        /\ reports \subseteq Errors \cup Warnings
    BY ConstantsAssumption DEF Init, States
  <2>4. /\ pc \in [Threads -> Calls \cup {"idle", "endFrameDone"}]
        /\ got \in [Threads -> States \cup Results \cup {Null}]
        /\ predicted \in [Threads -> 0..MaxTime]
    BY ConstantsAssumption DEF Init
  <2> QED
    BY <2>1, <2>2, <2>3, <2>4 DEF TypeOK
<1>2. CallInv
  BY ConstantsAssumption DEF Init, CallInv, Ending
<1> QED  BY <1>1, <1>2 DEF TypeInv

\* Every variable has its type, whatever calls overlap and whatever the runtime accepts.
THEOREM TypeCorrect == Spec => []TypeOK
<1>1. TypeInv /\ [Next]_vars => TypeInv'
  BY NextTypes
<1>2. TypeInv => TypeOK
  BY DEF TypeInv
<1> QED
  BY <1>1, <1>2, InitTypes, PTL DEF Spec

-----------------------------------------------------------------------------
(* The record of the layer, without races.                                 *)

\* The verdict stands as long as nothing is reported and the runtime stays in its state.
LEMMA VerdictKept ==
    ASSUME NoFalseReport, UNCHANGED <<reports, rtState, endsEarly>>
    PROVE  NoFalseReport'
BY DEF NoFalseReport, NoFalseError, EarlyEndExplains, UnpolledExplains, LossExplains

\* The runtime changes the state of the session and queues the event: the path gets one
\* change longer.
LEMMA RuntimeTransitionInvariant ==
    ASSUME Serialised, IInv, UNCHANGED <<endsEarly, headless>>,
           NEW s \in States, RuntimeTransition(s)
    PROVE  IInv'
<1>1. TypeInv'
  BY RuntimeTransitionTypes DEF IInv
<1>2. NoRace'
  BY DEF IInv, TypeInv, NoRace, RuntimeTransition
<1>3. RunningInv'
  BY DEF IInv, TypeInv, MayEnter, RunningInv, Unrecorded, Succeeded, RuntimeTransition,
         layerVars
<1>4. StateInv'
  <2>1. Follows(rtState, s, rtRunning)
    BY SMTT(10)
       DEF RuntimeTransition, MayEnter, Follows, IInv, TypeInv, TypeOK, RunningInv
  <2>2. queue \in Seq(States)
    BY DEF IInv, TypeInv, TypeOK
  <2>3. \A old : Leads(old, queue, rtState, rtRunning) =>
                    Leads(old, Append(queue, s), s, rtRunning)
    BY <2>1, <2>2, LeadsAppend
  <2> QED
    BY <2>3 DEF RuntimeTransition, layerVars, IInv, StateInv
<1>5. ExitInv'
  BY DEF IInv, TypeInv, ExitInv, Unrecorded, Succeeded, RuntimeTransition, layerVars
<1>6. SynchronizedInv'
  BY DEF IInv, TypeInv, MayEnter, SynchronizedInv, RuntimeTransition
<1>7. FrameInv'
  BY DEF IInv, TypeInv, FrameInv, Unrecorded, Succeeded, RuntimeTransition, layerVars
<1>8. TimeInv'
  BY DEF IInv, TypeInv, TimeInv, RuntimeTransition, layerVars
<1>9. NoFalseReport'
  <2>1. UNCHANGED <<reports, endsEarly>> /\ rtState # "LOSS_PENDING"
    BY DEF RuntimeTransition, MayEnter
  <2> QED
    BY <2>1
       DEF IInv, NoFalseReport, NoFalseError, EarlyEndExplains, UnpolledExplains, LossExplains
<1>10. LossInv'
  <2>1. queue \in Seq(States) /\ queue' = Append(queue, s) /\ rtState' = s
    BY DEF RuntimeTransition, IInv, TypeInv, TypeOK
  <2>2. rtState # "LOSS_PENDING"
    BY DEF RuntimeTransition, MayEnter
  <2>3. \A n \in DOMAIN queue' : queue'[n] = "LOSS_PENDING" => s = "LOSS_PENDING"
    BY <2>1, <2>2, SMTT(10) DEF IInv, LossInv
  <2> QED
    BY <2>1, <2>2, <2>3 DEF RuntimeTransition, layerVars, IInv, LossInv
<1> QED
  BY <1>1, <1>2, <1>3, <1>4, <1>5, <1>6, <1>7, <1>8, <1>9, <1>10 DEF IInv

\* xrPollEvent delivers the first change of the path.
LEMMA PollEventInvariant ==
    ASSUME Serialised, IInv, UNCHANGED <<endsEarly, headless>>,
           NEW t \in Threads, PollEvent(t)
    PROVE  IInv'
<1>1. TypeInv'
  BY PollEventTypes DEF IInv
<1>2. NoRace'
  BY Entered DEF PollEvent, Forwarded, Calls, IInv, TypeInv
<1>3. RunningInv'
  BY DEF IInv, TypeInv, TypeOK, MayCall, Calls, Excluded, Ending, RunningInv, Unrecorded,
         Succeeded, PollEvent, Forwarded, layerVars
<1>4. StateInv'
  <2>1. \A u \in Threads : pc[u] # "pollEvent"
    BY Alone DEF PollEvent, Calls, Excluded, IInv, TypeInv
  <2>2. queue \in Seq(States) /\ queue # <<>>
    BY DEF PollEvent, IInv, TypeInv, TypeOK
  <2>3. /\ Follows(sessionState, Head(queue), rtRunning)
        /\ Leads(Head(queue), Tail(queue), rtState, rtRunning)
    BY <2>1, <2>2, LeadsTail DEF IInv, StateInv
  <2> QED
    BY <2>1, <2>3, SMTT(10)
       DEF PollEvent, Forwarded, layerVars, StateInv, IInv, TypeInv, TypeOK
<1>5. ExitInv'
  BY DEF IInv, TypeInv, TypeOK, MayCall, Calls, Excluded, Ending, ExitInv, Unrecorded,
         Succeeded, PollEvent, Forwarded, layerVars
<1>6. SynchronizedInv'
  BY DEF IInv, TypeInv, TypeOK, SynchronizedInv, PollEvent, Forwarded
<1>7. FrameInv'
  BY DEF IInv, TypeInv, TypeOK, MayCall, Calls, Excluded, Ending, FrameInv, Unrecorded,
         Succeeded, PollEvent, Forwarded, layerVars
<1>8. TimeInv'
  BY DEF IInv, TypeInv, MayCall, TimeInv, PollEvent, Forwarded, layerVars
<1>9. NoFalseReport'
  BY VerdictKept DEF IInv, PollEvent
<1>10. LossInv'
  <2>1. queue \in Seq(States) /\ queue # <<>> /\ queue' = Tail(queue) /\ rtState' = rtState
    BY DEF PollEvent, IInv, TypeInv, TypeOK
  <2>2. \A n \in DOMAIN queue' : n + 1 \in DOMAIN queue /\ queue'[n] = queue[n + 1]
    BY <2>1, SMTT(10)
  <2>3. \A u \in Threads : pc'[u] = "endSession" => pc[u] = "endSession" /\ got'[u] = got[u]
    BY SMTT(10) DEF PollEvent, Forwarded, IInv, TypeInv, TypeOK
  <2> QED
    BY <2>1, <2>2, <2>3 DEF PollEvent, layerVars, IInv, LossInv
<1> QED
  BY <1>1, <1>2, <1>3, <1>4, <1>5, <1>6, <1>7, <1>8, <1>9, <1>10 DEF IInv

\* The hook of xrPollEvent judges a change the life cycle allows.
LEMMA SessionStateChangedInvariant ==
    ASSUME Serialised, IInv, UNCHANGED <<endsEarly, headless>>,
           NEW t \in Threads, SessionStateChanged(t)
    PROVE  IInv'
<1>1. TypeInv'
  BY SessionStateChangedTypes DEF IInv
<1>2. NoRace'
  BY DEF IInv, TypeInv, NoRace, Excluded, Ending, SessionStateChanged, Return
<1>3. RunningInv'
  BY ConstantsAssumption, SMTT(30)
     DEF IInv, TypeInv, TypeOK, CallInv, NoRace, Excluded, Ending, RunningInv,
         Unrecorded, Succeeded, SessionStateChanged, IsValidStateTransition, Return,
         runtimeVars, validStateTransitions
<1>4. StateInv'
  BY ConstantsAssumption
     DEF IInv, TypeInv, TypeOK, CallInv, NoRace, Excluded, Ending, StateInv,
         SessionStateChanged, Locked, IsValidStateTransition, Return, runtimeVars,
         validStateTransitions
<1>5. ExitInv'
  BY DEF IInv, TypeInv, ExitInv, Unrecorded, Succeeded, SessionStateChanged, Locked,
         Return, runtimeVars
<1>6. SynchronizedInv'
  BY DEF IInv, TypeInv, TypeOK, SynchronizedInv, SessionStateChanged, Locked, Return,
         runtimeVars
<1>7. FrameInv'
  BY DEF IInv, TypeInv, FrameInv, Unrecorded, Succeeded, SessionStateChanged, Locked,
         Return, runtimeVars
<1>8. TimeInv'
  BY DEF IInv, TypeInv, TimeInv, SessionStateChanged, Return, runtimeVars
<1>9. NoFalseReport'
  <2> DEFINE s == got[t]
  <2>1. /\ \A u \in Threads : ~Succeeded(u, "beginSession") /\ ~Succeeded(u, "endSession")
        /\ \A u \in Threads : ~Succeeded(u, "requestExit")
    BY SMTT(10) DEF SessionStateChanged, IInv, NoRace, Excluded, Succeeded, Ending
  <2>2. Follows(sessionState, s, rtRunning)
    BY DEF SessionStateChanged, IInv, StateInv
  <2>3. sessionBegun <=> rtRunning
    BY <2>1 DEF IInv, RunningInv, Unrecorded
  <2>4. IsValidStateTransition(sessionState, s)
    BY <2>2, SMTT(10) DEF Follows, IsValidStateTransition, validStateTransitions
  <2>5. (s = "SYNCHRONIZED" => sessionBegun) /\ (s = "IDLE" => ~sessionBegun)
    BY <2>2, <2>3, SMTT(10) DEF Follows
  <2>6. s = "SYNCHRONIZED" =>
           frameCount # 0 \/ sessionExitRequested \/ headless \/ endsEarly
    <3>1. s = "SYNCHRONIZED" => rtSubmitted \/ rtExitRequested \/ headless \/ endsEarly
      BY DEF SessionStateChanged, IInv, SynchronizedInv
    <3>2. ~Unrecorded("endFrameDone")
      BY ConstantsAssumption, SMTT(10)
         DEF SessionStateChanged, Locked, IInv, TypeInv, CallInv, Ending, Unrecorded, Succeeded
    <3>3. rtRunning => (frameCount > 0 <=> rtSubmitted)
      BY <2>1, <3>2 DEF IInv, FrameInv, Unrecorded
    <3>4. sessionExitRequested <=> rtExitRequested
      BY <2>1 DEF IInv, ExitInv, Unrecorded
    <3>5. frameCount > 0 => frameCount # 0
      BY DEF IInv, TypeInv, TypeOK
    <3> QED
      BY <2>3, <2>5, <3>1, <3>3, <3>4, <3>5
  <2>7. \/ reports' = reports
        \/ endsEarly /\ reports' = reports \cup {"synchronizedNoFrame"}
    BY <2>4, <2>5, <2>6 DEF SessionStateChanged, Report, If
  <2>8. UNCHANGED <<rtState, endsEarly>> /\ "synchronizedNoFrame" \notin Errors
    BY DEF SessionStateChanged, runtimeVars, Errors
  <2> QED
    BY <2>7, <2>8
       DEF IInv, NoFalseReport, NoFalseError, EarlyEndExplains, UnpolledExplains, LossExplains
<1>10. LossInv'
  <2>1. \A u \in Threads : pc'[u] # "endSession"
    BY SMTT(10)
       DEF SessionStateChanged, Return, IInv, TypeInv, TypeOK, NoRace, Excluded, Ending
  <2> QED
    BY <2>1 DEF SessionStateChanged, runtimeVars, IInv, LossInv
<1> QED
  BY <1>1, <1>2, <1>3, <1>4, <1>5, <1>6, <1>7, <1>8, <1>9, <1>10 DEF IInv

\* xrBeginSession in the runtime: the layer knows the session to be READY.
LEMMA BeginSessionInvariant ==
    ASSUME Serialised, IInv, UNCHANGED <<endsEarly, headless>>,
           NEW t \in Threads, BeginSession(t)
    PROVE  IInv'
<1> USE DEF IInv, TypeInv
<1>1. /\ pc[t] = "idle"
      /\ \A u \in Threads : pc[u] \notin {"pollEvent", "beginSession", "endSession",
                                          "requestExit", "endFrame", "endFrameDone"}
  BY Alone, SMTT(10) DEF BeginSession, MayCall, Excluded, Ending, Calls
<1>2. (sessionBegun <=> rtRunning) /\ Leads(sessionState, queue, rtState, rtRunning)
  BY <1>1 DEF RunningInv, StateInv, Unrecorded, Succeeded
<1>3. NoRace'
  BY Entered DEF BeginSession, Forwarded, Calls
<1>4. /\ UNCHANGED <<rtState, rtExitRequested, rtFrameBegun, rtWaited, rtTime, queue, lock,
                     layerVars, reports, predicted>>
      /\ pc' = [pc EXCEPT ![t] = "beginSession"]
  BY DEF BeginSession, Forwarded, runtimeVars
<1>5. TypeInv'
  BY BeginSessionTypes
<1>6. LossInv'
  BY <1>1, <1>4, SMTT(10) DEF LossInv, layerVars, TypeOK
<1>7. NoFalseReport'
  BY <1>4, VerdictKept
<1>8. CASE /\ ~rtRunning /\ rtState = "READY" /\ queue = <<>>
           /\ rtRunning' = TRUE /\ rtSubmitted' = FALSE
           /\ got' = [got EXCEPT ![t] = "SUCCESS"]
  <2>1. sessionState = "READY"
    BY <1>2, <1>8 DEF Leads
  <2>2. RunningInv'
    BY <1>1, <1>2, <1>4, <1>8, <2>1, SMTT(10)
       DEF RunningInv, Unrecorded, Succeeded, layerVars, TypeOK
  <2>3. StateInv'
    <3>1. Leads(sessionState, queue, rtState, rtRunning)'
      BY <1>4, <1>8, <2>1 DEF Leads, layerVars
    <3> QED
      BY <1>1, <1>4, <3>1 DEF StateInv, TypeOK
  <2>4. ExitInv' /\ FrameInv'
    BY <1>1, <1>4, <1>8, SMTT(10)
       DEF ExitInv, FrameInv, RunningInv, Unrecorded, Succeeded, layerVars, TypeOK
  <2>5. SynchronizedInv'
    BY <1>1, <1>4, <1>8, SMTT(10) DEF SynchronizedInv, TypeOK
  <2>6. TimeInv'
    BY <1>1, <1>4, SMTT(10) DEF TimeInv, layerVars, TypeOK
  <2> QED
    BY <1>3, <1>5, <1>6, <1>7, <2>2, <2>3, <2>4, <2>5, <2>6
<1>9. CASE /\ rtRunning /\ UNCHANGED <<rtRunning, rtSubmitted>>
           /\ got' = [got EXCEPT ![t] = "SESSION_RUNNING"]
  <2>1. RunningInv'
    BY <1>1, <1>2, <1>4, <1>9, SMTT(10)
       DEF RunningInv, Unrecorded, Succeeded, layerVars, TypeOK
  <2>2. StateInv'
    <3>1. Leads(sessionState, queue, rtState, rtRunning)'
      BY <1>2, <1>4, <1>9, Zenon DEF layerVars
    <3> QED
      BY <1>1, <1>4, <3>1 DEF StateInv, TypeOK
  <2>3. ExitInv' /\ FrameInv'
    BY <1>1, <1>4, <1>9, SMTT(10)
       DEF ExitInv, FrameInv, RunningInv, Unrecorded, Succeeded, layerVars, TypeOK
  <2>4. SynchronizedInv'
    BY <1>1, <1>4, <1>9, SMTT(10) DEF SynchronizedInv, TypeOK
  <2>5. TimeInv'
    BY <1>1, <1>4, SMTT(10) DEF TimeInv, layerVars, TypeOK
  <2> QED
    BY <1>3, <1>5, <1>6, <1>7, <2>1, <2>2, <2>3, <2>4, <2>5
<1> QED
  BY <1>8, <1>9 DEF BeginSession, Forwarded, Delivered, Serialised, runtimeVars

\* The hook of xrBeginSession.
LEMMA SessionHasBegunInvariant ==
    ASSUME Serialised, IInv, UNCHANGED <<endsEarly, headless>>,
           NEW t \in Threads, SessionHasBegun(t)
    PROVE  IInv'
<1>1. TypeInv'
  BY SessionHasBegunTypes DEF IInv
<1>2. NoRace'
  BY DEF IInv, TypeInv, NoRace, Excluded, Ending, SessionHasBegun, Return
<1>3. RunningInv'
  BY ConstantsAssumption
     DEF IInv, TypeInv, TypeOK, CallInv, NoRace, Excluded, Ending, RunningInv,
         Unrecorded, Succeeded, SessionHasBegun, Locked, Return, runtimeVars
<1>4. StateInv'
  BY DEF IInv, TypeInv, StateInv, SessionHasBegun, Return, runtimeVars
<1>5. ExitInv'
  BY DEF IInv, TypeInv, ExitInv, Unrecorded, Succeeded, SessionHasBegun, Return,
         runtimeVars
<1>6. SynchronizedInv'
  BY DEF IInv, TypeInv, SynchronizedInv, SessionHasBegun, Return, runtimeVars
<1>7. FrameInv'
  BY DEF IInv, TypeInv, TypeOK, FrameInv, Unrecorded, Succeeded, SessionHasBegun, Return,
         runtimeVars
<1>8. TimeInv'
  BY DEF IInv, TypeInv, TimeInv, SessionHasBegun, Return, runtimeVars
<1>9. NoFalseReport'
  <2>1. got[t] \in {"SUCCESS", "SESSION_RUNNING"} /\ rtRunning
    BY DEF SessionHasBegun, IInv, TypeInv, CallInv, RunningInv
  <2>2. CASE got[t] = "SUCCESS"
    <3>1. ~sessionBegun
      BY <2>2 DEF SessionHasBegun, IInv, RunningInv, Unrecorded, Succeeded
    <3>2. reports' = reports
      BY <2>2, <3>1 DEF SessionHasBegun, Report, If
    <3> QED
      BY <3>2, VerdictKept DEF IInv, SessionHasBegun, runtimeVars
  <2>3. CASE got[t] # "SUCCESS"
    <3>1. ~Unrecorded("beginSession") /\ ~Unrecorded("endSession")
      BY <2>3, SMTT(10)
         DEF SessionHasBegun, IInv, NoRace, Excluded, Ending, Unrecorded, Succeeded
    <3>2. sessionBegun
      BY <2>1, <3>1 DEF IInv, RunningInv
    <3>3. reports' = reports
      BY <2>3, <3>2 DEF SessionHasBegun, Report, If
    <3> QED
      BY <3>3, VerdictKept DEF IInv, SessionHasBegun, runtimeVars
  <2> QED  BY <2>2, <2>3
<1>10. LossInv'
  <2>1. \A u \in Threads : pc'[u] = "endSession" => pc[u] = "endSession" /\ got'[u] = got[u]
    BY SMTT(10) DEF SessionHasBegun, Return, TypeOK, IInv, TypeInv
  <2> QED
    BY <2>1 DEF SessionHasBegun, runtimeVars, IInv, LossInv
<1> QED
  BY <1>1, <1>2, <1>3, <1>4, <1>5, <1>6, <1>7, <1>8, <1>9, <1>10 DEF IInv

\* xrEndSession in the runtime: the layer knows the session to be STOPPING.
LEMMA EndSessionInvariant ==
    ASSUME Serialised, IInv, UNCHANGED <<endsEarly, headless>>,
           NEW t \in Threads, EndSession(t)
    PROVE  IInv'
<1> USE DEF IInv, TypeInv
<1>1. /\ pc[t] = "idle"
      /\ \A u \in Threads : pc[u] \notin {"pollEvent", "beginSession", "endSession",
                                          "requestExit"}
  BY Alone, SMTT(10) DEF EndSession, MayCall, Excluded, Ending, Calls
<1>2. (sessionBegun <=> rtRunning) /\ Leads(sessionState, queue, rtState, rtRunning)
  BY <1>1 DEF RunningInv, StateInv, Unrecorded, Succeeded
<1>3. NoRace'
  BY Entered DEF EndSession, Forwarded, Calls
<1>4. /\ UNCHANGED <<rtState, rtFrameBegun, rtWaited, rtSubmitted, rtTime, queue, lock,
                     layerVars, reports, predicted>>
      /\ pc' = [pc EXCEPT ![t] = "endSession"]
  BY DEF EndSession, Forwarded, runtimeVars
<1>5. TypeInv'
  BY EndSessionTypes
<1>6. LossInv'
  <2>1. (rtRunning /\ sessionState = "STOPPING" /\ queue # <<>>) => rtState = "LOSS_PENDING"
    <3> SUFFICES ASSUME rtRunning, sessionState = "STOPPING", queue # <<>>
                 PROVE  rtState = "LOSS_PENDING"
      OBVIOUS
    <3>1. queue[1] = "LOSS_PENDING"
      BY <1>2, SMTT(10) DEF Leads, Follows
    <3>2. 1 \in DOMAIN queue
      BY EmptySeq, SMTT(10) DEF TypeOK
    <3> QED
      BY <3>1, <3>2 DEF LossInv
  <2>2. (sessionState = "STOPPING" /\ queue = <<>>) => rtState = "STOPPING"
    BY <1>2 DEF Leads
  <2>3. got'[t] = "SESSION_NOT_STOPPING" /\ sessionState = "STOPPING" => rtState = "LOSS_PENDING"
    <3>1. got'[t] = "SESSION_NOT_STOPPING" => rtRunning /\ ~(rtState = "STOPPING" /\ queue = <<>>)
      BY SMTT(10) DEF EndSession, Forwarded, Delivered, Serialised, TypeOK
    <3> QED
      BY <2>1, <2>2, <3>1
  <2>4. \A u \in Threads : u # t => pc'[u] # "endSession"
    BY <1>1, <1>4 DEF TypeOK
  <2> QED
    BY <1>4, <2>3, <2>4 DEF LossInv, layerVars
<1>7. NoFalseReport'
  BY <1>4, VerdictKept
<1>8. CASE /\ rtRunning /\ rtState = "STOPPING" /\ queue = <<>>
           /\ rtRunning' = FALSE /\ rtExitRequested' = FALSE
           /\ got' = [got EXCEPT ![t] = "SUCCESS"]
  <2>1. sessionState = "STOPPING"
    BY <1>2, <1>8 DEF Leads
  <2>2. RunningInv'
    BY <1>1, <1>2, <1>4, <1>8, <2>1, SMTT(10)
       DEF RunningInv, Unrecorded, Succeeded, layerVars, TypeOK
  <2>3. StateInv'
    <3>1. Leads(sessionState, queue, rtState, rtRunning)'
      BY <1>4, <1>8, <2>1 DEF Leads, layerVars
    <3> QED
      BY <1>1, <1>4, <3>1 DEF StateInv, TypeOK
  <2>4. ExitInv' /\ FrameInv'
    BY <1>1, <1>4, <1>8, SMTT(10)
       DEF ExitInv, FrameInv, RunningInv, Unrecorded, Succeeded, layerVars, TypeOK
  <2>5. SynchronizedInv'
    BY <1>1, <1>4, <1>8, SMTT(10) DEF SynchronizedInv, TypeOK
  <2>6. TimeInv'
    BY <1>1, <1>4, SMTT(10) DEF TimeInv, layerVars, TypeOK
  <2> QED
    BY <1>3, <1>5, <1>6, <1>7, <2>2, <2>3, <2>4, <2>5, <2>6
<1>9. CASE /\ UNCHANGED <<rtRunning, rtExitRequested>>
           /\ got' = [got EXCEPT ![t] = IF rtRunning THEN "SESSION_NOT_STOPPING"
                                        ELSE "SESSION_NOT_RUNNING"]
  <2>1. RunningInv'
    BY <1>1, <1>2, <1>4, <1>9, SMTT(10)
       DEF RunningInv, Unrecorded, Succeeded, layerVars, TypeOK
  <2>2. StateInv'
    <3>1. Leads(sessionState, queue, rtState, rtRunning)'
      BY <1>2, <1>4, <1>9, Zenon DEF layerVars
    <3> QED
      BY <1>1, <1>4, <3>1 DEF StateInv, TypeOK
  <2>3. ExitInv' /\ FrameInv'
    BY <1>1, <1>4, <1>9, SMTT(10)
       DEF ExitInv, FrameInv, RunningInv, Unrecorded, Succeeded, layerVars, TypeOK
  <2>4. SynchronizedInv'
    BY <1>1, <1>4, <1>9, SMTT(10) DEF SynchronizedInv, TypeOK
  <2>5. TimeInv'
    BY <1>1, <1>4, SMTT(10) DEF TimeInv, layerVars, TypeOK
  <2> QED
    BY <1>3, <1>5, <1>6, <1>7, <2>1, <2>2, <2>3, <2>4, <2>5
<1> QED
  BY <1>8, <1>9 DEF EndSession, Forwarded, Delivered, Serialised, runtimeVars

\* The hook of xrEndSession.
LEMMA SessionHasEndedInvariant ==
    ASSUME Serialised, IInv, UNCHANGED <<endsEarly, headless>>,
           NEW t \in Threads, SessionHasEnded(t)
    PROVE  IInv'
<1>1. TypeInv'
  BY SessionHasEndedTypes DEF IInv
<1>2. NoRace'
  BY DEF IInv, TypeInv, NoRace, Excluded, Ending, SessionHasEnded, Locked, Return
<1>3. RunningInv'
  BY ConstantsAssumption
     DEF IInv, TypeInv, TypeOK, CallInv, NoRace, Excluded, Ending, RunningInv,
         Unrecorded, Succeeded, SessionHasEnded, Locked, Report, If, NotBegun, Return,
         runtimeVars
<1>4. StateInv'
  BY DEF IInv, TypeInv, StateInv, SessionHasEnded, Return, runtimeVars
<1>5. ExitInv'
  BY DEF IInv, TypeInv, TypeOK, CallInv, NoRace, RunningInv, Unrecorded, Succeeded,
         Excluded, Ending, ExitInv, SessionHasEnded, ExitRequestOver, Return, runtimeVars
<1>6. SynchronizedInv'
  BY DEF IInv, TypeInv, SynchronizedInv, SessionHasEnded, Return, runtimeVars
<1>7. FrameInv'
  BY DEF IInv, TypeInv, FrameInv, Unrecorded, Succeeded, SessionHasEnded, Locked, Return,
         runtimeVars
<1>8. TimeInv'
  BY DEF IInv, TypeInv, TimeInv, SessionHasEnded, Return, runtimeVars
<1>9. NoFalseReport'
  <2>1. got[t] \in {"SUCCESS", "SESSION_NOT_RUNNING", "SESSION_NOT_STOPPING"}
    BY DEF SessionHasEnded, IInv, TypeInv, CallInv
  <2>2. UNCHANGED <<rtState, endsEarly>>
    BY DEF SessionHasEnded, runtimeVars
  <2>3. CASE got[t] = "SUCCESS"
    <3>1. sessionBegun /\ sessionState = "STOPPING"
      BY <2>3 DEF SessionHasEnded, IInv, RunningInv, Unrecorded, Succeeded
    <3>2. reports' = reports
      BY <2>3, <3>1 DEF SessionHasEnded, Report, If
    <3> QED
      BY <2>2, <3>2, VerdictKept DEF IInv
  <2>4. CASE got[t] = "SESSION_NOT_RUNNING"
    <3>1. ~Unrecorded("beginSession") /\ ~Unrecorded("endSession")
      BY <2>4, SMTT(10)
         DEF SessionHasEnded, IInv, NoRace, Excluded, Ending, Unrecorded, Succeeded
    <3>2. ~sessionBegun
      BY <2>4, <3>1 DEF SessionHasEnded, IInv, RunningInv
    <3>3. reports' = reports
      BY <2>4, <3>2 DEF SessionHasEnded, Report, If
    <3> QED
      BY <2>2, <3>3, VerdictKept DEF IInv
  <2>5. CASE got[t] = "SESSION_NOT_STOPPING"
    <3>1. sessionState = "STOPPING" => rtState = "LOSS_PENDING"
      BY <2>5 DEF SessionHasEnded, IInv, LossInv
    <3>2. reports' = reports \cup If(sessionState = "STOPPING", "stoppingNotEnded")
      BY <2>5 DEF SessionHasEnded, Report
    <3>3. CASE sessionState = "STOPPING"
      <4>1. reports' = reports \cup {"stoppingNotEnded"} /\ rtState' = "LOSS_PENDING"
        BY <2>2, <3>1, <3>2, <3>3 DEF If
      <4>2. "stoppingNotEnded" \notin Errors
        BY DEF Errors
      <4> QED
        BY <2>2, <4>1, <4>2
           DEF IInv, NoFalseReport, NoFalseError, EarlyEndExplains, UnpolledExplains,
               LossExplains
    <3>4. CASE sessionState # "STOPPING"
      <4>1. reports' = reports
        BY <3>2, <3>4 DEF If
      <4> QED
        BY <2>2, <4>1, VerdictKept DEF IInv
    <3> QED  BY <3>3, <3>4
  <2> QED
    BY <2>1, <2>3, <2>4, <2>5
<1>10. LossInv'
  <2>1. \A u \in Threads : pc'[u] = "endSession" => pc[u] = "endSession" /\ got'[u] = got[u]
    BY SMTT(10) DEF SessionHasEnded, Return, TypeOK, IInv, TypeInv
  <2> QED
    BY <2>1 DEF SessionHasEnded, runtimeVars, IInv, LossInv
<1> QED
  BY <1>1, <1>2, <1>3, <1>4, <1>5, <1>6, <1>7, <1>8, <1>9, <1>10 DEF IInv

\* xrRequestExitSession in the runtime.
LEMMA RequestExitSessionInvariant ==
    ASSUME Serialised, IInv, UNCHANGED <<endsEarly, headless>>,
           NEW t \in Threads, RequestExitSession(t)
    PROVE  IInv'
<1>1. TypeInv'
  BY RequestExitSessionTypes DEF IInv
<1>2. NoRace'
  BY Entered DEF RequestExitSession, Forwarded, Calls, IInv, TypeInv
<1>3. RunningInv'
  BY DEF IInv, TypeInv, TypeOK, MayCall, Calls, Excluded, Ending, RunningInv, Unrecorded,
         Succeeded, RequestExitSession, Forwarded, layerVars
<1>4. StateInv'
  BY DEF IInv, TypeInv, MayCall, StateInv, RequestExitSession, Forwarded, layerVars
<1>5. ExitInv'
  BY DEF IInv, TypeInv, TypeOK, MayCall, Calls, Excluded, Ending, ExitInv, Unrecorded,
         Succeeded, RequestExitSession, Forwarded, layerVars
<1>6. SynchronizedInv'
  <2>1. rtExitRequested => rtExitRequested'
    BY Zenon DEF RequestExitSession, IInv, ExitInv
  <2>2. pc' = [pc EXCEPT ![t] = "requestExit"]
    BY DEF RequestExitSession, Forwarded
  <2>3. \A u \in Threads : pc'[u] = "pollEvent" => pc[u] = "pollEvent" /\ got'[u] = got[u]
    BY <2>2, SMTT(10) DEF RequestExitSession, Forwarded, IInv, TypeInv, TypeOK
  <2> QED
    BY <2>1, <2>3, Zenon DEF RequestExitSession, IInv, SynchronizedInv
<1>7. FrameInv'
  BY DEF IInv, TypeInv, TypeOK, MayCall, Calls, Excluded, Ending, FrameInv, Unrecorded,
         Succeeded, RequestExitSession, Forwarded, layerVars
<1>8. TimeInv'
  BY DEF IInv, TypeInv, MayCall, TimeInv, RequestExitSession, Forwarded, layerVars
<1>9. NoFalseReport'
  BY VerdictKept DEF IInv, RequestExitSession
<1>10. LossInv'
  <2>1. \A u \in Threads : pc'[u] = "endSession" => pc[u] = "endSession" /\ got'[u] = got[u]
    BY SMTT(10) DEF RequestExitSession, Forwarded, TypeOK, IInv, TypeInv
  <2> QED
    BY <2>1 DEF RequestExitSession, layerVars, IInv, LossInv
<1> QED
  BY <1>1, <1>2, <1>3, <1>4, <1>5, <1>6, <1>7, <1>8, <1>9, <1>10 DEF IInv

\* The hook of xrRequestExitSession.
LEMMA ExitIsRequestedInvariant ==
    ASSUME Serialised, IInv, UNCHANGED <<endsEarly, headless>>,
           NEW t \in Threads, ExitIsRequested(t)
    PROVE  IInv'
<1>1. TypeInv'
  BY ExitIsRequestedTypes DEF IInv
<1>2. NoRace'
  BY DEF IInv, TypeInv, NoRace, Excluded, Ending, ExitIsRequested, Return
<1>3. RunningInv'
  BY DEF IInv, TypeInv, TypeOK, RunningInv, Unrecorded, Succeeded, ExitIsRequested,
         Return, runtimeVars
<1>4. StateInv'
  BY DEF IInv, TypeInv, StateInv, ExitIsRequested, Return, runtimeVars
<1>5. ExitInv'
  BY DEF IInv, TypeInv, TypeOK, ExitInv, Unrecorded, Succeeded, ExitIsRequested, Return,
         runtimeVars
<1>6. SynchronizedInv'
  BY DEF IInv, TypeInv, SynchronizedInv, ExitIsRequested, Return, runtimeVars
<1>7. FrameInv'
  BY DEF IInv, TypeInv, FrameInv, Unrecorded, Succeeded, ExitIsRequested, Return,
         runtimeVars
<1>8. TimeInv'
  BY DEF IInv, TypeInv, TimeInv, ExitIsRequested, Return, runtimeVars
<1>9. NoFalseReport'
  <2>1. ~Unrecorded("beginSession") /\ ~Unrecorded("endSession")
    BY SMTT(10) DEF ExitIsRequested, IInv, NoRace, Excluded, Ending, Unrecorded, Succeeded
  <2>2. sessionBegun <=> got[t] = "SUCCESS"
    BY <2>1 DEF ExitIsRequested, IInv, RunningInv
  <2>3. reports' = reports
    BY <2>2 DEF ExitIsRequested, Report, If
  <2> QED
    BY <2>3, VerdictKept DEF IInv, ExitIsRequested, runtimeVars
<1>10. LossInv'
  <2>1. \A u \in Threads : pc'[u] = "endSession" => pc[u] = "endSession" /\ got'[u] = got[u]
    BY SMTT(10) DEF ExitIsRequested, Return, TypeOK, IInv, TypeInv
  <2> QED
    BY <2>1 DEF ExitIsRequested, runtimeVars, IInv, LossInv
<1> QED
  BY <1>1, <1>2, <1>3, <1>4, <1>5, <1>6, <1>7, <1>8, <1>9, <1>10 DEF IInv

\* xrWaitFrame in the runtime: each predicted time is later than the one before.
LEMMA WaitFrameInvariant ==
    ASSUME Serialised, IInv, UNCHANGED <<endsEarly, headless>>,
           NEW t \in Threads, WaitFrame(t)
    PROVE  IInv'
<1>1. TypeInv'
  BY WaitFrameTypes DEF IInv
<1>2. NoRace'
  BY Entered DEF WaitFrame, Calls, IInv, TypeInv
<1>3. RunningInv'
  BY DEF IInv, TypeInv, MayCall, Calls, Excluded, RunningInv, Unrecorded, Succeeded,
         WaitFrame, layerVars
<1>4. StateInv'
  <2>1. pc[t] = "idle" /\ \A u \in Threads : pc'[u] = "pollEvent" <=> pc[u] = "pollEvent"
    BY SMTT(10) DEF WaitFrame, MayCall, IInv, TypeInv, TypeOK
  <2> QED
    BY <2>1, Zenon DEF WaitFrame, layerVars, IInv, StateInv
<1>5. ExitInv'
  BY DEF IInv, TypeInv, MayCall, Calls, Excluded, ExitInv, Unrecorded, Succeeded,
         WaitFrame, layerVars
<1>6. SynchronizedInv'
  BY DEF IInv, TypeInv, SynchronizedInv, WaitFrame
<1>7. FrameInv'
  BY DEF IInv, TypeInv, MayCall, Calls, Excluded, FrameInv, Unrecorded, Succeeded,
         WaitFrame, layerVars
<1>8. TimeInv'
  <2>1. \A u \in Threads : pc[u] # "waitFrame"
    BY Alone DEF WaitFrame, Calls, Excluded, IInv, TypeInv
  <2>2. lastPredictedDisplayTime = rtTime
    BY <2>1 DEF IInv, TimeInv
  <2> QED
    BY <2>1, <2>2, SMTT(10) DEF WaitFrame, layerVars, IInv, TypeInv, TypeOK, TimeInv
<1>9. NoFalseReport'
  BY VerdictKept DEF IInv, WaitFrame
<1>10. LossInv'
  <2>1. \A u \in Threads : pc'[u] = "endSession" => pc[u] = "endSession" /\ got'[u] = got[u]
    BY SMTT(10) DEF WaitFrame, TypeOK, IInv, TypeInv
  <2> QED
    BY <2>1 DEF WaitFrame, layerVars, IInv, LossInv
<1> QED
  BY <1>1, <1>2, <1>3, <1>4, <1>5, <1>6, <1>7, <1>8, <1>9, <1>10 DEF IInv

\* The hook of xrWaitFrame.
LEMMA FrameIsPredictedInvariant ==
    ASSUME Serialised, IInv, UNCHANGED <<endsEarly, headless>>,
           NEW t \in Threads, FrameIsPredicted(t)
    PROVE  IInv'
<1>1. TypeInv'
  BY FrameIsPredictedTypes DEF IInv
<1>2. NoRace'
  BY DEF IInv, TypeInv, NoRace, Excluded, Ending, FrameIsPredicted, Locked, Return
<1>3. RunningInv'
  BY DEF IInv, TypeInv, RunningInv, Unrecorded, Succeeded, FrameIsPredicted, Locked,
         Return, runtimeVars
<1>4. StateInv'
  BY DEF IInv, TypeInv, StateInv, FrameIsPredicted, Return, runtimeVars
<1>5. ExitInv'
  BY DEF IInv, TypeInv, ExitInv, Unrecorded, Succeeded, FrameIsPredicted, Locked, Return,
         runtimeVars
<1>6. SynchronizedInv'
  BY DEF IInv, TypeInv, SynchronizedInv, FrameIsPredicted, Return, runtimeVars
<1>7. FrameInv'
  BY DEF IInv, TypeInv, FrameInv, Unrecorded, Succeeded, FrameIsPredicted, Locked,
         Return, runtimeVars
<1>8. TimeInv'
  BY DEF IInv, TypeInv, TypeOK, CallInv, NoRace, Excluded, Ending, TimeInv,
         FrameIsPredicted, PredictedTime, Return, runtimeVars
<1>9. NoFalseReport'
  <2>1. ~(predicted[t] <= lastPredictedDisplayTime)
    BY SMTT(10) DEF FrameIsPredicted, IInv, TimeInv, TypeInv, TypeOK
  <2>2. reports' = reports
    BY <2>1 DEF FrameIsPredicted, Report, If
  <2> QED
    BY <2>2, VerdictKept DEF IInv, FrameIsPredicted, runtimeVars
<1>10. LossInv'
  <2>1. \A u \in Threads : pc'[u] = "endSession" => pc[u] = "endSession" /\ got'[u] = got[u]
    BY SMTT(10) DEF FrameIsPredicted, Return, TypeOK, IInv, TypeInv
  <2> QED
    BY <2>1 DEF FrameIsPredicted, runtimeVars, IInv, LossInv
<1> QED
  BY <1>1, <1>2, <1>3, <1>4, <1>5, <1>6, <1>7, <1>8, <1>9, <1>10 DEF IInv

\* xrBeginFrame in the runtime.
LEMMA BeginFrameInvariant ==
    ASSUME Serialised, IInv, UNCHANGED <<endsEarly, headless>>,
           NEW t \in Threads, BeginFrame(t)
    PROVE  IInv'
<1>1. TypeInv'
  BY BeginFrameTypes DEF IInv
<1>2. NoRace'
  BY Entered DEF BeginFrame, Forwarded, Calls, IInv, TypeInv
<1>3. RunningInv'
  BY DEF IInv, TypeInv, TypeOK, MayCall, Calls, Excluded, Ending, RunningInv, Unrecorded,
         Succeeded, BeginFrame, Forwarded, layerVars
<1>4. StateInv'
  <2>1. /\ pc[t] = "idle"
        /\ \A u \in Threads :
              pc'[u] = "pollEvent" => pc[u] = "pollEvent" /\ got'[u] = got[u]
    BY SMTT(10) DEF BeginFrame, Forwarded, MayCall, IInv, TypeInv, TypeOK
  <2>2. \A u \in Threads : pc[u] = "pollEvent" => pc'[u] = "pollEvent"
    BY <2>1, SMTT(10) DEF BeginFrame, Forwarded, MayCall, IInv, TypeInv, TypeOK
  <2> QED
    BY <2>1, <2>2, Zenon DEF BeginFrame, layerVars, IInv, StateInv
<1>5. ExitInv'
  BY DEF IInv, TypeInv, TypeOK, MayCall, Calls, Excluded, Ending, ExitInv, Unrecorded,
         Succeeded, BeginFrame, Forwarded, layerVars
<1>6. SynchronizedInv'
  BY DEF IInv, TypeInv, SynchronizedInv, BeginFrame, Forwarded
<1>7. FrameInv'
  <2>1. \A u \in Threads : pc[u] \notin {"beginFrame", "endFrame", "endFrameDone"}
    BY Alone, SMTT(10) DEF BeginFrame, Calls, Excluded, Ending, IInv, TypeInv
  <2>2. frameBegun <=> rtFrameBegun
    BY <2>1, SMTT(10) DEF IInv, FrameInv, Unrecorded, Succeeded
  <2>3. /\ rtFrameBegun' 
        /\ pc' = [pc EXCEPT ![t] = "beginFrame"]
        /\ got' = [got EXCEPT ![t] = IF rtFrameBegun THEN "FRAME_DISCARDED" ELSE "SUCCESS"]
        /\ UNCHANGED <<rtSubmitted, rtRunning, frameCount, frameBegun>>
    BY Zenon DEF BeginFrame, Forwarded, layerVars
  <2>4. Succeeded(t, "beginFrame")' <=> ~rtFrameBegun
    BY <2>3, SMTT(10) DEF Succeeded, IInv, TypeInv, TypeOK
  <2>5. \A u \in Threads : u # t => pc'[u] = pc[u] /\ got'[u] = got[u]
    BY <2>3 DEF IInv, TypeInv, TypeOK
  <2>6. pc[t] = "idle" /\ pc'[t] = "beginFrame"
    BY <2>3 DEF BeginFrame, MayCall, IInv, TypeInv, TypeOK
  <2>7. Unrecorded("beginFrame")' <=> ~rtFrameBegun
    BY <2>1, <2>4, <2>5 DEF Unrecorded, Succeeded
  <2>8. ~Unrecorded("endFrameDone") /\ ~Unrecorded("endFrameDone")'
    BY <2>1, <2>5, <2>6 DEF Unrecorded, Succeeded
  <2>9. Unrecorded("beginSession")' <=> Unrecorded("beginSession")
    BY <2>5, <2>6 DEF Unrecorded, Succeeded
  <2>10. \A u \in Threads : pc'[u] = "beginFrame" /\ got'[u] = "FRAME_DISCARDED" => rtFrameBegun
    BY <2>1, <2>3, <2>5, SMTT(10) DEF IInv, TypeInv, TypeOK
  <2> QED
    BY <2>2, <2>3, <2>7, <2>8, <2>9, <2>10, Zenon DEF IInv, FrameInv
<1>8. TimeInv'
  BY DEF IInv, TypeInv, MayCall, TimeInv, BeginFrame, Forwarded, layerVars
<1>9. NoFalseReport'
  BY VerdictKept DEF IInv, BeginFrame
<1>10. LossInv'
  <2>1. \A u \in Threads : pc'[u] = "endSession" => pc[u] = "endSession" /\ got'[u] = got[u]
    BY SMTT(10) DEF BeginFrame, Forwarded, TypeOK, IInv, TypeInv
  <2> QED
    BY <2>1 DEF BeginFrame, layerVars, IInv, LossInv
<1> QED
  BY <1>1, <1>2, <1>3, <1>4, <1>5, <1>6, <1>7, <1>8, <1>9, <1>10 DEF IInv

\* The hook of xrBeginFrame.
LEMMA FrameHasBegunInvariant ==
    ASSUME Serialised, IInv, UNCHANGED <<endsEarly, headless>>,
           NEW t \in Threads, FrameHasBegun(t)
    PROVE  IInv'
<1>1. TypeInv'
  BY FrameHasBegunTypes DEF IInv
<1>2. NoRace'
  BY DEF IInv, TypeInv, NoRace, Excluded, Ending, FrameHasBegun, Return
<1>3. RunningInv'
  BY DEF IInv, TypeInv, RunningInv, Unrecorded, Succeeded, FrameHasBegun, Return,
         runtimeVars
<1>4. StateInv'
  BY DEF IInv, TypeInv, StateInv, FrameHasBegun, Return, runtimeVars
<1>5. ExitInv'
  BY DEF IInv, TypeInv, ExitInv, Unrecorded, Succeeded, FrameHasBegun, Return, runtimeVars
<1>6. SynchronizedInv'
  BY DEF IInv, TypeInv, SynchronizedInv, FrameHasBegun, Return, runtimeVars
<1>7. FrameInv'
  BY ConstantsAssumption
     DEF IInv, TypeInv, TypeOK, CallInv, NoRace, Excluded, Ending, FrameInv, Unrecorded,
         Succeeded, FrameHasBegun, Return, runtimeVars
<1>8. TimeInv'
  BY DEF IInv, TypeInv, TimeInv, FrameHasBegun, Return, runtimeVars
<1>9. NoFalseReport'
  <2>1. (got[t] = "SUCCESS" => ~frameBegun) /\ (got[t] = "FRAME_DISCARDED" => frameBegun)
    BY DEF FrameHasBegun, IInv, FrameInv, Unrecorded, Succeeded
  <2>2. reports' = reports
    BY <2>1 DEF FrameHasBegun, Report, If
  <2> QED
    BY <2>2, VerdictKept DEF IInv, FrameHasBegun, runtimeVars
<1>10. LossInv'
  <2>1. \A u \in Threads : pc'[u] = "endSession" => pc[u] = "endSession" /\ got'[u] = got[u]
    BY SMTT(10) DEF FrameHasBegun, Return, TypeOK, IInv, TypeInv
  <2> QED
    BY <2>1 DEF FrameHasBegun, runtimeVars, IInv, LossInv
<1> QED
  BY <1>1, <1>2, <1>3, <1>4, <1>5, <1>6, <1>7, <1>8, <1>9, <1>10 DEF IInv

\* xrEndFrame takes the lock of the session before it is forwarded.
LEMMA EnterEndFrameInvariant ==
    ASSUME Serialised, IInv, UNCHANGED <<endsEarly, headless>>,
           NEW t \in Threads, EnterEndFrame(t)
    PROVE  IInv'
<1>1. TypeInv'
  BY EnterEndFrameTypes DEF IInv
<1>2. NoRace'
  BY Entered DEF EnterEndFrame, Forwarded, Calls, IInv, TypeInv
<1>3. RunningInv'
  BY Alone
     DEF IInv, TypeInv, TypeOK, MayCall, Calls, Excluded, Ending, RunningInv, Unrecorded,
         Succeeded, EnterEndFrame, Forwarded, runtimeVars, layerVars
<1>4. StateInv'
  BY DEF IInv, TypeInv, MayCall, Calls, Excluded, StateInv, EnterEndFrame, Forwarded,
         runtimeVars, layerVars
<1>5. ExitInv'
  BY Alone
     DEF IInv, TypeInv, TypeOK, MayCall, Calls, Excluded, Ending, ExitInv, Unrecorded,
         Succeeded, EnterEndFrame, Forwarded, runtimeVars, layerVars
<1>6. SynchronizedInv'
  BY DEF IInv, TypeInv, MayCall, Calls, Excluded, SynchronizedInv, EnterEndFrame,
         Forwarded, runtimeVars
<1>7. FrameInv'
  BY Alone
     DEF IInv, TypeInv, TypeOK, MayCall, Calls, Excluded, Ending, FrameInv, Unrecorded,
         Succeeded, EnterEndFrame, Forwarded, runtimeVars, layerVars
<1>8. TimeInv'
  BY DEF IInv, TypeInv, MayCall, Calls, Excluded, TimeInv, EnterEndFrame, Forwarded,
         runtimeVars, layerVars
<1>9. NoFalseReport'
  BY VerdictKept DEF IInv, EnterEndFrame, runtimeVars
<1>10. LossInv'
  <2>1. \A u \in Threads : pc'[u] = "endSession" => pc[u] = "endSession" /\ got'[u] = got[u]
    BY SMTT(10) DEF EnterEndFrame, Forwarded, TypeOK, IInv, TypeInv
  <2> QED
    BY <2>1 DEF EnterEndFrame, layerVars, runtimeVars, IInv, LossInv
<1> QED
  BY <1>1, <1>2, <1>3, <1>4, <1>5, <1>6, <1>7, <1>8, <1>9, <1>10 DEF IInv

\* xrEndFrame in the runtime, the lock held.
LEMMA EndFrameInvariant ==
    ASSUME Serialised, IInv, UNCHANGED <<endsEarly, headless>>,
           NEW t \in Threads, EndFrame(t)
    PROVE  IInv'
<1>1. TypeInv'
  BY EndFrameTypes DEF IInv
<1>2. NoRace'
  <2>1. /\ pc[t] = "endFrame" /\ pc'[t] = "endFrameDone"
        /\ \A u \in Threads : u # t => pc'[u] = pc[u]
    BY DEF EndFrame, Forwarded, IInv, TypeInv, TypeOK
  <2>2. /\ Excluded("endFrame") = {"beginSession", "beginFrame"} \cup Ending
        /\ Excluded("endFrameDone") = {"beginSession", "beginFrame"} \cup Ending
    BY DEF Excluded, Ending
  <2>3. ASSUME NEW c, "endFrame" \notin Excluded(c)
        PROVE  "endFrameDone" \notin Excluded(c)
    BY <2>3 DEF Excluded, Ending
  <2>4. \A u, v \in Threads : u # v => pc[v] \notin Excluded(pc[u])
    BY DEF IInv, NoRace
  <2>5. ASSUME NEW u \in Threads, NEW v \in Threads, u # v
        PROVE  pc'[v] \notin Excluded(pc'[u])
    <3>1. CASE u = t
      BY <2>1, <2>2, <2>4, <2>5, <3>1
    <3>2. CASE v = t
      BY <2>1, <2>3, <2>4, <2>5, <3>2
    <3>3. CASE u # t /\ v # t
      BY <2>1, <2>4, <2>5, <3>3
    <3> QED  BY <3>1, <3>2, <3>3
  <2> QED  BY <2>5 DEF NoRace
<1>3. RunningInv'
  <2>1. /\ pc[t] = "endFrame" /\ pc' = [pc EXCEPT ![t] = "endFrameDone"]
        /\ \A u \in Threads : u # t => got'[u] = got[u]
        /\ UNCHANGED <<rtState, rtRunning, sessionState, sessionBegun>>
    BY SMTT(10) DEF EndFrame, Forwarded, layerVars, IInv, TypeInv, TypeOK
  <2>2. \A u \in Threads : pc'[u] # "endFrameDone" => pc'[u] = pc[u] /\ got'[u] = got[u]
    BY <2>1 DEF IInv, TypeInv, TypeOK
  <2>3. \A u \in Threads : pc[u] # "endFrame" => pc'[u] = pc[u] /\ got'[u] = got[u]
    BY <2>1 DEF IInv, TypeInv, TypeOK
  <2>4. /\ Unrecorded("beginSession")' <=> Unrecorded("beginSession")
        /\ Unrecorded("endSession")' <=> Unrecorded("endSession")
    BY <2>2, <2>3 DEF Unrecorded, Succeeded
  <2> QED
    BY <2>1, <2>2, <2>4 DEF IInv, RunningInv
<1>4. StateInv'
  BY DEF IInv, TypeInv, TypeOK, StateInv, EndFrame, Forwarded, layerVars
<1>5. ExitInv'
  BY SMTT(30)
     DEF IInv, TypeInv, TypeOK, CallInv, NoRace, RunningInv, Unrecorded, Succeeded,
         Excluded, Ending, ExitInv, EndFrame, Forwarded, layerVars
<1>6. SynchronizedInv'
  BY DEF IInv, TypeInv, TypeOK, SynchronizedInv, EndFrame, Forwarded
<1>7. FrameInv'
  <2>1. pc[t] = "endFrame" /\ pc' = [pc EXCEPT ![t] = "endFrameDone"]
    BY DEF EndFrame, Forwarded
  <2>2. \A u \in Threads : u # t => pc[u] \notin {"beginFrame", "beginSession", "endFrame",
                                                  "endFrameDone"}
    BY <2>1, SMTT(10) DEF IInv, NoRace, Excluded, Ending
  <2>3. /\ ~Unrecorded("beginFrame") /\ ~Unrecorded("beginSession") /\ ~Unrecorded("endFrameDone")
        /\ frameBegun <=> rtFrameBegun
        /\ rtRunning => (frameCount > 0 <=> rtSubmitted)
    BY <2>1, <2>2, SMTT(10) DEF IInv, FrameInv, Unrecorded, Succeeded
  <2>4. /\ \A u \in Threads : pc'[u] \notin {"beginFrame", "beginSession"}
        /\ \A u \in Threads : u # t => pc'[u] # "endFrameDone"
    BY <2>1, <2>2, SMTT(10) DEF IInv, TypeInv, TypeOK
  <2>5. CASE /\ rtFrameBegun /\ ~rtFrameBegun' /\ rtSubmitted'
             /\ Forwarded(t, "endFrameDone", "SUCCESS")
    <3>1. Unrecorded("endFrameDone")'
      BY <2>1, <2>5 DEF Unrecorded, Succeeded, Forwarded, IInv, TypeInv, TypeOK
    <3> QED
      BY <2>3, <2>4, <2>5, <3>1 DEF EndFrame, layerVars, FrameInv, Unrecorded, Succeeded
  <2>6. CASE Forwarded(t, "endFrameDone", "FAILED") /\ UNCHANGED <<rtFrameBegun, rtSubmitted>>
    <3>1. ~Unrecorded("endFrameDone")'
      BY <2>1, <2>4, <2>6 DEF Unrecorded, Succeeded, Forwarded, IInv, TypeInv, TypeOK
    <3> QED
      BY <2>3, <2>4, <2>6, <3>1 DEF EndFrame, layerVars, FrameInv, Unrecorded, Succeeded
  <2> QED
    BY <2>5, <2>6, Zenon DEF EndFrame
<1>8. TimeInv'
  BY DEF IInv, TypeInv, TypeOK, TimeInv, EndFrame, Forwarded, layerVars
<1>9. NoFalseReport'
  BY VerdictKept DEF IInv, EndFrame
<1>10. LossInv'
  <2>1. \A u \in Threads : pc'[u] = "endSession" => pc[u] = "endSession" /\ got'[u] = got[u]
    BY SMTT(10) DEF EndFrame, Forwarded, TypeOK, IInv, TypeInv
  <2> QED
    BY <2>1 DEF EndFrame, layerVars, IInv, LossInv
<1> QED
  BY <1>1, <1>2, <1>3, <1>4, <1>5, <1>6, <1>7, <1>8, <1>9, <1>10 DEF IInv

\* The hook of xrEndFrame, and the release of the lock.
LEMMA FrameHasEndedInvariant ==
    ASSUME Serialised, IInv, UNCHANGED <<endsEarly, headless>>,
           NEW t \in Threads, FrameHasEnded(t)
    PROVE  IInv'
<1>1. TypeInv'
  BY FrameHasEndedTypes DEF IInv
<1>2. NoRace'
  BY DEF IInv, TypeInv, NoRace, Excluded, Ending, FrameHasEnded, Return
<1>3. RunningInv'
  BY DEF IInv, TypeInv, RunningInv, Unrecorded, Succeeded, FrameHasEnded, Return,
         runtimeVars
<1>4. StateInv'
  BY DEF IInv, TypeInv, StateInv, FrameHasEnded, Return, runtimeVars
<1>5. ExitInv'
  BY DEF IInv, TypeInv, ExitInv, Unrecorded, Succeeded, FrameHasEnded, Return, runtimeVars
<1>6. SynchronizedInv'
  BY DEF IInv, TypeInv, SynchronizedInv, FrameHasEnded, Return, runtimeVars
<1>7. FrameInv'
  BY ConstantsAssumption
     DEF IInv, TypeInv, TypeOK, CallInv, NoRace, Excluded, Ending, FrameInv, Unrecorded,
         Succeeded, FrameHasEnded, FrameOver, Return, runtimeVars
<1>8. TimeInv'
  BY DEF IInv, TypeInv, TimeInv, FrameHasEnded, Return, runtimeVars
<1>9. NoFalseReport'
  <2>1. got[t] = "SUCCESS" => frameBegun
    BY DEF FrameHasEnded, IInv, FrameInv, Unrecorded, Succeeded
  <2>2. reports' = reports
    BY <2>1 DEF FrameHasEnded, Report, If
  <2> QED
    BY <2>2, VerdictKept DEF IInv, FrameHasEnded, runtimeVars
<1>10. LossInv'
  <2>1. \A u \in Threads : pc'[u] = "endSession" => pc[u] = "endSession" /\ got'[u] = got[u]
    BY SMTT(10) DEF FrameHasEnded, Return, TypeOK, IInv, TypeInv
  <2> QED
    BY <2>1 DEF FrameHasEnded, runtimeVars, IInv, LossInv
<1> QED
  BY <1>1, <1>2, <1>3, <1>4, <1>5, <1>6, <1>7, <1>8, <1>9, <1>10 DEF IInv

\* The invariant is about the state only.
LEMMA StutterInvariant ==
    ASSUME IInv, UNCHANGED vars
    PROVE  IInv'
<1>1. TypeInv'
  BY NextTypes DEF IInv
<1>2. NoRace' /\ TimeInv' /\ SynchronizedInv' /\ LossInv' /\ NoFalseReport' /\ StateInv'
  BY VerdictKept DEF vars, IInv, NoRace, StateInv, TimeInv, SynchronizedInv, LossInv
<1>3. RunningInv' /\ ExitInv' /\ FrameInv'
  BY DEF vars, IInv, RunningInv, ExitInv, FrameInv, Unrecorded, Succeeded
<1> QED  BY <1>1, <1>2, <1>3 DEF IInv

\* Every step keeps the invariant.
LEMMA NextInvariant ==
    ASSUME Serialised, IInv, [Next]_vars
    PROVE  IInv'
<1>1. CASE UNCHANGED vars
  BY <1>1, StutterInvariant
<1>2. ASSUME UNCHANGED <<endsEarly, headless>>, NEW s \in States, RuntimeTransition(s)
      PROVE  IInv'
  BY <1>2, RuntimeTransitionInvariant
<1>3. ASSUME UNCHANGED <<endsEarly, headless>>, NEW t \in Threads, Lifecycle(t)
      PROVE  IInv'
  BY <1>3, PollEventInvariant, SessionStateChangedInvariant, BeginSessionInvariant,
     SessionHasBegunInvariant, EndSessionInvariant, SessionHasEndedInvariant,
     RequestExitSessionInvariant, ExitIsRequestedInvariant
     DEF Lifecycle
<1>4. ASSUME UNCHANGED <<endsEarly, headless>>, NEW t \in Threads, FrameLoop(t)
      PROVE  IInv'
  BY <1>4, WaitFrameInvariant, FrameIsPredictedInvariant, BeginFrameInvariant,
     FrameHasBegunInvariant, EnterEndFrameInvariant, EndFrameInvariant, FrameHasEndedInvariant
     DEF FrameLoop
<1> QED
  BY <1>1, <1>2, <1>3, <1>4 DEF Next

\* The initial states.
LEMMA InitInvariant == Init => IInv
<1> SUFFICES ASSUME Init PROVE IInv
  OBVIOUS
<1>1. \A t \in Threads : pc[t] = "idle"
  BY DEF Init
<1>2. NoRace
  BY <1>1 DEF NoRace, Excluded, Ending
<1>3. \A c \in Calls \cup Ending : ~Unrecorded(c)
  BY <1>1 DEF Unrecorded, Succeeded, Calls, Ending
<1>4. RunningInv /\ ExitInv /\ FrameInv
  BY <1>1, <1>3 DEF Init, RunningInv, ExitInv, FrameInv, Calls, Ending
<1>5. StateInv
  BY <1>1 DEF Init, StateInv, Leads
<1>6. SynchronizedInv
  BY <1>1 DEF Init, SynchronizedInv
<1>7. TimeInv /\ LossInv /\ NoFalseReport
  BY <1>1
     DEF Init, TimeInv, LossInv, NoFalseReport, NoFalseError, EarlyEndExplains,
         UnpolledExplains, LossExplains
<1> QED
  BY InitTypes, <1>2, <1>4, <1>5, <1>6, <1>7 DEF IInv

\* The inductive invariant holds throughout, as long as no race is allowed.
THEOREM Invariant ==
    ASSUME Serialised
    PROVE  Spec => []IInv
<1>1. IInv /\ [Next]_vars => IInv'
  BY NextInvariant
<1> QED
  BY <1>1, InitInvariant, PTL DEF Spec

-----------------------------------------------------------------------------
(* What the layer reports, records and sees.                               *)

\* Without races the hooks of Session.cpp report no error of a conforming runtime, however
\* else the threads' calls overlap.  They suspect it only of what it did: it ended a session
\* that had had no frame, or it refused to end one that it is losing.
THEOREM Verdict ==
    ASSUME Serialised
    PROVE  Spec => []NoFalseReport
<1>1. IInv => NoFalseReport
  BY DEF IInv
<1> QED
  BY <1>1, Invariant, PTL

\* When no call is in progress, no call is left unrecorded.
LEMMA Between ==
    ASSUME IInv
    PROVE  RecordAgrees
<1> SUFFICES ASSUME \A t \in Threads : pc[t] = "idle"
             PROVE  /\ sessionBegun = rtRunning
                    /\ sessionExitRequested = rtExitRequested
                    /\ frameBegun = rtFrameBegun
                    /\ rtRunning => (frameCount > 0) = rtSubmitted
                    /\ lastPredictedDisplayTime = rtTime
  BY DEF RecordAgrees
<1>1. \A c \in Calls \cup Ending : ~Unrecorded(c)
  BY DEF Unrecorded, Succeeded, Calls, Ending
<1>2. sessionBegun <=> rtRunning
  BY <1>1 DEF IInv, RunningInv, Calls
<1>3. sessionExitRequested <=> rtExitRequested
  BY <1>1 DEF IInv, ExitInv, Calls
<1>4. (frameBegun <=> rtFrameBegun) /\ (rtRunning => (frameCount > 0 <=> rtSubmitted))
  BY <1>1 DEF IInv, FrameInv, Calls, Ending
<1>5. lastPredictedDisplayTime = rtTime
  BY DEF IInv, TimeInv
<1>6. frameBegun = rtFrameBegun /\ sessionBegun = rtRunning
      /\ sessionExitRequested = rtExitRequested
  BY <1>2, <1>3, <1>4, Zenon DEF IInv, TypeInv, TypeOK
<1>7. rtRunning => (frameCount > 0) = rtSubmitted
  BY <1>4 DEF IInv, TypeInv, TypeOK
<1> QED
  BY <1>5, <1>6, <1>7

\* Without races the record that the hooks keep is the runtime's state between calls:
\* running, asked to exit, a frame begun, a frame submitted, the last display time.
THEOREM Record ==
    ASSUME Serialised
    PROVE  Spec => []RecordAgrees
<1>1. IInv => RecordAgrees
  BY Between
<1> QED
  BY <1>1, Invariant, PTL

\* The layer's first record of a session is the start of its life cycle.
LEMMA LifecycleInit == Init => Cycle!Init
BY DEF Init, Cycle!Init

\* Each change the layer records is one of the life cycle, and the others are stutters.
LEMMA LifecycleStep ==
    ASSUME Serialised, IInv, [Next]_vars
    PROVE  [Cycle!Next]_<<sessionState, sessionBegun>>
<1>1. ASSUME NEW t \in Threads, SessionStateChanged(t)
      PROVE  Cycle!Next
  <2> DEFINE s == got[t]
  <2>1. ~Unrecorded("beginSession") /\ ~Unrecorded("endSession")
    BY <1>1, SMTT(10)
       DEF SessionStateChanged, IInv, NoRace, Excluded, Ending, Unrecorded, Succeeded
  <2>2. (sessionBegun <=> rtRunning) /\ Follows(sessionState, s, rtRunning)
    BY <1>1, <2>1 DEF SessionStateChanged, IInv, RunningInv, StateInv
  <2>3. s \in {"IDLE", "READY", "SYNCHRONIZED", "VISIBLE", "FOCUSED", "STOPPING",
               "EXITING", "LOSS_PENDING"}
    BY <2>2, SMTT(10) DEF Follows
  <2>4. Cycle!Change(s)
    BY <1>1, <2>2, Zenon
       DEF SessionStateChanged, Follows, Cycle!Change, Cycle!Rest, Cycle!Run
  <2> QED
    BY <2>3, <2>4 DEF Cycle!Next
<1>2. ASSUME NEW t \in Threads, SessionHasBegun(t)
      PROVE  Cycle!Begin \/ UNCHANGED <<sessionState, sessionBegun>>
  BY <1>2, Zenon DEF SessionHasBegun, IInv, RunningInv, Unrecorded, Succeeded, Cycle!Begin
<1>3. ASSUME NEW t \in Threads, SessionHasEnded(t)
      PROVE  Cycle!End \/ UNCHANGED <<sessionState, sessionBegun>>
  BY <1>3, Zenon
     DEF SessionHasEnded, NotBegun, IInv, RunningInv, Unrecorded, Succeeded, Cycle!End
<1>4. ASSUME NEW t \in Threads,
             \/ PollEvent(t) \/ BeginSession(t) \/ EndSession(t) \/ RequestExitSession(t)
             \/ ExitIsRequested(t) \/ FrameLoop(t)
      PROVE  UNCHANGED <<sessionState, sessionBegun>>
  BY <1>4
     DEF PollEvent, BeginSession, EndSession, RequestExitSession, ExitIsRequested,
         FrameLoop,
         WaitFrame, FrameIsPredicted, BeginFrame, FrameHasBegun, EnterEndFrame, EndFrame,
         FrameHasEnded, layerVars
<1>5. ASSUME NEW s \in States, RuntimeTransition(s)
      PROVE  UNCHANGED <<sessionState, sessionBegun>>
  BY <1>5 DEF RuntimeTransition, layerVars
<1>6. UNCHANGED vars => UNCHANGED <<sessionState, sessionBegun>>
  BY DEF vars
<1>7. CASE Next
  BY <1>1, <1>2, <1>3, <1>4, <1>5, <1>7, Zenon DEF Next, Lifecycle, Cycle!Next
<1> QED  BY <1>6, <1>7

\* Without races the layer sees a session go through the life cycle of SessionLifecycle.
THEOREM LifecycleImplemented ==
    ASSUME Serialised
    PROVE  Spec => ImplementsLifecycle
<1>1. IInv /\ [Next]_vars => [Cycle!Next]_<<sessionState, sessionBegun>>
  BY LifecycleStep
<1> QED
  BY <1>1, Invariant, LifecycleInit, PTL DEF Spec, ImplementsLifecycle, Cycle!Spec
=============================================================================
