--------------------------- MODULE FrameworkSession ---------------------------
(***************************************************************************)
(* How the conformance tests run a session: AutoBasicSession with its       *)
(* FrameIterator, CompositionHelper with its ActionLayerManager, the event  *)
(* queue and the readers that multiplex it, the test "Cycle through all     *)
(* states", the test of pipelined frames with its second thread and the     *)
(* test "multithreading", each against a runtime that changes the state of  *)
(* the session, raises events and loses the session when it likes. A test   *)
(* is a script of steps; the runtime moves between any two of its calls.    *)
(***************************************************************************)
EXTENDS ThreadExercises

CONSTANTS Tests,       \* the tests to run
          Graphics,    \* with a graphics plugin, without one, or both
          MaxEvents,   \* bound: events raised in one run
          FewEvents,   \* the same in the test "threads"
          FrameCount   \* warmupFrameCount + testFrameCount (380 in the code)

Script == [
  \* AutoBasicSession(beginSession), e.g. test_XR_KHR_composition_layer_depth
  focused |-> <<<<"create">>, <<"await">>, <<"begin">>, <<"setup">>, <<"run", "FOCUSED">>,
                <<"exit">>, <<"run", "STOPPING">>, <<"end">>>>,
  \* AutoBasicSession(createSession), e.g. test_XR_EXT_debug_utils
  by_hand |-> <<<<"create">>, <<"setup">>, <<"run", "READY">>, <<"begin">>, <<"exit">>,
                <<"run", "STOPPING">>, <<"end">>>>,
  \* AutoBasicSession(createSession), begun by the iterator
  iterated |-> <<<<"create">>, <<"setup">>, <<"run", "FOCUSED">>>>,
  \* CompositionHelper, e.g. test_actions.cpp
  helper |-> <<<<"create">>, <<"setup">>, <<"await_own">>, <<"begin">>, <<"manager">>,
               <<"focus">>, <<"sync">>>>,
  \* the manager first, e.g. test_XR_MSFT_controller_model.cpp
  manager |-> <<<<"create">>, <<"setup">>, <<"manager">>, <<"await_own">>, <<"begin">>,
                <<"focus">>, <<"sync">>>>,
  \* test_SessionState.cpp, "Normal operation"
  cycle |-> <<<<"create">>, <<"setup">>, <<"next", "IDLE">>, <<"next", "READY">>, <<"begin">>,
              <<"submit", "SYNCHRONIZED">>, <<"submit", "VISIBLE">>, <<"submit", "FOCUSED">>,
              <<"end_early">>, <<"exit">>, <<"submit", "VISIBLE">>,
              <<"submit", "SYNCHRONIZED">>, <<"submit", "STOPPING">>, <<"quiet">>, <<"end">>,
              <<"submit", "IDLE">>, <<"submit", "EXITING">>>>,
  \* test_FrameSubmission.cpp, "Timed_Pipelined_Frame_Submission"
  pipelined |-> <<<<"create">>, <<"setup">>, <<"layers">>, <<"await_own">>, <<"begin">>,
                  <<"layers">>, <<"render">>>>,
  \* test_multithreading.cpp
  threads |-> <<<<"threads", "global">>, <<"setup">>, <<"threads", "instance">>,
                <<"create">>, <<"await">>, <<"begin">>, <<"setup">>, <<"layers">>,
                <<"run", "FOCUSED">>, <<"threads", "session">>>>]

Helpers == {"helper", "manager", "pipelined"}   \* the tests that use CompositionHelper
Readers == {"private", "manager"}           \* m_privateEventReader, m_eventReader
States == {"UNKNOWN", "IDLE", "READY", "SYNCHRONIZED", "VISIBLE", "FOCUSED", "STOPPING",
           "EXITING", "LOSS_PENDING"}
Events == States \cup {"OTHER"}             \* OTHER: a change of interaction profile

ASSUME TestsAssumption == Tests \subseteq DOMAIN Script
ASSUME GraphicsAssumption == Graphics \subseteq BOOLEAN /\ MaxEvents \in Nat /\ FewEvents \in Nat
ASSUME FrameAssumption == FrameCount \in Nat \ {0}

VARIABLES
  test, graphics,       \* what runs (constant in a behaviour)
  \* the runtime
  state, running,       \* the session's state and whether it has begun
  exiting,              \* xrRequestExitSession was called
  presented,            \* has a frame ended since the session began?
  frame,                \* is a frame "waited", one "begun"? With two threads, both
  image,                \* the swapchain's image: "free", "acquired" or "waited"
  queue,                \* events raised and not yet polled
  raised,               \* every event raised (history)
  \* the framework
  events,               \* EventQueue::m_events
  reader,               \* EventReader::m_nextEventIndex; 0 where there is no reader
  seen,                 \* what each reader returned (history)
  born,                 \* how many events had been polled when it was created (history)
  sessionState,         \* the state the helper believes in
  session, device,      \* "none", "alive" or "destroyed"; is the device initialized?
  step, pc,             \* the step of the script and the place in it
  late,                 \* the deadline of the current wait has passed
  outcome,              \* "none", "passed", or why the test failed
  refused,              \* calls the runtime refused as out of order (history)
  \* appThread of the pipelined test and what it shares with the main thread
  pipe                  \* app: its place, "none" when not joinable; left: frames to
                        \* wait for; queued: queuedFramesForRender; completed:
                        \* frameSubmissionCompleted; result: appThreadResult

constant == <<test, graphics>>
apart == <<constant, pipe, exerciseVars>>   \* apart from the tests with threads
rtVars == <<state, running, exiting, presented, frame, image>>
readVars == <<events, reader, seen, born>>
endVars == <<session, device, refused>>
vars == <<apart, rtVars, queue, raised, readVars, sessionState, endVars, step, pc, late,
          outcome>>

Life == INSTANCE SessionLifecycle
-----------------------------------------------------------------------------
Init ==
    /\ test \in Tests /\ graphics \in Graphics /\ (test = "pipelined" => graphics)
    /\ Life!Init
    /\ exiting = FALSE /\ presented = FALSE /\ frame = {} /\ image = "free"
    /\ queue = <<>> /\ raised = <<>>
    /\ events = <<>> /\ seen = [r \in Readers |-> <<>>] /\ born = [r \in Readers |-> 0]
    /\ reader = [r \in Readers |-> 0]
    /\ sessionState = "UNKNOWN" /\ session = "none" /\ device = FALSE
    /\ step = 1 /\ pc = "top" /\ late = FALSE /\ outcome = "none" /\ refused = {}
    /\ pipe = [app |-> "none", left |-> FrameCount, queued |-> 0, completed |-> FALSE,
               result |-> "SUCCESS"]
    /\ ExerciseInit

(***************************************************************************)
(* The runtime (external). It leaves READY only after a frame when there    *)
(* are graphics, goes down once asked to exit, and raises one event for     *)
(* every change.                                                            *)
(***************************************************************************)
Raise(e) ==
    /\ Len(raised) < IF test = "threads" THEN FewEvents ELSE MaxEvents
    /\ queue' = Append(queue, e) /\ raised' = Append(raised, e)

Willing(s) ==
    /\ s # state
    /\ state = "READY" /\ s = "SYNCHRONIZED" => ~graphics \/ presented
    /\ s = "EXITING" => exiting
    /\ exiting => /\ ~(state = "SYNCHRONIZED" /\ s = "VISIBLE")
                  /\ ~(state = "IDLE" /\ s = "READY") /\ s # "FOCUSED"

RuntimeChanges(s) ==
    /\ session = "alive" /\ Life!Change(s) /\ Willing(s) /\ Raise(s)
    /\ UNCHANGED <<apart, exiting, presented, frame, image, readVars, sessionState, endVars,
                   step, pc, late, outcome>>

ProfileChanges ==
    /\ session = "alive" /\ state = "FOCUSED" /\ ~Contains(raised, "OTHER") /\ Raise("OTHER")
    /\ UNCHANGED <<apart, rtVars, readVars, sessionState, endVars, step, pc, late, outcome>>

Lost == state = "LOSS_PENDING"
-----------------------------------------------------------------------------
(***************************************************************************)
(* The script.                                                              *)
(***************************************************************************)
doing == Script[test][step]
At(kind) == outcome = "none" /\ doing[1] = kind

Goto(l) == pc' = l /\ UNCHANGED <<step, late, outcome>>
Stay == Goto(pc)
Done ==
    IF step = Len(Script[test])
    THEN outcome' = "passed" /\ pc' = "destroy" /\ UNCHANGED <<step, late>>
    ELSE step' = step + 1 /\ pc' = "top" /\ late' = FALSE /\ UNCHANGED outcome

\* An exception that unwinds past a joinable std::thread terminates the process.
Joinable == pipe.app # "none"
Fail(why) ==
    /\ outcome' = IF Joinable THEN "terminated" ELSE why
    /\ pc' = IF Joinable THEN "gone" ELSE "destroy"
    /\ UNCHANGED <<step, late>>

TimeUp_Never == FALSE
TimeUp == late                              \* CountdownTimer::IsTimeUp

\* A call that is legal while "legal" holds; a lost session may fail any call.
Call(name, legal, effect, next) ==
    \/ legal /\ effect /\ next /\ UNCHANGED refused
    \/ ~legal /\ ~Lost /\ refused' = refused \cup {name} /\ Fail("refused") /\ UNCHANGED rtVars
    \/ Lost /\ Fail("lost") /\ UNCHANGED <<rtVars, refused>>

\* The deadline of a wait passes; the next wait has one of its own.
DeadlinePasses ==
    /\ outcome = "none" /\ ~late
    /\ doing[1] \in {"await", "await_own", "run", "focus", "sync", "next", "submit", "quiet"}
    /\ late' = TRUE
    /\ UNCHANGED <<apart, rtVars, queue, raised, readVars, sessionState, endVars, step, pc,
                   outcome>>

\* AutoBasicSession::Init and CompositionHelper::SharedInit: the queue and its
\* private reader come before the session.
Create ==
    /\ At("create")
    /\ \/ /\ pc = "top" /\ device' = TRUE
          /\ reader' = [reader EXCEPT !["private"] = 1]
          /\ Goto("session") /\ UNCHANGED session
       \/ /\ pc = "session" /\ UNCHANGED <<device, reader>>
          /\ \/ session' = "alive" /\ Done
             \/ Fail("create") /\ UNCHANGED session
    /\ UNCHANGED <<apart, rtVars, queue, raised, events, seen, born, sessionState, refused>>

\* The enumerations and creations that follow; one may fail, or skip the test.
Setup ==
    /\ At("setup") /\ (Done \/ Fail("create"))
    /\ UNCHANGED <<apart, rtVars, queue, raised, readVars, sessionState, endVars>>

\* Action sets, spaces and swapchains of a test whose helper is complete.
CreateLayers ==
    /\ At("layers") /\ (Done \/ Fail("layers"))
    /\ UNCHANGED <<apart, rtVars, queue, raised, readVars, sessionState, endVars>>
-----------------------------------------------------------------------------
(***************************************************************************)
(* Events.                                                                  *)
(***************************************************************************)
ReadEvents == events' = events \o queue /\ queue' = <<>>

NewReader_Drains(r) ==
    /\ ReadEvents
    /\ reader' = [reader EXCEPT ![r] = Len(events') + 1]
    /\ born' = [born EXCEPT ![r] = Len(events)]
    /\ UNCHANGED seen
NewReader(r) ==
    /\ reader' = [reader EXCEPT ![r] = Len(events) + 1]
    /\ born' = [born EXCEPT ![r] = Len(events)]
    /\ UNCHANGED <<events, seen, queue>>

TryReadNext(r, e) ==
    /\ ReadEvents
    /\ reader[r] <= Len(events') /\ e = events'[reader[r]]
    /\ reader' = [reader EXCEPT ![r] = @ + 1]
    /\ seen' = [seen EXCEPT ![r] = Append(@, e)]
    /\ UNCHANGED born

NothingToRead(r) == ReadEvents /\ reader[r] > Len(events') /\ UNCHANGED <<reader, seen, born>>

\* AutoBasicSession::BeginSession takes every event there is before it looks
\* at the state and at the clock.
AwaitReady ==
    /\ At("await")
    /\ \/ \E e \in Events :
            /\ TryReadNext("private", e) /\ Stay
            /\ sessionState' = IF e \in States THEN e ELSE sessionState
       \/ /\ NothingToRead("private") /\ UNCHANGED sessionState
          /\ \/ sessionState = "READY" /\ Done
             \/ sessionState # "READY" /\ TimeUp /\ Fail("timeout")
             \/ sessionState # "READY" /\ ~TimeUp /\ Stay
    /\ UNCHANGED <<apart, rtVars, raised, endVars>>

\* CompositionHelper::BeginSession stops reading at READY.
AwaitOwnReady ==
    /\ At("await_own")
    /\ \/ \E e \in Events : TryReadNext("private", e) /\ (IF e = "READY" THEN Done ELSE Stay)
       \/ NothingToRead("private") /\ (IF TimeUp THEN Fail("timeout") ELSE Stay)
    /\ UNCHANGED <<apart, rtVars, raised, sessionState, endVars>>

\* ActionLayerManager::ActionLayerManager
NewManager ==
    /\ At("manager") /\ NewReader("manager") /\ Done
    /\ UNCHANGED <<apart, rtVars, raised, sessionState, endVars>>

FrameLoopStates_NotVisible == {"READY", "SYNCHRONIZED", "FOCUSED"}
FrameLoopStates == {"READY", "SYNCHRONIZED", "VISIBLE", "FOCUSED"}

\* CompositionHelper::PollEvents, at the end of every frame of the helper.
PollEvents ==
    /\ pc = "poll"
    /\ \/ \E e \in Events :
            /\ TryReadNext("private", e)
            /\ IF e \in States \ FrameLoopStates
               THEN Fail("unexpected") /\ UNCHANGED sessionState
               ELSE Stay /\ sessionState' = IF e \in States THEN e ELSE sessionState
       \/ NothingToRead("private") /\ Goto("look") /\ UNCHANGED sessionState
    /\ UNCHANGED <<apart, rtVars, raised, endVars>>

\* ActionLayerManager::WaitForSessionFocusWithMessage, after the frame.
LookForFocus ==
    /\ At("focus") /\ pc = "look"
    /\ \/ \E e \in Events : TryReadNext("manager", e) /\ (IF e = "FOCUSED" THEN Done ELSE Stay)
       \/ NothingToRead("manager") /\ (IF TimeUp THEN Fail("timeout") ELSE Goto("top"))
    /\ UNCHANGED <<apart, rtVars, raised, sessionState, endVars>>

\* ActionLayerManager::SyncActionsUntilFocusWithMessage, after the frame.
SyncUntilFocus ==
    /\ At("sync") /\ pc = "look"
    /\ Call("xrSyncActions", TRUE, UNCHANGED rtVars,
            IF state = "FOCUSED" THEN Done ELSE IF TimeUp THEN Fail("timeout") ELSE Goto("top"))
    /\ UNCHANGED <<apart, queue, raised, readVars, sessionState, session, device>>
-----------------------------------------------------------------------------
(***************************************************************************)
(* Calls on the session.                                                    *)
(***************************************************************************)
Begin(next) ==
    Call("xrBeginSession", state = "READY" /\ ~running,
         running' = TRUE /\ UNCHANGED <<state, exiting, presented, frame, image>>, next)

BeginSession ==
    /\ At("begin") /\ Begin(Done)
    /\ UNCHANGED <<apart, queue, raised, readVars, sessionState, session, device>>

RequestExit ==
    /\ At("exit")
    /\ Call("xrRequestExitSession", running,
            exiting' = TRUE /\ UNCHANGED <<state, running, presented, frame, image>>, Done)
    /\ UNCHANGED <<apart, queue, raised, readVars, sessionState, session, device>>

EndSession ==
    /\ At("end")
    /\ Call("xrEndSession", running /\ state = "STOPPING",
            running' = FALSE /\ UNCHANGED <<state, exiting, presented, frame, image>>, Done)
    /\ UNCHANGED <<apart, queue, raised, readVars, sessionState, session, device>>

\* "Runtime should only allow ending a session in the STOPPING state."
EndEarly ==
    /\ At("end_early")
    /\ IF running /\ state = "STOPPING"
       THEN running' = FALSE /\ Fail("unexpected")
       ELSE Done /\ UNCHANGED running
    /\ UNCHANGED <<apart, state, exiting, presented, frame, image, queue, raised, readVars,
                   sessionState, endVars>>
-----------------------------------------------------------------------------
(***************************************************************************)
(* FrameIterator::RunToSessionState. It polls the runtime itself, one event *)
(* a turn, so the readers of the queue never see what it takes.             *)
(***************************************************************************)
PollEvent(s, changed) ==
    \/ /\ queue = <<>> /\ UNCHANGED queue /\ s = sessionState /\ ~changed
    \/ /\ queue # <<>> /\ queue' = Tail(queue)
       /\ changed = (Head(queue) \in States)
       /\ s = IF changed THEN Head(queue) ELSE sessionState

JustReady_WheneverReady(s, changed) == s = "READY"
JustReady(s, changed) == s = "READY" /\ changed

Tick ==
    /\ At("run") /\ pc = "top"
    /\ \/ TimeUp /\ Fail("timeout") /\ UNCHANGED <<queue, sessionState>>
       \/ /\ ~TimeUp
          /\ \E s \in States, changed \in BOOLEAN :
               /\ PollEvent(s, changed) /\ sessionState' = s
               /\ CASE s = doing[2] -> Done
                    [] s # doing[2] /\ s \in {"LOSS_PENDING", "EXITING", "STOPPING"} ->
                         Fail("unexpected")
                    [] s # doing[2] /\ s \in {"UNKNOWN", "IDLE"} -> Stay
                    [] s # doing[2] /\ JustReady(s, changed) -> Goto("begin")
                    [] OTHER -> Goto("frame")
    /\ UNCHANGED <<apart, rtVars, raised, readVars, endVars>>

\* "If we just transitioned to READY then we will call begin session."
TickBegins ==
    /\ At("run") /\ pc = "begin" /\ Begin(Goto("frame"))
    /\ UNCHANGED <<apart, queue, raised, readVars, sessionState, session, device>>

(***************************************************************************)
(* test_SessionState.cpp                                                    *)
(***************************************************************************)
\* tryGetNextSessionState drops events of other kinds.
FirstState == SelectInSeq(queue, LAMBDA e : e \in States)

NextSessionState ==
    /\ outcome = "none" /\ pc = "top" /\ doing[1] \in {"next", "submit", "quiet"}
    /\ \/ /\ TimeUp /\ UNCHANGED queue
          /\ IF doing[1] = "quiet" THEN Done ELSE Fail("timeout")
       \/ /\ ~TimeUp /\ FirstState # 0
          /\ queue' = SubSeq(queue, FirstState + 1, Len(queue))
          /\ IF doing[1] # "quiet" /\ queue[FirstState] = doing[2]
             THEN Done ELSE Fail("unexpected")
       \/ /\ ~TimeUp /\ FirstState = 0 /\ queue' = <<>>
          /\ IF doing[1] = "submit" THEN Goto("frame") ELSE Stay
    /\ UNCHANGED <<apart, rtVars, raised, readVars, sessionState, endVars>>
-----------------------------------------------------------------------------
(***************************************************************************)
(* One frame: SubmitFrame of FrameIterator, RenderLoop::IterateFrame and     *)
(* submitFrame of the test. Only the first uses a swapchain.                *)
(***************************************************************************)
WaitFrame ==
    /\ outcome = "none"
    /\ pc = "frame" \/ (pc = "top" /\ doing[1] \in {"focus", "sync"})
    /\ Call("xrWaitFrame", running,
            frame' = frame \cup {"waited"} /\ UNCHANGED <<state, running, exiting, presented, image>>,
            Goto("waited"))
    /\ UNCHANGED <<apart, queue, raised, readVars, sessionState, session, device>>

\* Without valid views the projection layer is left out.
Drawn == CASE doing[1] = "run" -> {graphics} [] doing[1] = "render" -> BOOLEAN [] OTHER -> {FALSE}

BeginFrame ==
    /\ outcome = "none" /\ pc = "waited"
    /\ \E drawn \in Drawn :
         Call("xrBeginFrame", running /\ "waited" \in frame,
              frame' = {"begun"} /\ UNCHANGED <<state, running, exiting, presented, image>>,
              Goto(IF drawn THEN "acquire" ELSE "end"))
    /\ UNCHANGED <<apart, queue, raised, readVars, sessionState, session, device>>

AcquireImage ==
    /\ outcome = "none" /\ pc = "acquire"
    /\ Call("xrAcquireSwapchainImage", image = "free",
            image' = "acquired" /\ UNCHANGED <<state, running, exiting, presented, frame>>,
            Goto("image"))
    /\ UNCHANGED <<apart, queue, raised, readVars, sessionState, session, device>>

ImageWaitExpires == doing[1] = "run" /\ Fail("imageWait")

\* The iterator waits for two seconds, and XR_TIMEOUT_EXPIRED is no failure
\* code; CompositionHelper waits for ever.
WaitImage ==
    /\ outcome = "none" /\ pc = "image"
    /\ \/ Call("xrWaitSwapchainImage", image = "acquired",
               image' = "waited" /\ UNCHANGED <<state, running, exiting, presented, frame>>,
               Goto("release"))
       \/ ImageWaitExpires /\ UNCHANGED <<rtVars, refused>>
    /\ UNCHANGED <<apart, queue, raised, readVars, sessionState, session, device>>

ReleaseImage ==
    /\ outcome = "none" /\ pc = "release"
    /\ Call("xrReleaseSwapchainImage", image = "waited",
            image' = "free" /\ UNCHANGED <<state, running, exiting, presented, frame>>,
            Goto("end"))
    /\ UNCHANGED <<apart, queue, raised, readVars, sessionState, session, device>>

EndFrame ==
    /\ outcome = "none" /\ pc = "end"
    /\ Call("xrEndFrame", running /\ "begun" \in frame,
            frame' = frame \ {"begun"} /\ presented' = TRUE /\ UNCHANGED <<state, running, exiting, image>>,
            Goto(CASE doing[1] = "render" -> "check" [] doing[1] \in {"focus", "sync"} -> "poll"
                   [] OTHER -> "top"))
    /\ UNCHANGED <<apart, queue, raised, readVars, sessionState, session, device>>
-----------------------------------------------------------------------------
(***************************************************************************)
(* Timed_Pipelined_Frame_Submission: one thread waits for frames, the other  *)
(* begins, draws and ends them. They share a queue under a mutex with a      *)
(* condition variable, and appThreadResult with no protection at all.        *)
(***************************************************************************)
Pipe(app, changes) ==
    pipe' = [f \in DOMAIN pipe |->
               IF f = "app" THEN app ELSE IF f \in DOMAIN changes THEN changes[f] ELSE pipe[f]]
Same == <<constant, exerciseVars, queue, raised, readVars, sessionState, endVars>>
NoChange == [f \in {} |-> TRUE]

\* xrWaitFrame blocks until the frame before has begun (external).
MayWait == pipe.left > 0 /\ (Lost \/ "waited" \notin frame)

\* XR_SESSION_LOSS_PENDING is a success code, but not XR_SUCCESS.
AppWaitsFrame ==
    /\ pipe.app = "wait" /\ MayWait
    /\ \/ /\ frame' = frame \cup {"waited"}
          /\ \/ Pipe("queue", [left |-> pipe.left - 1])
             \/ Lost /\ Pipe("signal", [result |-> "LOSS_PENDING"])
       \/ Lost /\ Pipe("signal", [result |-> "FAILED"]) /\ UNCHANGED frame
    /\ UNCHANGED <<Same, state, running, exiting, presented, image, step, pc, late, outcome>>

AppQueuesFrame ==
    /\ pipe.app = "queue"
    /\ Pipe(IF pipe.left = 0 THEN "signal" ELSE "wait", [queued |-> pipe.queued + 1])
    /\ UNCHANGED <<Same, rtVars, step, pc, late, outcome>>

SignalNoMoreFrames ==
    /\ pipe.app = "signal" /\ Pipe("done", [completed |-> TRUE])
    /\ UNCHANGED <<Same, rtVars, step, pc, late, outcome>>

AppThread == outcome = "none" /\ (AppWaitsFrame \/ AppQueuesFrame \/ SignalNoMoreFrames)

StartAppThread ==
    /\ At("render") /\ pc = "top" /\ Pipe("wait", NoChange) /\ Goto("check")
    /\ UNCHANGED <<Same, rtVars>>

CheckResult ==
    /\ At("render") /\ pc = "check" /\ UNCHANGED <<Same, rtVars, pipe>>
    /\ Goto(IF pipe.result = "SUCCESS" THEN "dequeue" ELSE "join")

DequeueFrame ==
    /\ At("render") /\ pc = "dequeue" /\ UNCHANGED <<Same, rtVars>>
    /\ \/ pipe.queued > 0 /\ Pipe(pipe.app, [queued |-> pipe.queued - 1]) /\ Goto("waited")
       \/ pipe.queued = 0 /\ pipe.completed /\ Goto("join") /\ UNCHANGED pipe

\* After the join the timing is judged, and may be found too slow or too fast.
JoinAppThread ==
    /\ At("render") /\ UNCHANGED <<Same, rtVars>>
    /\ \/ pc = "join" /\ pipe.app = "done" /\ Pipe("none", NoChange) /\ Goto("joined")
       \/ /\ pc = "joined" /\ UNCHANGED pipe
          /\ \/ pipe.result = "FAILED" /\ Fail("lost")
             \/ pipe.result # "FAILED" /\ (Done \/ Fail("timing"))
-----------------------------------------------------------------------------
(***************************************************************************)
(* TEST_CASE("multithreading"): three environments, each with its workers.   *)
(***************************************************************************)
NotThreads == <<constant, pipe, rtVars, queue, raised, readVars, sessionState, endVars>>
APIs == IF graphics THEN {"opengl", "vulkan", "other"} ELSE {"other"}

RunTestEnvironment ==
    /\ At("threads") /\ UNCHANGED NotThreads
    /\ \/ pc = "top" /\ StartWorkers(APIs) /\ Goto("signal")
       \/ pc = "signal" /\ Goto("join") /\ UNCHANGED exerciseVars
       \/ /\ pc = "join" /\ AllLeft /\ UNCHANGED exerciseVars
          /\ IF Errors THEN Fail("errors") ELSE Done

\* Two threads in a container that has no mutex: all may go well, or not.
Worker ==
    /\ At("threads") /\ UNCHANGED NotThreads
    /\ \/ /\ \E t \in Workers : WorkerStep(t, doing[2], graphics, pc = "join")
          /\ UNCHANGED <<step, pc, late, outcome>>
       \/ /\ AdoptsRace /\ outcome' = "crashed" /\ pc' = "gone"
          /\ UNCHANGED <<exerciseVars, step, late>>
-----------------------------------------------------------------------------
\* The destructor of a helper whose constructor threw never runs.
ConstructorThrew == test \in Helpers /\ outcome = "create"

DestroySession_DeviceFirst ==
    /\ pc = "destroy" /\ ~ConstructorThrew /\ device' = FALSE
    /\ IF device THEN Goto("destroy") /\ UNCHANGED <<session, queue>>
                 ELSE /\ Goto("device") /\ queue' = <<>>
                      /\ session' = IF session = "alive" THEN "destroyed" ELSE session
    /\ UNCHANGED <<apart, rtVars, raised, readVars, sessionState, refused>>
\* AutoBasicSession::Shutdown and ~CompositionHelper
DestroySession ==
    /\ pc = "destroy" /\ ~ConstructorThrew
    /\ session' = IF session = "alive" THEN "destroyed" ELSE session
    /\ queue' = <<>>                           \* the events of a dead handle are dropped
    /\ Goto("device")
    /\ UNCHANGED <<apart, rtVars, raised, readVars, sessionState, device, refused>>

ShutdownDevice ==
    /\ pc = "device" /\ device' = FALSE
    /\ reader' = [r \in Readers |-> 0] /\ sessionState' = "UNKNOWN"
    /\ Goto("gone")
    /\ UNCHANGED <<apart, rtVars, queue, raised, events, seen, born, session, refused>>

LeaveBehind ==
    /\ pc = "destroy" /\ ConstructorThrew /\ Goto("gone")
    /\ UNCHANGED <<apart, rtVars, queue, raised, readVars, sessionState, endVars>>

Over == pc = "gone" /\ UNCHANGED vars

Framework ==
    \/ Create \/ Setup \/ CreateLayers \/ AwaitReady \/ AwaitOwnReady \/ NewManager
    \/ PollEvents \/ LookForFocus \/ SyncUntilFocus
    \/ BeginSession \/ RequestExit \/ EndSession \/ EndEarly
    \/ Tick \/ TickBegins \/ NextSessionState
    \/ WaitFrame \/ BeginFrame \/ AcquireImage \/ WaitImage \/ ReleaseImage \/ EndFrame
    \/ StartAppThread \/ CheckResult \/ DequeueFrame \/ JoinAppThread \/ RunTestEnvironment
    \/ DestroySession \/ ShutdownDevice \/ LeaveBehind

Next ==
    \/ Framework \/ AppThread \/ Worker \/ DeadlinePasses \/ ProfileChanges \/ Over
    \/ \E s \in States : RuntimeChanges(s)

\* A call of the runtime returns and the clock runs; the runtime itself may
\* leave the session where it is for ever.
Spec == Init /\ [][Next]_vars /\ WF_vars(Framework) /\ WF_vars(AppThread)
    /\ WF_vars(Worker) /\ WF_vars(DeadlinePasses)
-----------------------------------------------------------------------------
(***************************************************************************)
(* Whatever the runtime does between two calls, the framework begins a       *)
(* session only when it is READY and does not run, and waits for, begins and *)
(* ends frames, acquires and releases images, asks to exit and ends only     *)
(* where that is legal: no call is refused as out of order but an            *)
(* xrBeginSession that meets a session the runtime took back from READY      *)
(* (conformance_utils.cpp RunToSessionState, composition_utils.cpp). The     *)
(* test "cycle" is an exception: after xrEndSession it calls xrWaitFrame     *)
(* unless IDLE is there at once (test_SessionState.cpp:92). Calls that may   *)
(* not overlap do not.                                                       *)
(***************************************************************************)
ReadyTakenBack == \E i \in 2..Len(raised) : raised[i - 1] = "READY" /\ raised[i] = "IDLE"
CallsInOrder ==
    /\ test # "cycle" => refused = {} \/ (refused = {"xrBeginSession"} /\ ReadyTakenBack)
    /\ CallsExclusive

(***************************************************************************)
(* A run is not blamed on an unexpected state unless the runtime really took *)
(* the session out of the frame loop or back from READY: no other event from *)
(* before READY, and none a frame loop must expect, fails a test             *)
(* (CompositionHelper::PollEvents, FrameIterator::RunToSessionState).        *)
(***************************************************************************)
UnexpectedExplained ==
    outcome = "unexpected" /\ test # "cycle" =>
        \/ \E s \in {"STOPPING", "EXITING", "LOSS_PENDING"} : Contains(raised, s)
        \/ ReadyTakenBack

(***************************************************************************)
(* A test ends with a frame begun or an image acquired only when the wait    *)
(* for the image did not succeed or the session is lost: "we will leave the  *)
(* texture in an acquired state without any way for that swapchain image to  *)
(* get unacquired. So we have to error" (CycleToNextSwapchainImage).         *)
(***************************************************************************)
LeftOpenExplained ==
    outcome # "none" /\ (frame # {} \/ image # "free") => outcome = "imageWait" \/ Lost

(***************************************************************************)
(* However the two threads of the pipelined test interleave, nothing is      *)
(* thrown past the running thread, which would end the whole program without *)
(* a report, and no frame is left in the queue, but in a lost session        *)
(* (test_FrameSubmission.cpp).                                               *)
(***************************************************************************)
PipelineExplained ==
    /\ outcome = "terminated" => Lost
    /\ outcome # "none" /\ pipe.queued > 0 => Lost

(***************************************************************************)
(* The test "multithreading" fails only for a runtime that failed it, and    *)
(* dies only when two threads adopt image data at a time, which nothing      *)
(* prevents but the mutex of OpenGL (swapchain_image_data.h:338).            *)
(***************************************************************************)
ThreadsExplained == ErrorsExplained /\ (outcome = "crashed" => api # "opengl")

(***************************************************************************)
(* A test that meets an unexpected state (but for the test "cycle"), leaves  *)
(* a frame open, ends the program or lets a worker report an error has a     *)
(* reason in what the runtime did, never in the order in which the framework *)
(* reads and calls; and no test crashes with OpenGL. A test that runs into a *)
(* timeout is outside of it (conformance_utils.cpp, composition_utils.cpp,   *)
(* test_FrameSubmission.cpp, test_multithreading.cpp).                       *)
(***************************************************************************)
FailuresExplained ==
    /\ UnexpectedExplained /\ LeftOpenExplained /\ PipelineExplained
    /\ ThreadsExplained

(***************************************************************************)
(* While the helper waits for focus and the session has it, the event is     *)
(* still ahead of the manager's reader: the wait is for an event and not for *)
(* a state, and would run into its timeout had the event gone by before the  *)
(* reader was created (ActionLayerManager, EventReader::EventReader).        *)
(***************************************************************************)
FocusIsAhead ==
    At("focus") /\ state = "FOCUSED" =>
        Contains(SubSeq(events, reader["manager"], Len(events)) \o queue, "FOCUSED")

(***************************************************************************)
(* "Separate EventReaders from the same EventQueue will not impact each      *)
(* other": what a reader returned and what it can still read are, in order,  *)
(* every event the runtime raised but those polled before it was created.    *)
(***************************************************************************)
NoEventIsMissed ==
    \A r \in Readers : test \in Helpers /\ reader[r] # 0 /\ session = "alive" =>
        seen[r] \o SubSeq(events, reader[r], Len(events)) \o queue
            = SubSeq(raised, born[r] + 1, Len(raised))

(***************************************************************************)
(* Every reader sees every event in order, and a wait for an event begins    *)
(* before the event can be read (event_reader.cpp).                          *)
(***************************************************************************)
ReadersSeeAll == NoEventIsMissed /\ FocusIsAhead

(***************************************************************************)
(* The device is shut down "after the session is destroyed"                  *)
(* (AutoBasicSession::Shutdown, ~CompositionHelper).                         *)
(***************************************************************************)
DeviceOutlivesSession == session = "alive" => device

(***************************************************************************)
(* A test that is over has destroyed its session and shut down the device,   *)
(* except after a CompositionHelper constructor threw, whose destructor then *)
(* never runs, and in a program that was terminated or crashed.              *)
(***************************************************************************)
CleanedUp ==
    pc = "gone" /\ (device \/ session = "alive") =>
        (test \in Helpers /\ outcome = "create") \/ outcome \in {"terminated", "crashed"}

(***************************************************************************)
(* Session and device are given back, in this order, however the test ended, *)
(* and so is what worker threads made (AutoBasicSession, CompositionHelper). *)
(***************************************************************************)
GivenBack == DeviceOutlivesSession /\ CleanedUp /\ NothingLeftBehind

(***************************************************************************)
(* Every test ends, whatever state the runtime leaves the session in: each   *)
(* wait reaches what it waits for, fails or times out.                       *)
(***************************************************************************)
EveryTestEnds == <>(pc = "gone")
=============================================================================
