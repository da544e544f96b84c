----------------------------- MODULE FrameworkInv -----------------------------
(***************************************************************************)
(* The inductive invariants of FrameworkSession and ThreadExercises: where   *)
(* each test stands in its script, what the session, the readers of the      *)
(* events, the frame and the threads are then, what the test knows of the    *)
(* session when it calls, and why it ended.                                  *)
(***************************************************************************)
EXTENDS FrameworkSession

Kinds == {"instance", "session", "space", "swapchain", "set", "baseSet", "action"}
Objects == [kind : Kinds, by : Workers, turn : Nat, nr : Nat]

\* The functions, the kinds of what they make in this order, and how many of them a
\* worker can hold before each call.
Balances ==
    {[calls |-> Exercise_xrCreateInstance, kinds |-> <<"instance">>,
      low |-> <<0, 1>>, high |-> <<0, 1>>],
     [calls |-> Exercise_xrPollEvent, kinds |-> <<>>,
      low |-> <<0>>, high |-> <<0>>],
     [calls |-> Exercise_xrCreateSession, kinds |-> <<"session">>,
      low |-> <<0, 1>>, high |-> <<0, 1>>],
     [calls |-> Exercise_xrCreateReferenceSpace, kinds |-> <<"space">>,
      low |-> <<0, 1>>, high |-> <<0, 1>>],
     [calls |-> Exercise_xrCreateActionSpace, kinds |-> <<"space">>,
      low |-> <<0, 0>>, high |-> <<0, 1>>],
     [calls |-> Exercise_xrCreateSwapchain, kinds |-> <<"swapchain">>,
      low |-> <<0, 0, 1>>, high |-> <<0, 0, 1>>],
     [calls |-> Exercise_xrEnumerateSwapchainImages, kinds |-> <<"swapchain">>,
      low |-> <<0, 0, 1, 1, 1, 1>>, high |-> <<0, 0, 1, 1, 1, 1>>],
     [calls |-> Exercise_xrAcquireSwapchainImage, kinds |-> <<"swapchain">>,
      low |-> <<0, 0, 0, 1, 1, 1, 1>>, high |-> <<0, 0, 0, 1, 1, 1, 1>>],
     [calls |-> Exercise_xrCreateActionSet, kinds |-> <<"set", "set">>,
      low |-> <<0, 0, 0, 0>>, high |-> <<0, 1, 2, 1>>],
     [calls |-> Exercise_xrCreateAction, kinds |-> <<"baseSet", "action">>,
      low |-> <<0, 1, 1, 1>>, high |-> <<0, 1, 2, 1>>],
     [calls |-> Exercise_xrSyncActions, kinds |-> <<>>,
      low |-> <<0, 0>>, high |-> <<0, 0>>]}

\* A worker is before call i of x.
Before(t, x, i) ==
    /\ worker[t].calls = SubSeq(x.calls, i, Len(x.calls))
    /\ Len(worker[t].made) \in x.low[i]..x.high[i]
    /\ \A n \in 1..Len(worker[t].made) : worker[t].made[n].kind = x.kinds[n]
    /\ \A m \in Mutexes :
          Needed(m) /\ (\E j \in 1..(i - 1) : x.calls[j] = Lock(m)) => held[m] = t

RestsOf(x) == {SubSeq(x.calls, i, Len(x.calls)) : i \in 1..7}
Rests == {<<>>} \cup UNION {RestsOf(x) : x \in Balances}

WorkerTypes ==
    /\ worker \in [Workers -> [at : {"none", "pick", "inside"}, done : Nat, calls : Rests,
                               made : Seq(Objects), errors : Nat]]
    /\ held \in [Mutexes -> Workers \cup {"nobody"}]

\* A worker is inside a function, or has nothing of its own.
Placed(t) ==
    IF worker[t].at = "inside"
    THEN \E x \in Balances : \E i \in 1..Len(x.calls) : Before(t, x, i)
    ELSE worker[t].made = <<>>

\* What a worker made, it made before, itself and one at a time.
MadeInOrder(t) ==
    \A i \in DOMAIN worker[t].made :
        LET o == worker[t].made[i] IN
        /\ o.by = t /\ o.nr > Len(worker[t].calls)
        /\ \A j \in DOMAIN worker[t].made : i < j => o.nr > worker[t].made[j].nr

\* Without an error a worker has at hand what it made and not destroyed.
AtHand(t) ==
    worker[t].errors = 0 => \A o \in alive : o.by = t => o \in ToSet(worker[t].made)

WorkerInv ==
    /\ WorkerTypes /\ alive \subseteq Objects
    /\ \A t \in Workers : Placed(t) /\ AtHand(t) /\ MadeInOrder(t)

\* A runtime without a flaw fails no call and loses no object.
FlawInv ==
    flaws = {} => \A t \in Workers : worker[t].errors = 0 /\ ToSet(worker[t].made) \subseteq alive

WInv == WorkerInv /\ FlawInv

\* Where the session is created and begun, and where the reader of the manager is.
CreateAt == [focused |-> 1, by_hand |-> 1, iterated |-> 1, helper |-> 1, manager |-> 1,
             cycle |-> 1, pipelined |-> 1, threads |-> 4]
BeginAt == [focused |-> 3, by_hand |-> 4, iterated |-> 3, helper |-> 4, manager |-> 5,
            cycle |-> 5, pipelined |-> 5, threads |-> 6]
ManagerAt == [focused |-> 20, by_hand |-> 20, iterated |-> 20, helper |-> 5, manager |-> 3,
              cycle |-> 20, pipelined |-> 20, threads |-> 20]
Running == {"focused", "by_hand", "iterated", "threads"}

FramePlaces == {"waited", "acquire", "image", "release", "end"}
PlacesOf(kind) ==
    CASE kind = "create" -> {"top", "session"}
      [] kind = "run" -> {"top", "begin", "frame"} \cup FramePlaces
      [] kind = "submit" -> {"top", "frame", "waited", "end"}
      [] kind \in {"focus", "sync"} -> {"top", "waited", "end", "poll", "look"}
      [] kind = "render" -> {"top", "check", "dequeue", "join", "joined"} \cup FramePlaces
      [] kind = "threads" -> {"top", "signal", "join"}
      [] OTHER -> {"top"}

TypeInv ==
    /\ test \in DOMAIN Script /\ graphics \in BOOLEAN
    /\ state \in States /\ running \in BOOLEAN /\ exiting \in BOOLEAN
    /\ frame \subseteq {"waited", "begun"} /\ image \in {"free", "acquired", "waited"}
    /\ queue \in Seq(Events) /\ raised \in Seq(Events) /\ events \in Seq(Events)
    /\ reader \in [Readers -> Nat] /\ born \in [Readers -> Nat]
    /\ seen \in [Readers -> Seq(Events)]
    /\ sessionState \in States /\ session \in {"none", "alive", "destroyed"}
    /\ device \in BOOLEAN /\ step \in 1..Len(Script[test])
    /\ pipe \in [app : {"none", "wait", "queue", "signal", "done"}, left : Nat, queued : Nat,
                 completed : BOOLEAN, result : {"SUCCESS", "LOSS_PENDING", "FAILED"}]

PlaceInv ==
    IF outcome = "none" THEN pc \in PlacesOf(doing[1]) ELSE pc \in {"destroy", "device", "gone"}

SessionInv ==
    /\ outcome = "none" =>
          IF step > CreateAt[test] THEN session = "alive" ELSE session = "none"
    /\ pc = "session" => device
    /\ pc = "device" => session # "alive"
    /\ DeviceOutlivesSession /\ CleanedUp

EventInv ==
    /\ session = "none" => state = "UNKNOWN" /\ raised = <<>> /\ queue = <<>> /\ events = <<>>
    /\ "UNKNOWN" \notin ToSet(raised)
    /\ state = "UNKNOWN" => raised = <<>>
    /\ state # "UNKNOWN" => state \in ToSet(raised)
    /\ state = "READY" => raised[Len(raised)] = "READY"

\* A reader has returned what was polled from its birth on.
Follows(r) ==
    reader[r] # 0 =>
        /\ born[r] < reader[r] /\ reader[r] <= Len(events) + 1
        /\ seen[r] = SubSeq(events, born[r] + 1, reader[r] - 1)

\* When the readers are there.
ReadersAt ==
    /\ reader["private"] # 0 <=> step > CreateAt[test] \/ pc = "session"
    /\ reader["manager"] # 0 <=> step > ManagerAt[test]
    /\ \A r \in Readers : reader[r] = 0 => seen[r] = <<>> /\ born[r] = 0

\* A helper drops no event but those of a session it destroyed.
NothingDropped == test \in Helpers /\ session # "destroyed" => raised = events \o queue

ReaderInv ==
    /\ NothingDropped
    /\ outcome = "none" => ReadersAt
    /\ \A r \in Readers : Follows(r)

\* Focus comes after the session has begun, and the wait for it begins before.
NoFocusYet == test = "helper" /\ step <= 5 => "FOCUSED" \notin ToSet(events)
NoFocusRead ==
    test \in {"helper", "manager"} /\ step > ManagerAt[test] /\ step <= 6 =>
        \A i \in 1..(reader["manager"] - 1) : events[i] # "FOCUSED"
FocusInv == outcome = "none" => NoFocusYet /\ NoFocusRead

\* A helper has read READY before it begins the session.
ReadyRead ==
    test \in Helpers /\ step >= BeginAt[test] =>
        \E i \in 1..(reader["private"] - 1) : events[i] = "READY"
ReadyInv == outcome = "none" => ReadyRead

\* Does the session run where the script says so?
ScriptRuns ==
    /\ step < BeginAt[test] \/ (step = BeginAt[test] /\ test # "iterated") => ~running
    /\ step > BeginAt[test] => running
    /\ pc = "begin" => doing[2] # "READY"

\* What has been raised before and while the session runs.
RaisedInv ==
    /\ ~running =>
          /\ ~exiting /\ ToSet(raised) \subseteq {"IDLE", "READY", "LOSS_PENDING"}
          /\ "READY" \in ToSet(raised) => ReadyTakenBack \/ state \in {"READY", "LOSS_PENDING"}
    /\ running => state \in {"READY", "SYNCHRONIZED", "VISIBLE", "FOCUSED", "STOPPING",
                             "LOSS_PENDING"}
    /\ "STOPPING" \in ToSet(raised) => state \in {"STOPPING", "LOSS_PENDING"}
    /\ ReadyTakenBack \/
          \A i, j \in DOMAIN raised :
              i < j /\ raised[i] = "READY" => raised[j] \notin {"READY", "IDLE"}

PhaseInv == outcome = "none" /\ test # "cycle" => ScriptRuns /\ RaisedInv

\* What has been raised and polled; the rest is in the queue.
Polled(e) == \E i \in 1..(Len(raised) - Len(queue)) : raised[i] = e
Unpolled ==
    /\ Len(queue) <= Len(raised)
    /\ \A i \in 1..Len(queue) : queue[i] = raised[Len(raised) - Len(queue) + i]

\* What a test that polls by itself knows of the session, from what it polled.
PollInv ==
    outcome = "none" /\ test \in Running =>
        /\ Unpolled
        /\ \A e \in ToSet(events) : Polled(e)
        /\ doing[1] = "end" => Polled("STOPPING")
        /\ sessionState # "UNKNOWN" => Polled(sessionState)
        /\ step >= BeginAt[test] /\ (test = "iterated" => running) => Polled("READY")
        /\ test = "iterated" /\ sessionState = "READY" /\ pc # "begin" => running
        /\ pc = "begin" => sessionState = "READY" /\ (running => ReadyTakenBack)

\* Only an xrBeginSession that came too late was refused.
RefusedInv ==
    /\ outcome = "none" => refused = {}
    /\ test # "cycle" => refused = {} \/ (refused = {"xrBeginSession"} /\ ReadyTakenBack)

\* Frame and image are where the place in the frame says.
FrameInv ==
    outcome = "none" =>
        /\ image = IF pc = "image" THEN "acquired" ELSE IF pc = "release" THEN "waited" ELSE "free"
        /\ pc \in FramePlaces \/ (pc = "frame" /\ test # "cycle") => running
        /\ test # "pipelined" =>
              frame = IF pc = "waited" THEN {"waited"}
                      ELSE IF pc \in FramePlaces THEN {"begun"} ELSE {}

\* What the two threads of the pipelined test share, before they are two and then.
PipeIdle ==
    /\ pipe.app = "none" /\ pipe.queued = 0 /\ pipe.left = FrameCount /\ ~pipe.completed
    /\ pipe.result = "SUCCESS" /\ (test = "pipelined" => frame = {})
PipeFlows ==
    /\ pipe.result = "SUCCESS"
    /\ "waited" \in frame <=> pipe.app = "queue" \/ pipe.queued = 1 \/ pc = "waited"
    /\ ~(pipe.app = "queue" /\ pipe.queued = 1) /\ ~(pipe.queued = 1 /\ pc = "waited")
    /\ ~(pipe.app = "queue" /\ pc = "waited") /\ pipe.queued <= 1
    /\ "begun" \in frame <=> pc \in FramePlaces \ {"waited"}
    /\ pipe.completed <=> pipe.app \in {"done", "none"}
    /\ pipe.app = "wait" => pipe.left > 0
    /\ pc = "join" => pipe.queued = 0 /\ pipe.completed
    /\ pc = "joined" => pipe.queued = 0
    /\ pc = "joined" <=> pipe.app = "none"
PipeInv ==
    /\ outcome = "none" /\ (doing[1] # "render" \/ pc = "top") => PipeIdle
    /\ outcome = "none" /\ doing[1] = "render" /\ pc # "top" /\ ~Lost => PipeFlows

\* Why a test ended.
ReasonInv == UnexpectedExplained /\ LeftOpenExplained /\ PipelineExplained

\* The steps of the scripts, but for the creation of the session.
Reading == AwaitReady \/ AwaitOwnReady \/ PollEvents \/ LookForFocus
Ticking == Tick \/ NextSessionState
Beginning == BeginSession \/ TickBegins
Ending == EndSession \/ EndEarly
Framing == WaitFrame \/ BeginFrame \/ AcquireImage \/ WaitImage \/ ReleaseImage \/ EndFrame
Threading == StartAppThread \/ CheckResult \/ DequeueFrame \/ JoinAppThread
Plain == Setup \/ CreateLayers \/ SyncUntilFocus \/ RunTestEnvironment
Step == Reading \/ Ticking \/ Beginning \/ Ending \/ Framing \/ Threading \/ Plain
        \/ NewManager \/ RequestExit
=============================================================================
