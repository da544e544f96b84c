---------------------------- MODULE ThreadExercises ----------------------------
(***************************************************************************)
(* The worker threads of the test "multithreading": each calls functions of *)
(* the runtime picked at random, on one instance and one session that all   *)
(* share, and on objects of its own. A function is the sequence of its       *)
(* calls; the calls of the workers interleave. Catch2 is not used in the     *)
(* threads: an exception is counted, and judged after the join.             *)
(***************************************************************************)
EXTENDS Integers, Sequences, SequencesExt

CONSTANTS Workers,            \* the threads (threadCount)
          InvocationCount     \* functions that each of them calls (100 in the code)

ASSUME WorkersAssumption == InvocationCount \in Nat \ {0} /\ "nobody" \notin Workers

VARIABLES
  worker,    \* per worker: its place, functions called, the calls that are left of
             \* the current one, the objects it made, the errors it counted
  held,      \* per mutex: the worker that holds it, or "nobody"
  alive,     \* the objects of the runtime that workers made
  api,       \* which graphics API is enabled: "opengl", "vulkan" or "other"
  flaws      \* what the runtime did (history): "failed" a legal call, or reached
             \* a "limit" where the test takes no limit

exerciseVars == <<worker, held, alive, api, flaws>>

\* What a function does when the runtime is at its limit.
Limits == {"return", "proceed", "throw"}
Make(kind, limit) == <<"make", kind, limit>>
Drop(kind) == <<"drop", kind>>
Ask(what) == <<"ask", what>>
Lock(mutex) == <<"lock", mutex>>
-----------------------------------------------------------------------------
Exercise_xrCreateInstance == <<Make("instance", "return"), Drop("instance")>>

Exercise_xrPollEvent == <<Ask("event")>>       \* and the other functions of one call

Exercise_xrCreateSession == <<Make("session", "return"), Drop("session")>>

Exercise_xrCreateReferenceSpace == <<Make("space", "return"), Drop("space")>>

\* The limit is tolerated, and a space that was never written destroyed.
Exercise_xrCreateActionSpace == <<Make("space", "proceed"), <<"dropUnwritten", "space">>>>

Exercise_xrCreateSwapchain ==
    <<Lock("openGlContextMutex"), Make("swapchain", "return"), Drop("swapchain")>>

Exercise_xrEnumerateSwapchainImages ==
    <<Lock("openGlContextMutex"), Make("swapchain", "return"), Ask("images"),
      <<"adopt", "imageData">>, Ask("images"), Drop("swapchain")>>

Exercise_xrAcquireSwapchainImage ==
    <<Lock("vulkanQueueMutex"), Lock("openGlContextMutex"),
      Make("swapchain", "return"), Ask("acquire"), Ask("wait"), Ask("release"),
      Drop("swapchain")>>

\* The names of the sets are made from the address of a local variable.
Exercise_xrCreateActionSet ==
    <<Make("set", "proceed"), Make("set", "proceed"), Drop("set"), Drop("set")>>

Exercise_xrCreateAction ==
    <<Make("baseSet", "throw"), Make("action", "proceed"), Drop("action"), Drop("baseSet")>>

Exercise_xrSyncActions == <<Ask("sync"), Ask("state")>>

\* CallRequirement; functions of swapchains are left out without graphics.
Offered(env, graphics) ==
    {Exercise_xrCreateInstance}
    \cup (IF env = "global" THEN {} ELSE {Exercise_xrPollEvent})
    \cup (IF env # "session" THEN {} ELSE
            {Exercise_xrCreateSession, Exercise_xrCreateReferenceSpace,
             Exercise_xrCreateActionSpace, Exercise_xrCreateActionSet,
             Exercise_xrCreateAction, Exercise_xrSyncActions})
    \cup (IF env # "session" \/ ~graphics THEN {} ELSE
            {Exercise_xrCreateSwapchain, Exercise_xrEnumerateSwapchainImages,
             Exercise_xrAcquireSwapchainImage})
-----------------------------------------------------------------------------
Idle == [at |-> "none", done |-> 0, calls |-> <<>>, made |-> <<>>, errors |-> 0]
Mutexes == {"openGlContextMutex", "vulkanQueueMutex"}

ExerciseInit ==
    /\ worker = [t \in Workers |-> Idle]
    /\ held = [m \in Mutexes |-> "nobody"]
    /\ alive = {} /\ api = "other" /\ flaws = {}

Needed(mutex) ==
    (api = "opengl" /\ mutex = "openGlContextMutex") \/ (api = "vulkan" /\ mutex = "vulkanQueueMutex")

Unlocked(t) == [m \in Mutexes |-> IF held[m] = t THEN "nobody" ELSE held[m]]

\* The end of a function, by its last call or by an exception.
Leave(t, errors) ==
    /\ worker' = [worker EXCEPT ![t].at = "pick", ![t].done = @ + 1, ![t].calls = <<>>,
                               ![t].made = <<>>, ![t].errors = @ + errors]
    /\ held' = Unlocked(t)
Throw(t) == Leave(t, 1)

Continue(t, made) ==
    IF Len(worker[t].calls) = 1 THEN Leave(t, 0)
    ELSE /\ worker' = [worker EXCEPT ![t].calls = Tail(@), ![t].made = made]
         /\ UNCHANGED held

\* WaitToBegin, and then one function after the other; one that the environment
\* has no handles for is picked again.
PickFunction(t, env, graphics, begun) ==
    /\ worker[t].at = "pick" /\ begun /\ worker[t].done < InvocationCount
    /\ \E f \in Offered(env, graphics) :
         worker' = [worker EXCEPT ![t].at = "inside", ![t].calls = f]
    /\ UNCHANGED <<held, alive, api, flaws>>

Calls(t, what) == worker[t].at = "inside" /\ Head(worker[t].calls)[1] = what
Of(t) == Head(worker[t].calls)[2]

TakeLock(t) ==
    /\ Calls(t, "lock") /\ (Needed(Of(t)) => held[Of(t)] = "nobody")
    /\ worker' = [worker EXCEPT ![t].calls = Tail(@)]
    /\ held' = IF Needed(Of(t)) THEN [held EXCEPT ![Of(t)] = t] ELSE held
    /\ UNCHANGED <<alive, api, flaws>>

\* A legal call fails, for instance in a lost session (bound: once).
Fails(t) ==
    /\ "failed" \notin flaws /\ flaws' = flaws \cup {"failed"}
    /\ Throw(t) /\ UNCHANGED <<alive, api>>

Object(t) == [kind |-> Of(t), by |-> t, turn |-> worker[t].done, nr |-> Len(worker[t].calls)]
NameTaken(t) ==
    \E o \in alive : Of(t) \in {"set", "baseSet"} /\ [o EXCEPT !.turn = 0] = [Object(t) EXCEPT !.turn = 0]

\* One process has one instance (the loader).
AtLimit(t, env) == Of(t) = "instance" /\ (env # "global" \/ \E o \in alive : o.kind = "instance")

MakeObject(t, env) ==
    /\ Calls(t, "make")
    /\ \/ /\ ~NameTaken(t) /\ ~AtLimit(t, env)
          /\ alive' = alive \cup {Object(t)}
          /\ Continue(t, Append(worker[t].made, Object(t))) /\ UNCHANGED <<api, flaws>>
       \/ /\ UNCHANGED <<alive, api>>
          /\ CASE Head(worker[t].calls)[3] = "return" -> Leave(t, 0) /\ UNCHANGED flaws
               [] Head(worker[t].calls)[3] = "proceed" ->
                    Continue(t, worker[t].made) /\ UNCHANGED flaws
               [] Head(worker[t].calls)[3] = "throw" ->
                    Throw(t) /\ flaws' = flaws \cup {"limit"}
       \/ NameTaken(t) /\ Throw(t) /\ UNCHANGED <<alive, api, flaws>>

\* A handle is legal while its object is alive; a list may be empty.
DropObject(t) ==
    /\ Calls(t, "drop") \/ Calls(t, "dropUnwritten")
    /\ LET mine == {i \in DOMAIN worker[t].made : worker[t].made[i].kind = Of(t)} IN
       \/ \E i \in mine :
            LET o == worker[t].made[i] IN
            /\ \A j \in mine : i <= j
            /\ \/ /\ o \in alive /\ alive' = alive \ {o}
                  /\ Continue(t, RemoveAt(worker[t].made, i))
               \/ o \notin alive /\ Throw(t) /\ UNCHANGED alive
            /\ UNCHANGED <<api, flaws>>
       \/ /\ mine = {} /\ Calls(t, "drop")
          /\ Continue(t, worker[t].made) /\ UNCHANGED <<alive, api, flaws>>
       \/ /\ mine = {} /\ Calls(t, "dropUnwritten")
          /\ flaws' = flaws \cup {"limit"} /\ UNCHANGED api
          /\ \/ Throw(t) /\ UNCHANGED alive            \* no handle at all
             \/ \E o \in alive : /\ o.kind = Of(t)     \* or another thread's
                                 /\ alive' = alive \ {o} /\ Continue(t, <<>>)

AskRuntime(t) ==
    /\ Calls(t, "ask") /\ Continue(t, worker[t].made) /\ UNCHANGED <<alive, api, flaws>>

\* SwapchainImageDataMap::Adopt, in a container of the plugin without a mutex.
AdoptImageData(t) ==
    /\ Calls(t, "adopt") /\ Continue(t, worker[t].made) /\ UNCHANGED <<alive, api, flaws>>
AdoptsRace == \E t, u \in Workers : t # u /\ Calls(t, "adopt") /\ Calls(u, "adopt")

WorkerStep(t, env, graphics, begun) ==
    \/ PickFunction(t, env, graphics, begun) \/ TakeLock(t)
    \/ MakeObject(t, env) \/ DropObject(t) \/ AskRuntime(t) \/ AdoptImageData(t)
    \/ /\ Calls(t, "make") \/ Calls(t, "drop") \/ Calls(t, "ask")
       /\ Fails(t)

StartWorkers(apis) ==
    /\ worker' = [t \in Workers |-> [Idle EXCEPT !.at = "pick"]]
    /\ alive' = {} /\ api' \in apis /\ UNCHANGED <<held, flaws>>

AllLeft == \A t \in Workers : worker[t].at = "pick" /\ worker[t].done = InvocationCount
Errors == \E t \in Workers : worker[t].errors > 0
-----------------------------------------------------------------------------
(***************************************************************************)
(* "The OpenGL context given to the call xrCreateSession must not be bound   *)
(* in another thread when calling" the functions of sessions and swapchains, *)
(* and "access to the VkQueue must be externally synchronized": no two       *)
(* workers are inside such calls, except that Exercise_xrCreateSession takes *)
(* no mutex (test_multithreading.cpp:180-217).                              *)
(***************************************************************************)
InContext(t) ==
    /\ worker[t].at = "inside" /\ Head(worker[t].calls)[1] # "lock"
    /\ Of(t) \in {"session", "swapchain", "images", "acquire", "wait", "release"}
CallsExclusive ==
    \A t, u \in Workers : t # u =>
        /\ api = "opengl" /\ InContext(t) /\ InContext(u) => "session" \in {Of(t), Of(u)}
        /\ api = "vulkan" /\ InContext(t) /\ InContext(u) =>
             ~({Of(t), Of(u)} \subseteq {"acquire", "release"})

(***************************************************************************)
(* A runtime is blamed only if it failed a legal call: not because of what   *)
(* the other threads do or the names they choose, and not for reaching its   *)
(* limits, which the functions accept, except in the two that do not (an     *)
(* action space is destroyed though it was not created, and the set for the  *)
(* actions must be created; test_multithreading.cpp).                        *)
(***************************************************************************)
ErrorsExplained == Errors => flaws # {}

(***************************************************************************)
(* Workers that counted no error left no object behind, whatever limits they *)
(* met and wherever they were interrupted (test_multithreading.cpp).         *)
(***************************************************************************)
NothingLeftBehind == AllLeft /\ ~Errors => alive = {}
=============================================================================
