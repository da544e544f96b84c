------------------------- MODULE HandleRegistryProofs -------------------------
(***************************************************************************)
(* IInv is an inductive invariant of HandleRegistry, for any number of     *)
(* threads, handles and objects, if the runtime does not hand out a handle *)
(* value again before the call that destroyed it has returned.  The steps  *)
(* that change no shared data are covered by LocalStep; the seven that do  *)
(* have a lemma each.  The safety properties follow, and then what needs   *)
(* more than the invariant itself: what one step may do to the map, the    *)
(* refinement of HandleTree, and the absence of every fault.               *)
(***************************************************************************)
EXTENDS HandleRegistryInv, TLAPS

\* The names of steps and faults the actions use are among those declared.
LEMMA Names ==
  /\ "abort" \in Faults /\ "nullDeref" \in Faults /\ "useAfterFree" \in Faults
  /\ "handleInvalid" \in Faults /\ "untrackedEvent" \in Faults
  /\ "findParent" \in Steps /\ "register" \in Steps /\ "create" \in Steps
  /\ "clone" \in Steps /\ "custom" \in Steps /\ "destroy" \in Steps
  /\ "unregister" \in Steps /\ "recurse" \in Steps /\ "poll" \in Steps
  /\ "event" \in Steps /\ "payload" \in Steps /\ "idle" \in Steps
  BY DEF Steps, Faults

\* Instance, sessions and leaves are three kinds of handles, none of them Null.
LEMMA Kinds ==
  /\ Instance \in Handles /\ Sessions \subseteq Handles /\ Leaves \subseteq Handles
  /\ Handles = {Instance} \cup Sessions \cup Leaves
  /\ Instance \notin Sessions /\ Instance \notin Leaves /\ Sessions \cap Leaves = {}
  /\ Null \notin Handles /\ Null \notin Objects /\ Null \notin Threads
  BY ConstantsAssumption DEF Handles

\* A call alters the data of its own thread only.
OnlyCall(t) ==
  /\ pc' \in [Threads -> Steps]
  /\ arg' \in [Threads -> Handles \cup {Null}]
  /\ new' \in [Threads -> Handles \cup {Null}]
  /\ ptr' \in [Threads -> Objects \cup {Null}]
  /\ doomed' \in [Threads -> SUBSET Handles]
  /\ \A u \in Threads \ {t} :
        /\ pc'[u] = pc[u] /\ arg'[u] = arg[u] /\ new'[u] = new[u]
        /\ ptr'[u] = ptr[u] /\ doomed'[u] = doomed[u]

\* Nothing that threads share changes, but for the mutex and the faults.
SharedUnchanged == UNCHANGED <<runtimeVars, handleStates, objectVars>>

\* A handle the application has been given is alive and in the map: it has no
\* creating call left that could still be on its way to register it.
LEMMA UsableTracked ==
  ASSUME IInv, NEW k \in app
  PROVE  k \in Handles /\ k \in runtime /\ handleStates[k] # Null
<1>1. k \in runtime /\ k \in Handles
  BY DEF IInv, Tracking, OwnerInv, TypeOK
<1>2. ASSUME handleStates[k] = Null PROVE FALSE
  <2>1. PICK t \in Threads : Fresh(t) /\ new[t] = k
    BY <1>1, <1>2 DEF IInv, Tracking, MapInv
  <2>2. CallOK(t) /\ Making(t)
    BY <2>1 DEF IInv, CallInv, Making, Fresh
  <2> QED
    BY <2>1, <2>2 DEF CallOK
<1> QED
  BY <1>1, <1>2

\* A step that changes nothing that threads share keeps the invariant, if the data
\* of its own call still fit.
LEMMA LocalStep ==
  ASSUME IInv, NEW t \in Threads, OnlyCall(t), SharedUnchanged,
         (Fresh(t))' <=> Fresh(t), Fresh(t) => new'[t] = new[t],
         pc[t] # "register", pc'[t] # "register",
         doomed'[t] = doomed[t],
         mutex' \in Threads \cup {Null},
         mutex' # mutex => mutex \in {t, Null},
         faults' \subseteq Faults, FaultInv', churned' \in BOOLEAN,
         CallOK(t)', DoomOK(t)',
         \A u \in Threads \ {t} : Apart(t, u)' /\ Apart(u, t)'
  PROVE  IInv'
<1> USE DEF OnlyCall, SharedUnchanged, runtimeVars, objectVars
<1>1. TypeOK'
  BY DEF IInv, TypeOK
<1>2. ASSUME NEW u \in Threads \ {t} PROVE CallOK(u)'
  <2>1. CallOK(u) /\ mutex \in Threads \cup {Null}
    BY DEF IInv, CallInv, TypeOK
  <2>2. pc[u] = "recurse" => mutex' = u
    BY <2>1, Kinds DEF CallOK
  <2> QED
    BY <2>1, <2>2 DEF CallOK, Making, Fresh, Dooming, Polling
<1>3. CallInv'
  BY <1>2 DEF CallInv
<1>4. Isolation'
  <2> SUFFICES ASSUME NEW u \in Threads, NEW v \in Threads, u # v PROVE Apart(u, v)'
    BY DEF Isolation
  <2>1. CASE u # t /\ v # t
    BY <2>1 DEF IInv, Isolation, Apart, Destroying, Making, Within
  <2> QED
    BY <2>1
<1>5. DoomInv'
  <2> SUFFICES ASSUME NEW u \in Threads \ {t} PROVE DoomOK(u)'
    BY DEF DoomInv
  <2> QED
    BY DEF IInv, DoomInv, DoomOK, Within
<1>6. \A k : Known(k)' <=> Known(k)
  BY DEF Known
<1>7. OwnerInv'
  BY <1>6 DEF IInv, Tracking, OwnerInv
<1>8. \A u \in Threads : \A k : Fresh(u) /\ new[u] = k => (Fresh(u))' /\ new'[u] = k
  BY DEF Fresh
<1>9. MapInv'
  BY <1>6, <1>8 DEF IInv, Tracking, MapInv
<1>10. \A u \in Threads : \A o : pc[u] = "register" /\ ptr[u] = o => pc'[u] = "register" /\ ptr'[u] = o
  OBVIOUS
<1>11. HeapInv'
  BY <1>10 DEF IInv, Tracking, HeapInv
<1>12. RegistryWellFormed' /\ CustomInv'
  BY DEF IInv, Tracking, RegistryWellFormed, CustomInv
<1> QED
  BY <1>1, <1>3, <1>4, <1>5, <1>7, <1>9, <1>11, <1>12 DEF IInv, Tracking

\* The return of a call that has registered and destroyed nothing.
LEMMA ReturnStep ==
  ASSUME IInv, NEW t \in Threads, Return(t), SharedUnchanged,
         pc[t] \in {"idle", "create", "destroy", "poll", "event", "payload"},
         mutex' \in {mutex, Null}, mutex' # mutex => mutex = t,
         faults' \subseteq Faults, FaultInv', churned' \in BOOLEAN
  PROVE  IInv'
<1> USE DEF Return, Goto
<1>1. OnlyCall(t) /\ pc'[t] = "idle" /\ doomed'[t] = {}
  BY Names, Kinds DEF OnlyCall, IInv, TypeOK
<1>2. doomed[t] = {} /\ ~Fresh(t) /\ pc[t] # "register" /\ CallOK(t)
  BY DEF IInv, CallInv, CallOK, Dooming, Fresh
<1>3. ~(Fresh(t))' /\ pc'[t] # "register"
  BY <1>1 DEF Fresh
<1>4. CallOK(t)' /\ DoomOK(t)'
  BY <1>1 DEF CallOK, DoomOK, Making, Fresh, Dooming, Polling
<1>5. \A u \in Threads \ {t} : Apart(t, u)' /\ Apart(u, t)'
  BY <1>1 DEF Apart, Making, Destroying
<1>6. mutex' \in Threads \cup {Null}
  BY DEF IInv, TypeOK
<1> QED
  BY <1>1, <1>2, <1>3, <1>4, <1>5, <1>6, LocalStep

\* The end of xrPollEvent by an exception or a bad access.
LEMMA FailStep ==
  ASSUME IInv, NEW t \in Threads, SharedUnchanged, churned' \in BOOLEAN,
         pc[t] \in {"poll", "event", "payload"},
         NEW fault \in {"nullDeref", "useAfterFree", "untrackedEvent"}, Fail(t, fault)
  PROVE  IInv'
<1>1. faults' \subseteq Faults /\ FaultInv'
  BY Names DEF Fail, IInv, TypeOK, FaultInv
<1>2. Return(t) /\ mutex' \in {mutex, Null} /\ (mutex' # mutex => mutex = t)
  BY DEF Fail
<1> QED
  BY <1>1, <1>2, ReturnStep

\* Nothing but the step and the data of thread t change.
LEMMA BeginStep ==
  ASSUME IInv, NEW t \in Threads, SharedUnchanged, churned' \in BOOLEAN,
         NEW k \in app, Usable(k), pc[t] = "idle",
         NEW step \in {"create", "destroy", "poll"}, Goto(t, step),
         step = "create" => k \in {Instance} \cup Sessions,
         step = "destroy" => Quiet(k),
         step = "poll" => k = Instance,
         arg' = [arg EXCEPT ![t] = k], UNCHANGED <<mutex, new, ptr, doomed, faults>>
  PROVE  IInv'
<1>1. k \in Handles
  BY UsableTracked
<1>2. OnlyCall(t) /\ pc'[t] = step /\ arg'[t] = k
  BY <1>1, Names DEF Goto, OnlyCall, IInv, TypeOK
<1>3. doomed[t] = {} /\ ~Fresh(t) /\ pc[t] # "register" /\ CallOK(t)
  BY DEF IInv, CallInv, CallOK, Dooming, Fresh
<1>4. ~(Fresh(t))' /\ pc'[t] # "register"
  BY <1>2 DEF Fresh
<1>5. CallOK(t)' /\ DoomOK(t)'
  BY <1>2, <1>3 DEF CallOK, DoomOK, Making, Fresh, Dooming, Polling, SharedUnchanged, runtimeVars
<1>6. ASSUME NEW u \in Threads \ {t} PROVE Apart(t, u)'
  BY <1>2 DEF Apart, Making, Destroying, Within, Usable, OnlyCall, SharedUnchanged, runtimeVars
<1>7. ASSUME NEW u \in Threads \ {t} PROVE Apart(u, t)'
  BY <1>2 DEF Apart, Making, Destroying, Within, Quiet, OnlyCall, SharedUnchanged, runtimeVars
<1>8. mutex' \in Threads \cup {Null} /\ faults' \subseteq Faults /\ FaultInv'
  BY DEF IInv, TypeOK, FaultInv
<1> QED
  BY <1>2, <1>3, <1>4, <1>5, <1>6, <1>7, <1>8, LocalStep

\* Two destroying calls never have a handle in common: handles only have one owner,
\* and the application does not destroy a handle within another.
LEMMA DoomedApart ==
  ASSUME IInv, NEW t \in Threads, NEW u \in Threads, t # u
  PROVE  doomed[t] \cap doomed[u] = {}
<1> SUFFICES ASSUME NEW k \in doomed[t], k \in doomed[u] PROVE FALSE
  OBVIOUS
<1>1. Dooming(t) /\ Dooming(u)
  BY DEF IInv, CallInv, CallOK
<1>2. Within(k, arg[t]) /\ Within(k, arg[u])
  BY DEF IInv, DoomInv, DoomOK
<1>3. ~Within(arg[t], arg[u]) /\ ~Within(arg[u], arg[t])
  BY <1>1 DEF IInv, Isolation, Apart, Dooming, Destroying
<1> QED
  BY <1>2, <1>3 DEF Within

\* A child of the object a thread is unregistering is registered, and its
\* handle is one that this thread has destroyed.
LEMMA ChildOfDoomed ==
  ASSUME IInv, NEW t \in Threads, pc[t] = "recurse", NEW c \in heap, stateParent[c] = ptr[t]
  PROVE  stateKey[c] \in doomed[t] /\ handleStates[stateKey[c]] = c
<1> DEFINE k == stateKey[c]
<1>1. ptr[t] \in heap /\ stateKey[ptr[t]] \in doomed[t] /\ Dooming(t) /\ ptr[t] # Null
  BY Kinds DEF IInv, CallInv, CallOK, Dooming, TypeOK
<1>2. k \in Handles /\ k # Instance /\ handleStates[owner[k]] = ptr[t]
  BY <1>1 DEF IInv, Tracking, HeapInv
<1>3. k \in Sessions \/ k \in Leaves
  BY <1>2, Kinds
<1>4. ASSUME NEW u \in Threads, pc[u] = "register", ptr[u] = c
      PROVE  k \in runtime /\ owner[k] \in runtime /\ k = new[u] /\ owner[k] = arg[u]
  <2>1. CallOK(u) /\ Making(u)
    BY <1>4 DEF IInv, CallInv, Making
  <2>2. new[u] \in runtime /\ k = new[u] /\ owner[k] = arg[u] /\ arg[u] \in app
    BY <1>4, <2>1, <1>2 DEF CallOK
  <2> QED
    BY <2>2, <1>2 DEF IInv, Tracking, OwnerInv
<1>5. Known(k)
  BY <1>1, <1>2, <1>4, Kinds DEF IInv, Tracking, HeapInv, MapInv, Known, TypeOK
<1>6. owner[k] \in Handles /\ (k \in Sessions => owner[k] = Instance) /\ owner[k] \notin Leaves
  BY <1>2, <1>3, <1>5, Kinds DEF IInv, Tracking, OwnerInv
<1>7. owner[k] \in doomed[t]
  BY <1>1, <1>2, <1>6 DEF IInv, Tracking, RegistryWellFormed
<1>8. owner[k] \notin runtime /\ Within(owner[k], arg[t])
  BY <1>7 DEF IInv, DoomInv, DoomOK
<1>9. handleStates[k] = c
  BY <1>4, <1>8 DEF IInv, Tracking, HeapInv
<1>10. k \notin runtime
  BY <1>2, <1>8 DEF IInv, Tracking, OwnerInv
<1>11. PICK u \in Threads : k \in doomed[u]
  BY <1>5, <1>10 DEF Known
<1>12. CASE u = t
  BY <1>9, <1>11, <1>12
<1>13. CASE u # t
  <2>1. owner[k] \notin doomed[u]
    BY <1>7, <1>13, DoomedApart
  <2>2. k = arg[u] /\ Dooming(u)
    BY <1>11, <2>1 DEF IInv, DoomInv, DoomOK, CallInv, CallOK
  <2>3. Within(k, arg[t])
    BY <1>3, <1>6, <1>8 DEF Within
  <2>4. ~Within(arg[u], arg[t])
    BY <1>1, <1>13, <2>2 DEF IInv, Isolation, Apart, Dooming, Destroying
  <2> QED
    BY <2>2, <2>3, <2>4
<1> QED
  BY <1>12, <1>13

\* The ABI entry of xrCreate*, xrDestroy* and xrPollEvent.
LEMMA BeginSteps ==
  ASSUME IInv, NEW t \in Threads, NEW k \in Handles, churned' \in BOOLEAN,
         BeginCreate(t, k) \/ BeginDestroy(t, k) \/ BeginPoll(t)
  PROVE  IInv'
<1> USE DEF SharedUnchanged
<1>1. CASE BeginCreate(t, k)
  <2>1. k \in app /\ Usable(k) /\ k \in {Instance} \cup Sessions
    BY <1>1, Kinds DEF BeginCreate, Usable
  <2>2. handleStates[k] # Null
    BY <2>1, UsableTracked
  <2>3. /\ SharedUnchanged /\ pc[t] = "idle" /\ Goto(t, "create")
        /\ arg' = [arg EXCEPT ![t] = k] /\ UNCHANGED <<mutex, new, ptr, doomed, faults>>
    BY <1>1, <2>2 DEF BeginCreate
  <2> QED
    BY <2>1, <2>3, BeginStep
<1>2. CASE BeginDestroy(t, k)
  <2>1. k \in app /\ Usable(k) /\ Quiet(k)
    BY <1>2 DEF BeginDestroy, Usable
  <2>2. handleStates[k] # Null
    BY <2>1, UsableTracked
  <2>3. /\ SharedUnchanged /\ pc[t] = "idle" /\ Goto(t, "destroy")
        /\ arg' = [arg EXCEPT ![t] = k] /\ UNCHANGED <<mutex, new, ptr, doomed, faults>>
    BY <1>2, <2>2 DEF BeginDestroy
  <2> QED
    BY <2>1, <2>3, BeginStep
<1>3. CASE BeginPoll(t)
  <2>1. Instance \in app /\ Usable(Instance)
    BY <1>3 DEF BeginPoll, Usable
  <2>2. handleStates[Instance] # Null
    BY <2>1, UsableTracked
  <2>3. /\ SharedUnchanged /\ pc[t] = "idle" /\ Goto(t, "poll")
        /\ arg' = [arg EXCEPT ![t] = Instance] /\ UNCHANGED <<mutex, new, ptr, doomed, faults>>
    BY <1>3, <2>2 DEF BeginPoll
  <2> QED
    BY <2>1, <2>3, BeginStep
<1> QED
  BY <1>1, <1>2, <1>3

\* Calls that end without having changed what the layer tracks.
LEMMA EndSteps ==
  ASSUME IInv, NEW t \in Threads, churned' \in BOOLEAN,
         RuntimeCreateFails(t) \/ RuntimeDestroyFails(t) \/ PollUnavailable(t) \/ CheckEventPayload(t)
  PROVE  IInv'
<1> USE DEF SharedUnchanged
<1>1. faults \subseteq Faults /\ FaultInv /\ SharedUnchanged
  BY DEF IInv, TypeOK, RuntimeCreateFails, RuntimeDestroyFails, PollUnavailable, CheckEventPayload
<1>2. CASE RuntimeCreateFails(t) \/ RuntimeDestroyFails(t)
  BY <1>1, <1>2, ReturnStep DEF RuntimeCreateFails, RuntimeDestroyFails, FaultInv
<1>3. CASE PollUnavailable(t)
  <2>1. CASE Fail(t, "nullDeref")
    BY <1>1, <1>3, <2>1, FailStep DEF PollUnavailable
  <2>2. CASE Return(t) /\ UNCHANGED <<mutex, faults>>
    BY <1>1, <1>3, <2>2, ReturnStep DEF PollUnavailable, FaultInv
  <2> QED
    BY <1>3, <2>1, <2>2 DEF PollUnavailable
<1>4. CASE CheckEventPayload(t)
  <2>1. CASE Fail(t, "nullDeref") \/ Fail(t, "useAfterFree")
    BY <1>1, <1>4, <2>1, FailStep DEF CheckEventPayload
  <2>2. CASE Return(t) /\ UNCHANGED <<mutex, faults>>
    BY <1>1, <1>4, <2>2, ReturnStep DEF CheckEventPayload, FaultInv
  <2> QED
    BY <1>4, <2>1, <2>2 DEF CheckEventPayload
<1> QED
  BY <1>2, <1>3, <1>4

\* The second look-up of the parent finds it: nobody may destroy it meanwhile.
LEMMA FindParentStep ==
  ASSUME IInv, NEW t \in Threads, churned' \in BOOLEAN, FindParent(t)
  PROVE  IInv'
<1>1. CallOK(t) /\ Making(t) /\ pc[t] = "findParent"
  BY DEF IInv, CallInv, FindParent, Making
<1>2. arg[t] \in app
  BY <1>1 DEF CallOK
<1>3. handleStates[arg[t]] # Null
  BY <1>2, UsableTracked
<1>4. /\ ptr' = [ptr EXCEPT ![t] = handleStates[arg[t]]] /\ Goto(t, "clone")
      /\ UNCHANGED <<mutex, arg, new, doomed, faults>> /\ SharedUnchanged
  BY <1>3 DEF FindParent, GetHandleState, SharedUnchanged
<1>5. /\ OnlyCall(t) /\ pc'[t] = "clone" /\ ptr'[t] = handleStates[arg[t]]
  BY <1>2, <1>4, Names, UsableTracked DEF Goto, OnlyCall, IInv, TypeOK
<1>6. (Fresh(t))' /\ Fresh(t) /\ pc'[t] # "register"
  BY <1>1, <1>5 DEF Fresh
<1>7. CallOK(t)' /\ DoomOK(t)'
  BY <1>1, <1>4, <1>5 DEF CallOK, DoomOK, Making, Fresh, Dooming, Polling, SharedUnchanged, runtimeVars
<1>8. ASSUME NEW u \in Threads \ {t} PROVE Apart(t, u)' /\ Apart(u, t)'
  <2>1. Apart(t, u) /\ Apart(u, t)
    BY DEF IInv, Isolation
  <2> QED
    BY <1>1, <1>4, <1>5, <2>1 DEF Apart, Making, Destroying, Within, OnlyCall, SharedUnchanged, runtimeVars
<1>9. mutex' \in Threads \cup {Null} /\ faults' \subseteq Faults /\ FaultInv'
  BY <1>4 DEF IInv, TypeOK, FaultInv
<1> QED
  BY <1>1, <1>4, <1>5, <1>6, <1>7, <1>8, <1>9, LocalStep

\* xrPollEvent on a session event.
LEMMA EventSteps ==
  ASSUME IInv, NEW t \in Threads, churned' \in BOOLEAN,
         FindEventSession(t) \/ \E s \in Sessions : PollSessionEvent(t, s)
  PROVE  IInv'
<1> USE DEF SharedUnchanged
<1>1. SharedUnchanged /\ CallOK(t) /\ pc[t] \in {"poll", "event"}
  BY DEF IInv, CallInv, FindEventSession, PollSessionEvent
<1>2. CASE FindEventSession(t) /\ Fail(t, "untrackedEvent")
  BY <1>1, <1>2, FailStep
<1>3. CASE ~Fail(t, "untrackedEvent") \/ ~FindEventSession(t)
  <2>1. /\ UNCHANGED <<mutex, arg, doomed, faults>>
        /\ \/ /\ \E s \in Sessions : new' = [new EXCEPT ![t] = s]
              /\ Goto(t, "event") /\ UNCHANGED ptr
           \/ /\ ptr' = [ptr EXCEPT ![t] = handleStates[new[t]]]
              /\ handleStates[new[t]] # Null
              /\ Goto(t, "payload") /\ UNCHANGED new /\ pc[t] = "event"
    BY <1>3 DEF FindEventSession, PollSessionEvent
  <2>2. pc[t] = "event" => new[t] \in Sessions /\ new[t] \in Handles
    BY <1>1, Kinds DEF CallOK
  <2>3. /\ OnlyCall(t) /\ pc'[t] \in {"event", "payload"} /\ new'[t] \in Sessions
        /\ (pc'[t] = "payload" => ptr'[t] \in Objects)
    BY <2>1, <2>2, Names, Kinds DEF Goto, OnlyCall, IInv, TypeOK
  <2>4. ~(Fresh(t))' /\ ~Fresh(t) /\ pc'[t] # "register" /\ pc[t] # "register"
    BY <1>1, <2>3 DEF Fresh
  <2>5. CallOK(t)' /\ DoomOK(t)'
    BY <1>1, <2>1, <2>3 DEF CallOK, DoomOK, Making, Fresh, Dooming, Polling, runtimeVars
  <2>6. ASSUME NEW u \in Threads \ {t} PROVE Apart(t, u)' /\ Apart(u, t)'
    <3>1. Apart(t, u) /\ Apart(u, t)
      BY DEF IInv, Isolation
    <3> QED
      BY <1>1, <2>1, <2>3, <3>1 DEF Apart, Making, Destroying, Within, OnlyCall, runtimeVars
  <2>7. mutex' \in Threads \cup {Null} /\ faults' \subseteq Faults /\ FaultInv'
    BY <2>1 DEF IInv, TypeOK, FaultInv
  <2> QED
    BY <1>1, <2>1, <2>3, <2>4, <2>5, <2>6, <2>7, LocalStep
<1> QED
  BY <1>2, <1>3

\* The descent of the recursive unregistration: the child it goes to is in the map
\* and was destroyed by this call.
LEMMA UnregisterSteps ==
  ASSUME IInv, NEW t \in Threads, churned' \in BOOLEAN,
         UnregisterHandleState(t) \/ \E c \in Objects : UnregisterChild(t, c)
  PROVE  IInv'
<1> USE DEF SharedUnchanged
<1>1. SharedUnchanged /\ CallOK(t) /\ Dooming(t) /\ pc[t] \in {"unregister", "recurse"}
  BY DEF IInv, CallInv, UnregisterHandleState, UnregisterChild, Dooming
<1> DEFINE Descends ==
      /\ pc' = [pc EXCEPT ![t] = "recurse"] /\ mutex' = t /\ mutex \in {Null, t}
      /\ ptr' = [ptr EXCEPT ![t] = ptr'[t]] /\ ptr'[t] \in heap
      /\ stateKey[ptr'[t]] \in doomed[t] /\ handleStates[stateKey[ptr'[t]]] = ptr'[t]
      /\ UNCHANGED <<arg, new, doomed, faults>>
<1>2. Descends
  <2>1. CASE UnregisterHandleState(t)
    <3>1. arg[t] \in doomed[t] /\ arg[t] \in Handles
      BY <1>1 DEF CallOK, IInv, TypeOK
    <3>2. handleStates[arg[t]] # Null
      BY <2>1, <3>1 DEF UnregisterHandleState, IInv, DoomInv, DoomOK
    <3>3. handleStates[arg[t]] \in heap /\ stateKey[handleStates[arg[t]]] = arg[t]
      BY <3>1, <3>2 DEF IInv, Tracking, RegistryWellFormed
    <3> QED
      BY <2>1, <3>1, <3>2, <3>3 DEF UnregisterHandleState, Goto, IInv, TypeOK
  <2>2. ASSUME NEW c \in Objects, UnregisterChild(t, c)
        PROVE  Descends
    <3>1. pc[t] = "recurse" /\ ptr[t] \in heap /\ mutex = t /\ c \in children[ptr[t]]
      BY <1>1, <2>2 DEF UnregisterChild, CallOK
    <3>2. c \in heap /\ stateParent[c] = ptr[t]
      BY <3>1 DEF IInv, Tracking, RegistryWellFormed
    <3>3. stateKey[c] \in doomed[t] /\ handleStates[stateKey[c]] = c /\ c # Null /\ stateKey[c] # Null
      BY <3>1, <3>2, ChildOfDoomed, Kinds DEF IInv, TypeOK
    <3> QED
      BY <2>2, <3>1, <3>2, <3>3 DEF UnregisterChild, IInv, TypeOK
  <2> QED
    BY <2>1, <2>2
<1>3. OnlyCall(t) /\ pc'[t] = "recurse"
  BY <1>2, Names DEF OnlyCall, IInv, TypeOK
<1>4. ~(Fresh(t))' /\ ~Fresh(t) /\ pc'[t] # "register" /\ pc[t] # "register"
  BY <1>1, <1>3 DEF Fresh
<1>5. CallOK(t)'
  BY <1>1, <1>2, <1>3 DEF CallOK, Making, Fresh, Dooming, Polling, objectVars
<1>6. DoomOK(t)'
  BY <1>1, <1>2, <1>3 DEF DoomOK, Within, runtimeVars, IInv, DoomInv
<1>7. ASSUME NEW u \in Threads \ {t} PROVE Apart(t, u)' /\ Apart(u, t)'
  <2>1. Apart(t, u) /\ Apart(u, t)
    BY DEF IInv, Isolation
  <2> QED
    BY <1>1, <1>2, <1>3, <2>1 DEF Apart, Making, Destroying, Within, OnlyCall, runtimeVars
<1>8. mutex' \in Threads \cup {Null} /\ (mutex' # mutex => mutex \in {t, Null})
  BY <1>2
<1>9. faults' \subseteq Faults /\ FaultInv'
  BY <1>2 DEF IInv, TypeOK, FaultInv
<1> QED
  BY <1>1, <1>2, <1>3, <1>4, <1>5, <1>6, <1>7, <1>8, <1>9, LocalStep

\* The key of an object is a handle that is alive or being destroyed, and its
\* parent, if it has one, is allocated.
LEMMA KeyOfObject ==
  ASSUME IInv, NEW o \in heap
  PROVE  /\ stateKey[o] \in Handles /\ Known(stateKey[o])
         /\ stateKey[o] # Instance => owner[stateKey[o]] \in Handles
         /\ stateParent[o] # Null => stateParent[o] \in heap
<1> DEFINE k == stateKey[o]
<1>1. k \in Handles
  BY DEF IInv, Tracking, HeapInv
<1>2. ASSUME NEW u \in Threads, pc[u] = "register", ptr[u] = o
      PROVE  k \in runtime
  <2>1. CallOK(u) /\ Making(u)
    BY <1>2 DEF IInv, CallInv, Making
  <2> QED
    BY <1>2, <2>1 DEF CallOK
<1>3. Known(k)
  BY <1>1, <1>2, Kinds DEF IInv, Tracking, HeapInv, MapInv, Known, TypeOK
<1>4. k # Instance => owner[k] \in Handles
  BY <1>1, <1>3, Kinds DEF IInv, Tracking, OwnerInv
<1>5. stateParent[o] # Null => stateParent[o] \in heap
  BY <1>1, <1>4 DEF IInv, Tracking, HeapInv, RegistryWellFormed
<1> QED
  BY <1>1, <1>3, <1>4, <1>5

\* Without an instance and without calls the layer tracks nothing.
LEMMA NothingIsTracked ==
  ASSUME IInv, Instance \notin runtime, \A u \in Threads : pc[u] = "idle"
  PROVE  /\ runtime = {} /\ app = {} /\ heap = {}
         /\ \A k \in Handles : handleStates[k] = Null
         /\ \A u \in Threads : doomed[u] = {}
<1>1. ASSUME NEW k \in runtime PROVE FALSE
  <2>1. k \in Handles /\ Known(k) /\ k # Instance /\ owner[k] \in runtime
    BY DEF IInv, TypeOK, Known, Tracking, OwnerInv
  <2>2. owner[k] \in Handles /\ Known(owner[k]) /\ owner[k] # Instance
    BY <2>1 DEF IInv, TypeOK, Known
  <2>3. owner[k] \in Sessions
    BY <2>1, <2>2, Kinds DEF IInv, Tracking, OwnerInv
  <2>4. owner[owner[k]] = Instance /\ owner[owner[k]] \in runtime
    BY <2>1, <2>2, <2>3 DEF IInv, Tracking, OwnerInv
  <2> QED
    BY <2>4
<1>2. \A u \in Threads : doomed[u] = {}
  BY DEF IInv, CallInv, CallOK, Dooming
<1>3. \A k : ~Known(k)
  BY <1>1, <1>2 DEF Known
<1>4. \A k \in Handles : handleStates[k] = Null
  BY <1>3 DEF IInv, Tracking, MapInv
<1>5. heap = {}
  BY <1>3, KeyOfObject
<1> QED
  BY <1>1, <1>2, <1>4, <1>5 DEF IInv, Tracking, OwnerInv

\* ConformanceLayer_RegisterInstance starts on an empty registry.
LEMMA CreateInstanceStep ==
  ASSUME IInv, NEW t \in Threads, NEW o \in Objects, churned' \in BOOLEAN, CreateInstance(t, o)
  PROVE  IInv'
<1>1. /\ runtime = {} /\ app = {} /\ heap = {}
      /\ \A k \in Handles : handleStates[k] = Null
      /\ \A u \in Threads : doomed[u] = {}
  BY NothingIsTracked DEF CreateInstance
<1>2. TypeOK'
  BY Names, Kinds DEF IInv, TypeOK, CreateInstance, Allocate, Goto
<1>3. /\ pc'[t] = "register" /\ arg'[t] = Instance /\ new'[t] = Instance /\ ptr'[t] = o
      /\ \A u \in Threads \ {t} : pc'[u] = "idle"
      /\ stateKey'[o] = Instance /\ stateParent'[o] = Null /\ children'[o] = {}
      /\ runtime' = {Instance} /\ heap' = {o}
      /\ UNCHANGED <<owner, app, handleStates, mutex, doomed, faults>>
  BY <1>1 DEF IInv, TypeOK, CreateInstance, Allocate, Goto
<1>4. CallInv'
  <2>1. CallOK(t)'
    BY <1>1, <1>3, Kinds DEF CallOK, Making, Fresh, Dooming, Polling
  <2>2. ASSUME NEW u \in Threads \ {t} PROVE CallOK(u)'
    BY <1>1, <1>3 DEF CallOK, Making, Fresh, Dooming, Polling
  <2> QED
    BY <2>1, <2>2 DEF CallInv
<1>5. Isolation'
  BY <1>3 DEF Isolation, Apart, Making, Destroying
<1>6. DoomInv'
  BY <1>1, <1>3 DEF DoomInv, DoomOK
<1>7. OwnerInv'
  BY <1>1, <1>3, Kinds DEF OwnerInv, Known
<1>8. MapInv'
  BY <1>1, <1>3 DEF MapInv, Fresh
<1>9. HeapInv'
  BY <1>3, Kinds DEF HeapInv
<1>10. RegistryWellFormed'
  BY <1>1, <1>3, Kinds DEF RegistryWellFormed
<1>11. CustomInv' /\ FaultInv'
  BY <1>1, <1>3 DEF CustomInv, FaultInv, IInv
<1> QED
  BY <1>2, <1>4, <1>5, <1>6, <1>7, <1>8, <1>9, <1>10, <1>11 DEF IInv, Tracking

\* The runtime's new handle is in nobody's hands: not in the map, not destroyed by a
\* call in progress, not the handle of another creating call.
LEMMA RuntimeCreateStep ==
  ASSUME IInv, NEW t \in Threads, NEW k \in Handles, churned' \in BOOLEAN, RuntimeCreate(t, k),
         ~EagerReuse
  PROVE  IInv'
<1>1. /\ arg[t] \in app /\ arg[t] \in {Instance} \cup Sessions /\ arg[t] \in runtime
      /\ arg[t] \in Handles /\ doomed[t] = {} /\ pc[t] = "create"
  BY DEF RuntimeCreate, IInv, CallInv, CallOK, Dooming, Tracking, OwnerInv, TypeOK
<1>2. /\ k \notin runtime /\ \A u \in Threads : k \notin doomed[u]
      /\ k \in Sessions <=> arg[t] = Instance
      /\ k \in Leaves <=> arg[t] \in Sessions
      /\ k # Instance
  BY <1>1, Kinds DEF RuntimeCreate
<1>3. ~Known(k) /\ handleStates[k] = Null /\ k \notin app
  BY <1>2 DEF Known, IInv, Tracking, MapInv, OwnerInv
<1>4. TypeOK'
  BY <1>1, Names DEF IInv, TypeOK, RuntimeCreate, Goto, objectVars
<1>5. /\ pc'[t] = "findParent" /\ new'[t] = k
      /\ \A u \in Threads \ {t} : pc'[u] = pc[u] /\ new'[u] = new[u]
      /\ runtime' = runtime \cup {k}
      /\ owner'[k] = arg[t] /\ \A j \in Handles \ {k} : owner'[j] = owner[j]
      /\ UNCHANGED <<app, handleStates, mutex, heap, stateKey, stateParent, children, customState,
                     arg, ptr, doomed, faults>>
  BY DEF IInv, TypeOK, RuntimeCreate, Goto, objectVars
<1>6. ASSUME NEW u \in Threads, Making(u) PROVE new[u] # k /\ new[u] \in Handles /\ new[u] \in runtime
  BY <1>2, <1>6 DEF IInv, CallInv, CallOK, TypeOK
<1>7. CallInv'
  <2>1. CallOK(t)'
    BY <1>1, <1>2, <1>3, <1>5 DEF CallOK, Making, Fresh, Dooming, Polling
  <2>2. ASSUME NEW u \in Threads \ {t} PROVE CallOK(u)'
    BY <1>5, <1>6 DEF IInv, CallInv, CallOK, Making, Fresh, Dooming, Polling
  <2> QED
    BY <2>1, <2>2 DEF CallInv
<1>8. ASSUME NEW u \in Threads, pc[u] # "idle" PROVE arg[u] = k => k \notin Leaves
  <2>1. CallOK(u) /\ pc[u] \in Steps /\ arg[u] \in Handles \cup {Null}
    BY DEF IInv, CallInv, TypeOK
  <2>2. CASE pc[u] = "create" \/ Making(u)
    BY <2>1, <2>2, Kinds DEF CallOK
  <2>3. CASE pc[u] = "destroy"
    BY <2>1, <2>3, <1>3 DEF CallOK
  <2>4. CASE Dooming(u)
    BY <2>1, <2>4, <1>2 DEF CallOK
  <2>5. CASE Polling(u)
    BY <2>1, <2>5, <1>2 DEF CallOK
  <2> QED
    BY <1>8, <2>1, <2>2, <2>3, <2>4, <2>5 DEF Steps, Making, Dooming, Polling
<1>9. Isolation'
  <2> SUFFICES ASSUME NEW u \in Threads, NEW v \in Threads, u # v PROVE Apart(u, v)'
    BY DEF Isolation
  <2>1. Apart(u, v) /\ arg[u] \in Handles \cup {Null}
    BY DEF IInv, Isolation, TypeOK
  <2>2. pc'[u] # "idle" /\ (Destroying(v))' => pc[u] # "idle" /\ Destroying(v)
    BY <1>1, <1>5 DEF Destroying
  <2>3. pc[u] # "idle" => (Within(arg[u], arg[v])' <=> Within(arg[u], arg[v]))
    BY <1>5, <1>8, Kinds, <2>1 DEF Within
  <2>4. (Making(u))' /\ (Making(v))' => new'[u] # new'[v]
    BY <1>5, <1>6, <2>1 DEF Making, Apart
  <2> QED
    BY <2>1, <2>2, <2>3, <2>4 DEF Apart
<1>10. DoomInv'
  BY <1>2, <1>5, <1>1 DEF IInv, DoomInv, DoomOK, Within, TypeOK
<1>11. \A j : Known(j)' => Known(j) \/ j = k
  BY <1>5 DEF Known
<1>12. OwnerInv'
  BY <1>1, <1>2, <1>3, <1>5, <1>11 DEF IInv, Tracking, OwnerInv, TypeOK
<1>13. MapInv'
  <2>1. (Fresh(t))'
    BY <1>5 DEF Fresh
  <2>2. \A u \in Threads : Fresh(u) => (Fresh(u))' /\ u # t
    BY <1>1, <1>5 DEF Fresh
  <2>3. \A j : Known(j) => Known(j)'
    BY <1>5 DEF Known
  <2> QED
    BY <1>5, <2>1, <2>2, <2>3 DEF IInv, Tracking, MapInv
<1>14. HeapInv'
  <2>1. ASSUME NEW o \in heap PROVE stateKey[o] # k /\ stateKey[o] \in Handles
    BY <1>3, KeyOfObject
  <2>2. \A u \in Threads : pc[u] = "register" => pc'[u] = "register"
    BY <1>1, <1>5
  <2> QED
    BY <1>5, <2>1, <2>2 DEF IInv, Tracking, HeapInv
<1>15. RegistryWellFormed' /\ CustomInv' /\ FaultInv'
  BY <1>5 DEF IInv, Tracking, RegistryWellFormed, CustomInv, FaultInv
<1> QED
  BY <1>4, <1>7, <1>9, <1>10, <1>12, <1>13, <1>14, <1>15 DEF IInv, Tracking

\* The child is added under its parent before its handle is in the map.
LEMMA CloneForChildStep ==
  ASSUME IInv, NEW t \in Threads, NEW o \in Objects, churned' \in BOOLEAN, CloneForChild(t, o)
  PROVE  IInv'
<1> DEFINE k == new[t]
           p == ptr[t]
<1>1. /\ pc[t] = "clone" /\ Making(t) /\ CallOK(t) /\ o \notin heap /\ o # Null
  BY Kinds DEF CloneForChild, Making, IInv, CallInv, Allocate
<1>2. /\ k \in runtime /\ k \notin app /\ k \in Handles /\ k # Instance /\ owner[k] = arg[t] /\ arg[t] \in app
      /\ handleStates[k] = Null /\ p = handleStates[arg[t]] /\ doomed[t] = {}
  BY <1>1 DEF CallOK, Fresh, Dooming, IInv, TypeOK
<1>3. p \in heap /\ p # Null /\ p # o
  BY <1>1, <1>2, UsableTracked DEF IInv, Tracking, RegistryWellFormed
<1>4. TypeOK'
  BY <1>3, Names, Kinds DEF IInv, TypeOK, CloneForChild, Allocate, AddChild, Goto, runtimeVars
<1>5. /\ pc'[t] = "register" /\ ptr'[t] = o /\ heap' = heap \cup {o}
      /\ \A u \in Threads \ {t} : pc'[u] = pc[u] /\ ptr'[u] = ptr[u]
      /\ stateKey'[o] = k /\ stateParent'[o] = p
      /\ children'[p] = children[p] \cup {o} /\ children'[o] = {}
      /\ \A q \in heap : stateKey'[q] = stateKey[q] /\ stateParent'[q] = stateParent[q]
                         /\ customState'[q] = customState[q]
      /\ \A q \in heap \ {p} : children'[q] = children[q]
      /\ UNCHANGED <<runtime, owner, app, handleStates, mutex, arg, new, doomed, faults>>
  BY <1>1, <1>3 DEF IInv, TypeOK, CloneForChild, Allocate, AddChild, Goto, runtimeVars
<1>6. \A j \in Handles : handleStates[j] # Null => handleStates[j] \in heap
  BY DEF IInv, Tracking, RegistryWellFormed
<1>7. CallInv'
  <2>1. CallOK(t)'
    BY <1>1, <1>2, <1>5 DEF CallOK, Making, Fresh, Dooming, Polling
  <2>2. ASSUME NEW u \in Threads \ {t} PROVE CallOK(u)'
    <3>1. CallOK(u)
      BY DEF IInv, CallInv
    <3> QED
      BY <1>5, <3>1 DEF CallOK, Making, Fresh, Dooming, Polling
  <2> QED
    BY <2>1, <2>2 DEF CallInv
<1>8. Isolation'
  <2> SUFFICES ASSUME NEW u \in Threads, NEW v \in Threads, u # v PROVE Apart(u, v)'
    BY DEF Isolation
  <2>1. Apart(u, v)
    BY DEF IInv, Isolation
  <2> QED
    BY <1>1, <1>5, <2>1 DEF Apart, Making, Destroying, Within
<1>9. DoomInv'
  BY <1>2, <1>5 DEF IInv, DoomInv, DoomOK, Within
<1>10. OwnerInv' /\ \A j : Known(j)' <=> Known(j)
  BY <1>5 DEF IInv, Tracking, OwnerInv, Known
<1>11. MapInv'
  <2>1. \A u \in Threads : Fresh(u) => (Fresh(u))'
    BY <1>5 DEF Fresh
  <2> QED
    BY <1>5, <1>10, <2>1 DEF IInv, Tracking, MapInv
<1>12. HeapInv'
  <2>1. \A u \in Threads : pc[u] = "register" => pc'[u] = "register" /\ ptr'[u] = ptr[u]
    BY <1>1, <1>5
  <2>2. ASSUME NEW q \in heap
        PROVE /\ stateKey'[q] \in Handles
              /\ handleStates'[stateKey'[q]] = q \/ \E u \in Threads : pc'[u] = "register" /\ ptr'[u] = q
              /\ stateKey'[q] = Instance => stateParent'[q] = Null
              /\ stateKey'[q] # Instance =>
                   stateParent'[q] # Null /\ stateParent'[q] = handleStates'[owner'[stateKey'[q]]]
    BY <1>5, <2>1 DEF IInv, Tracking, HeapInv
  <2> QED
    BY <1>2, <1>3, <1>5, <2>2 DEF HeapInv
<1>13. RegistryWellFormed'
  <2>1. \A c \in heap : stateParent[c] # o
    BY <1>1, KeyOfObject
  <2> QED
    BY <1>1, <1>3, <1>5, <1>6, <2>1 DEF IInv, Tracking, RegistryWellFormed
<1>14. CustomInv' /\ FaultInv'
  <2>1. \A j \in app : handleStates[j] \in heap
    BY <1>6, UsableTracked
  <2> QED
    BY <1>5, <2>1 DEF IInv, Tracking, CustomInv, FaultInv
<1> QED
  BY <1>4, <1>7, <1>8, <1>9, <1>10, <1>11, <1>12, <1>13, <1>14 DEF IInv, Tracking

\* Registration meets no older entry and completes the pair of handle and object.
LEMMA RegisterHandleStateStep ==
  ASSUME IInv, NEW t \in Threads, churned' \in BOOLEAN, RegisterHandleState(t)
  PROVE  IInv'
<1> DEFINE k == new[t]
           o == ptr[t]
<1>1. pc[t] = "register" /\ Making(t) /\ Fresh(t) /\ CallOK(t)
  BY DEF RegisterHandleState, Making, Fresh, IInv, CallInv
<1>2. /\ k \in runtime /\ k \notin app /\ k \in Handles /\ handleStates[k] = Null
      /\ o \in heap /\ stateKey[o] = k /\ o # Null /\ doomed[t] = {}
  BY <1>1, Kinds DEF CallOK, IInv, TypeOK, Dooming
<1>3. /\ handleStates' = [handleStates EXCEPT ![k] = o]
      /\ \/ k = Instance /\ Return(t) /\ app' = app \cup {Instance}
         \/ k # Instance /\ Goto(t, "custom") /\ UNCHANGED <<callVars, app>>
      /\ UNCHANGED <<runtime, owner, children, mutex, heap, stateKey, stateParent, customState, faults>>
  BY <1>2 DEF RegisterHandleState
<1>4. TypeOK'
  BY <1>2, <1>3, Names, Kinds DEF IInv, TypeOK, Return, Goto, callVars
<1>5. /\ handleStates'[k] = o /\ \A j \in Handles \ {k} : handleStates'[j] = handleStates[j]
      /\ \A u \in Threads \ {t} : pc'[u] = pc[u] /\ arg'[u] = arg[u] /\ new'[u] = new[u]
                                  /\ ptr'[u] = ptr[u] /\ doomed'[u] = doomed[u]
      /\ doomed'[t] = {}
      /\ app' \subseteq app \cup {k} /\ app \subseteq app'
      /\ \/ pc'[t] = "idle"
         \/ pc'[t] = "custom" /\ arg'[t] = arg[t] /\ new'[t] = k /\ k # Instance /\ app' = app
  BY <1>2, <1>3 DEF IInv, TypeOK, Return, Goto, callVars
<1>6. ASSUME NEW u \in Threads \ {t} PROVE Making(u) => new[u] # k
  BY <1>1 DEF IInv, Isolation, Apart
<1>7. CallInv'
  <2>1. CallOK(t)'
    BY <1>1, <1>2, <1>3, <1>5 DEF CallOK, Making, Fresh, Dooming, Polling
  <2>2. ASSUME NEW u \in Threads \ {t} PROVE CallOK(u)'
    <3>1. CallOK(u) /\ new[u] \in Handles \cup {Null} /\ ptr[u] \in Objects \cup {Null}
      BY DEF IInv, CallInv, TypeOK
    <3>2. \A j \in doomed[u] : j # k /\ j \in Handles
      BY <1>2 DEF IInv, DoomInv, DoomOK, TypeOK
    <3>3. pc[u] = "clone" => arg[u] \in Handles \ {k}
      BY <1>2, <3>1, UsableTracked DEF CallOK, Making
    <3>4. Making(u) => new[u] \in Handles \ {k}
      BY <1>6, <3>1 DEF CallOK, IInv, TypeOK
    <3> QED
      BY <1>3, <1>5, <3>1, <3>2, <3>3, <3>4 DEF CallOK, Making, Fresh, Dooming, Polling
  <2> QED
    BY <2>1, <2>2 DEF CallInv
<1>8. Isolation'
  <2> SUFFICES ASSUME NEW u \in Threads, NEW v \in Threads, u # v PROVE Apart(u, v)'
    BY DEF Isolation
  <2>1. Apart(u, v)
    BY DEF IInv, Isolation
  <2>2. \A w \in Threads : (Making(w))' => Making(w) /\ new'[w] = new[w]
    BY <1>1, <1>5 DEF Making
  <2>3. \A w \in Threads : (Destroying(w))' => Destroying(w) /\ arg'[w] = arg[w]
    BY <1>1, <1>5 DEF Destroying
  <2>4. \A w \in Threads : pc'[w] # "idle" => pc[w] # "idle" /\ arg'[w] = arg[w]
    BY <1>1, <1>5
  <2> QED
    BY <1>3, <2>1, <2>2, <2>3, <2>4 DEF Apart, Within
<1>9. DoomInv'
  <2> SUFFICES ASSUME NEW u \in Threads \ {t} PROVE DoomOK(u)'
    BY <1>5 DEF DoomInv, DoomOK
  <2>1. \A j \in doomed[u] : j # k /\ j \in Handles
    BY <1>2 DEF IInv, DoomInv, DoomOK, TypeOK
  <2>2. DoomOK(u)
    BY DEF IInv, DoomInv
  <2> QED
    BY <1>3, <1>5, <2>1, <2>2 DEF DoomOK, Within
<1>10. \A j : Known(j)' <=> Known(j)
  BY <1>2, <1>3, <1>5 DEF Known
<1>11. OwnerInv'
  BY <1>2, <1>3, <1>5, <1>10 DEF IInv, Tracking, OwnerInv
<1>12. MapInv'
  <2> SUFFICES ASSUME NEW j \in Handles
               PROVE /\ handleStates'[j] # Null => Known(j)'
                     /\ j \in runtime' /\ handleStates'[j] = Null =>
                           \E u \in Threads : (Fresh(u))' /\ new'[u] = j
    BY DEF MapInv
  <2>1. CASE j = k
    BY <1>2, <1>5, <1>10, <2>1 DEF Known
  <2>2. CASE j # k
    <3>1. ASSUME NEW u \in Threads, Fresh(u), new[u] = j PROVE (Fresh(u))' /\ new'[u] = j
      BY <1>5, <2>2, <3>1 DEF Fresh
    <3> QED
      BY <1>3, <1>5, <1>10, <2>2, <3>1 DEF IInv, Tracking, MapInv
  <2> QED
    BY <2>1, <2>2
<1>13. HeapInv'
  <2> SUFFICES ASSUME NEW q \in heap
        PROVE /\ stateKey[q] \in Handles
              /\ handleStates'[stateKey[q]] = q \/ \E u \in Threads : pc'[u] = "register" /\ ptr'[u] = q
              /\ stateKey[q] = Instance => stateParent[q] = Null
              /\ stateKey[q] # Instance =>
                   stateParent[q] # Null /\ stateParent[q] = handleStates'[owner[stateKey[q]]]
    BY <1>3 DEF HeapInv
  <2>1. /\ stateKey[q] \in Handles /\ (stateKey[q] # Instance => owner[stateKey[q]] \in Handles)
        /\ q # Null
    BY KeyOfObject, Kinds DEF IInv, TypeOK
  <2>2. /\ stateKey[q] = Instance => stateParent[q] = Null
        /\ stateKey[q] # Instance =>
                   stateParent[q] # Null /\ stateParent[q] = handleStates[owner[stateKey[q]]]
    BY DEF IInv, Tracking, HeapInv
  <2> DEFINE Placed == handleStates'[stateKey[q]] = q \/ \E u \in Threads : pc'[u] = "register" /\ ptr'[u] = q
  <2>3. Placed
    <3>1. CASE handleStates[stateKey[q]] = q
      BY <1>2, <1>5, <2>1, <3>1
    <3>2. ASSUME NEW u \in Threads, pc[u] = "register", ptr[u] = q
          PROVE Placed
      BY <1>2, <1>5, <3>2
    <3> QED
      BY <3>1, <3>2 DEF IInv, Tracking, HeapInv
  <2> QED
    BY <1>2, <1>5, <2>1, <2>2, <2>3
<1>14. RegistryWellFormed'
  BY <1>2, <1>3, <1>5 DEF IInv, Tracking, RegistryWellFormed
<1>15. CustomInv'
  <2>1. \A j \in app' : j # Instance => j \in app /\ j # k /\ j \in Handles
    BY <1>2, <1>3, UsableTracked
  <2> QED
    BY <1>3, <1>5, <2>1 DEF IInv, Tracking, CustomInv
<1>16. FaultInv'
  BY <1>3 DEF IInv, FaultInv
<1> QED
  BY <1>4, <1>7, <1>8, <1>9, <1>11, <1>12, <1>13, <1>14, <1>15, <1>16 DEF IInv, Tracking

\* The creating call returns a handle whose object is complete.
LEMMA SetCustomStateStep ==
  ASSUME IInv, NEW t \in Threads, churned' \in BOOLEAN, SetCustomState(t)
  PROVE  IInv'
<1> DEFINE k == new[t]
           o == handleStates[k]
<1>1. pc[t] = "custom" /\ Making(t) /\ CallOK(t) /\ ~Fresh(t)
  BY DEF SetCustomState, Making, Fresh, IInv, CallInv
<1>2. /\ k \in runtime /\ k \notin app /\ k \in Handles /\ o # Null /\ o \in Objects /\ doomed[t] = {}
  BY <1>1, Kinds DEF CallOK, IInv, TypeOK, Dooming
<1>3. /\ customState' = [customState EXCEPT ![o] = TRUE] /\ app' = app \cup {k} /\ Return(t)
      /\ UNCHANGED <<runtime, owner, handleStates, heap, stateKey, stateParent, children, mutex, faults>>
  BY <1>2 DEF SetCustomState, Tag
<1>4. TypeOK'
  BY <1>2, <1>3, Names, Kinds DEF IInv, TypeOK, Return, Goto
<1>5. /\ \A u \in Threads \ {t} : pc'[u] = pc[u] /\ arg'[u] = arg[u] /\ new'[u] = new[u]
                                  /\ ptr'[u] = ptr[u] /\ doomed'[u] = doomed[u]
      /\ doomed'[t] = {} /\ pc'[t] = "idle"
      /\ customState'[o] = TRUE /\ \A q \in Objects \ {o} : customState'[q] = customState[q]
  BY <1>2, <1>3 DEF IInv, TypeOK, Return, Goto
<1>6. ASSUME NEW u \in Threads \ {t} PROVE Making(u) => new[u] # k
  BY <1>1 DEF IInv, Isolation, Apart
<1>7. CallInv'
  <2>1. CallOK(t)'
    BY <1>5 DEF CallOK, Making, Fresh, Dooming, Polling
  <2>2. ASSUME NEW u \in Threads \ {t} PROVE CallOK(u)'
    BY <1>3, <1>5, <1>6 DEF IInv, CallInv, CallOK, Making, Fresh, Dooming, Polling
  <2> QED
    BY <2>1, <2>2 DEF CallInv
<1>8. Isolation'
  <2> SUFFICES ASSUME NEW u \in Threads, NEW v \in Threads, u # v PROVE Apart(u, v)'
    BY DEF Isolation
  <2>1. Apart(u, v)
    BY DEF IInv, Isolation
  <2> QED
    BY <1>3, <1>5, <2>1 DEF Apart, Making, Destroying, Within
<1>9. DoomInv'
  BY <1>3, <1>5 DEF IInv, DoomInv, DoomOK, Within
<1>10. \A j : Known(j)' <=> Known(j)
  BY <1>2, <1>3, <1>5 DEF Known
<1>11. OwnerInv'
  BY <1>2, <1>3, <1>10 DEF IInv, Tracking, OwnerInv
<1>12. MapInv'
  <2>1. \A u \in Threads : Fresh(u) => (Fresh(u))' /\ new'[u] = new[u]
    BY <1>1, <1>5 DEF Fresh
  <2> QED
    BY <1>3, <1>10, <2>1 DEF IInv, Tracking, MapInv
<1>13. HeapInv'
  <2>1. \A u \in Threads : pc[u] = "register" => pc'[u] = "register" /\ ptr'[u] = ptr[u]
    BY <1>1, <1>5
  <2> QED
    BY <1>3, <2>1 DEF IInv, Tracking, HeapInv
<1>14. RegistryWellFormed' /\ FaultInv'
  BY <1>3 DEF IInv, Tracking, RegistryWellFormed, FaultInv
<1>15. CustomInv'
  <2>1. \A j \in app : handleStates[j] \in Objects
    BY UsableTracked DEF IInv, TypeOK
  <2> QED
    BY <1>3, <1>5, <2>1 DEF IInv, Tracking, CustomInv
<1> QED
  BY <1>4, <1>7, <1>8, <1>9, <1>11, <1>12, <1>13, <1>14, <1>15 DEF IInv, Tracking

\* The runtime destroys a whole subtree, all of which the layer still tracks.
LEMMA RuntimeDestroyStep ==
  ASSUME IInv, NEW t \in Threads, churned' \in BOOLEAN, RuntimeDestroy(t)
  PROVE  IInv'
<1> DEFINE a == arg[t]
           gone == {k \in runtime : Within(k, a)}
<1>1. /\ pc[t] = "destroy" /\ CallOK(t) /\ a \in app /\ a \in runtime /\ a \in Handles /\ doomed[t] = {}
  BY UsableTracked DEF RuntimeDestroy, IInv, CallInv, CallOK, Dooming
<1>2. /\ doomed' = [doomed EXCEPT ![t] = gone] /\ runtime' = runtime \ gone
      /\ \A k : k \in app' <=> k \in app /\ ~Within(k, a)
      /\ pc' = [pc EXCEPT ![t] = "unregister"]
      /\ UNCHANGED <<owner, handleStates, mutex, heap, stateKey, stateParent, children, customState,
                     arg, new, ptr, faults>>
  BY DEF RuntimeDestroy, Goto, objectVars
<1>3. TypeOK'
  BY <1>2, Names DEF IInv, TypeOK
<1>4. /\ pc'[t] = "unregister" /\ doomed'[t] = gone
      /\ \A u \in Threads \ {t} : pc'[u] = pc[u] /\ doomed'[u] = doomed[u]
  BY <1>2 DEF IInv, TypeOK
<1>5. ASSUME NEW u \in Threads \ {t}, pc[u] # "idle" PROVE ~Within(arg[u], a)
  BY <1>1, <1>5 DEF IInv, Isolation, Apart, Destroying
<1>6. ASSUME NEW u \in Threads \ {t}, Making(u) PROVE new[u] \in runtime /\ ~Within(new[u], a)
  <2>1. CallOK(u) /\ ~Within(arg[u], a)
    BY <1>5, <1>6 DEF IInv, CallInv, Making
  <2>2. /\ new[u] \in runtime /\ new[u] \notin app
        /\ new[u] # Instance => owner[new[u]] = arg[u]
    BY <1>6, <2>1 DEF CallOK
  <2> QED
    BY <1>1, <2>1, <2>2, Kinds DEF Within
<1>7. CallInv'
  <2>1. CallOK(t)'
    BY <1>1, <1>2, <1>4 DEF CallOK, Making, Fresh, Dooming, Polling, Within
  <2>2. ASSUME NEW u \in Threads \ {t} PROVE CallOK(u)'
    <3>1. CallOK(u)
      BY DEF IInv, CallInv
    <3>2. pc[u] # "idle" /\ arg[u] \in app => arg[u] \in app'
      BY <1>2, <1>5
    <3>3. Making(u) => new[u] \in runtime' /\ (new[u] \notin app => new[u] \notin app')
      BY <1>2, <1>6
    <3> QED
      BY <1>2, <1>4, <3>1, <3>2, <3>3 DEF CallOK, Making, Fresh, Dooming, Polling
  <2> QED
    BY <2>1, <2>2 DEF CallInv
<1>8. Isolation'
  <2> SUFFICES ASSUME NEW u \in Threads, NEW v \in Threads, u # v PROVE Apart(u, v)'
    BY DEF Isolation
  <2>1. Apart(u, v)
    BY DEF IInv, Isolation
  <2> QED
    BY <1>1, <1>2, <1>4, <2>1 DEF Apart, Making, Destroying, Within
<1>9. \A k \in gone : k # a => k # Instance /\ owner[k] \in gone
  <2> SUFFICES ASSUME NEW k \in gone, k # a PROVE k # Instance /\ owner[k] \in gone
    OBVIOUS
  <2>1. k # Instance
    BY Kinds DEF Within
  <2>2. owner[k] \in runtime
    BY <2>1 DEF IInv, Tracking, OwnerInv
  <2> QED
    BY <2>1, <2>2 DEF Within
<1>10. DoomInv'
  <2> SUFFICES ASSUME NEW u \in Threads PROVE DoomOK(u)'
    BY DEF DoomInv
  <2>1. CASE u # t
    <3>1. DoomOK(u)
      BY DEF IInv, DoomInv
    <3> QED
      BY <1>2, <1>4, <2>1, <3>1 DEF DoomOK, Within
  <2>2. CASE u = t
    <3>1. \A k \in gone : handleStates[k] # Null
      <4> SUFFICES ASSUME NEW k \in gone, handleStates[k] = Null PROVE FALSE
        OBVIOUS
      <4>1. PICK v \in Threads : Fresh(v) /\ new[v] = k
        BY DEF IInv, Tracking, MapInv, TypeOK
      <4> QED
        BY <1>1, <1>6, <4>1 DEF Fresh, Making
    <3> QED
      BY <1>2, <1>4, <1>9, <2>2, <3>1 DEF DoomOK, Within
  <2> QED
    BY <2>1, <2>2
<1>11. \A k : Known(k)' <=> Known(k)
  BY <1>1, <1>2, <1>4 DEF Known
<1>12. OwnerInv'
  <2>1. app' \subseteq runtime'
    BY <1>2 DEF IInv, Tracking, OwnerInv
  <2>2. ASSUME NEW k \in runtime', k # Instance PROVE owner[k] \in runtime'
    <3>1. k \in runtime /\ k \in Handles /\ Known(k) /\ owner[k] \in runtime /\ ~Within(k, a)
      BY <1>2, <2>2 DEF IInv, TypeOK, Known, Tracking, OwnerInv
    <3>2. ~Within(owner[k], a)
      BY <2>2, <3>1, Kinds DEF IInv, Tracking, OwnerInv, Within
    <3> QED
      BY <1>2, <3>1, <3>2
  <2> QED
    BY <1>2, <1>11, <2>1, <2>2 DEF IInv, Tracking, OwnerInv
<1>13. MapInv'
  <2>1. \A u \in Threads : Fresh(u) => (Fresh(u))'
    BY <1>1, <1>4 DEF Fresh
  <2> QED
    BY <1>2, <1>11, <2>1 DEF IInv, Tracking, MapInv
<1>14. HeapInv'
  <2>1. \A u \in Threads : pc[u] = "register" => pc'[u] = "register"
    BY <1>1, <1>4
  <2> QED
    BY <1>2, <2>1 DEF IInv, Tracking, HeapInv
<1>15. RegistryWellFormed' /\ CustomInv' /\ FaultInv'
  BY <1>2 DEF IInv, Tracking, RegistryWellFormed, CustomInv, FaultInv
<1> QED
  BY <1>3, <1>7, <1>8, <1>10, <1>12, <1>13, <1>14, <1>15 DEF IInv, Tracking

\* Erasing an object without children leaves no pointer to it behind.
LEMMA EraseSelfStep ==
  ASSUME IInv, NEW t \in Threads, churned' \in BOOLEAN, EraseSelf(t)
  PROVE  IInv'
<1> DEFINE o == ptr[t]
           k == stateKey[o]
           p == stateParent[o]
<1>1. /\ pc[t] = "recurse" /\ CallOK(t) /\ Dooming(t) /\ ~Fresh(t)
      /\ o \in heap /\ o \in Objects /\ o # Null /\ k \in doomed[t] /\ k \in Handles
      /\ handleStates[k] = o /\ mutex = t /\ arg[t] \in doomed[t]
  BY Kinds DEF EraseSelf, IInv, CallInv, CallOK, Dooming, Fresh, TypeOK
<1>2. \A c \in heap : stateParent[c] # o
  BY <1>1 DEF EraseSelf, NoChildLeft, IInv, Tracking, RegistryWellFormed
<1>3. k \notin runtime /\ Within(k, arg[t]) /\ (k # arg[t] => owner[k] \in doomed[t] /\ k # Instance)
  BY <1>1, Kinds DEF IInv, DoomInv, DoomOK, Within
<1>4. p \in Objects \cup {Null} /\ p # o /\ (p # Null => p \in heap)
  BY <1>1, <1>2, KeyOfObject DEF IInv, TypeOK
<1>5. /\ handleStates' = [handleStates EXCEPT ![k] = Null]
      /\ heap' = heap \ {o}
      /\ stateKey' = [stateKey EXCEPT ![o] = Null]
      /\ stateParent' = [stateParent EXCEPT ![o] = Null]
      /\ customState' = [customState EXCEPT ![o] = FALSE]
      /\ children' = IF p = Null THEN children ELSE [children EXCEPT ![p] = @ \ {o}]
      /\ \/ k = arg[t] /\ Return(t) /\ mutex' = Null
         \/ k # arg[t] /\ ptr' = [ptr EXCEPT ![t] = p] /\ UNCHANGED <<pc, mutex, arg, new, doomed>>
      /\ UNCHANGED <<runtime, owner, app, faults>>
  BY DEF EraseSelf, Free, LeaveParent, runtimeVars
<1>6. TypeOK'
  <2> USE DEF IInv, TypeOK
  <2>1. /\ pc' \in [Threads -> Steps] /\ mutex' \in Threads \cup {Null}
        /\ arg' \in [Threads -> Handles \cup {Null}] /\ new' \in [Threads -> Handles \cup {Null}]
        /\ ptr' \in [Threads -> Objects \cup {Null}] /\ doomed' \in [Threads -> SUBSET Handles]
    <3>1. CASE Return(t) /\ mutex' = Null
      BY <3>1, Names DEF Return, Goto
    <3>2. CASE ptr' = [ptr EXCEPT ![t] = p] /\ UNCHANGED <<pc, mutex, arg, new, doomed>>
      BY <1>4, <3>2
    <3> QED
      BY <1>5, <3>1, <3>2
  <2>2. children' \in [Objects -> SUBSET Objects]
    BY <1>4, <1>5
  <2>3. /\ handleStates' \in [Handles -> Objects \cup {Null}] /\ heap' \subseteq Objects
        /\ stateKey' \in [Objects -> Handles \cup {Null}] /\ stateParent' \in [Objects -> Objects \cup {Null}]
        /\ customState' \in [Objects -> BOOLEAN]
    BY <1>5
  <2> QED
    BY <1>5, <2>1, <2>2, <2>3
<1>7. /\ handleStates'[k] = Null /\ \A j \in Handles \ {k} : handleStates'[j] = handleStates[j]
      /\ \A q \in heap' : q \in heap /\ stateKey'[q] = stateKey[q] /\ stateParent'[q] = stateParent[q]
                          /\ customState'[q] = customState[q]
      /\ \A q \in Objects : children'[q] = IF q = p THEN children[q] \ {o} ELSE children[q]
      /\ \A u \in Threads \ {t} : pc'[u] = pc[u] /\ arg'[u] = arg[u] /\ new'[u] = new[u]
                                  /\ ptr'[u] = ptr[u] /\ doomed'[u] = doomed[u]
      /\ \/ k = arg[t] /\ pc'[t] = "idle" /\ doomed'[t] = {} /\ mutex' = Null
         \/ /\ k # arg[t] /\ pc'[t] = "recurse" /\ ptr'[t] = p /\ mutex' = t
            /\ arg'[t] = arg[t] /\ doomed'[t] = doomed[t]
  <2>1. /\ handleStates'[k] = Null /\ \A j \in Handles \ {k} : handleStates'[j] = handleStates[j]
        /\ \A q \in heap' : q \in heap /\ stateKey'[q] = stateKey[q] /\ stateParent'[q] = stateParent[q]
                            /\ customState'[q] = customState[q]
    BY <1>1, <1>5 DEF IInv, TypeOK
  <2>2. \A q \in Objects : children'[q] = IF q = p THEN children[q] \ {o} ELSE children[q]
    <3>1. children \in [Objects -> SUBSET Objects] /\ Null \notin Objects
      BY Kinds DEF IInv, TypeOK
    <3>2. CASE p = Null
      <4>1. children' = children
        BY <1>5, <3>2
      <4> QED
        BY <3>1, <3>2, <4>1
    <3>3. CASE p # Null
      <4>1. children' = [children EXCEPT ![p] = @ \ {o}]
        BY <1>5, <3>3
      <4> QED
        BY <1>4, <3>1, <3>3, <4>1
    <3> QED
      BY <3>2, <3>3
  <2>3. CASE k = arg[t] /\ Return(t) /\ mutex' = Null
    <3>1. /\ pc'[t] = "idle" /\ doomed'[t] = {}
          /\ \A u \in Threads \ {t} : pc'[u] = pc[u] /\ arg'[u] = arg[u] /\ new'[u] = new[u]
                                      /\ ptr'[u] = ptr[u] /\ doomed'[u] = doomed[u]
      BY <2>3 DEF IInv, TypeOK, Return, Goto
    <3> QED
      BY <2>1, <2>2, <2>3, <3>1
  <2>4. CASE k # arg[t] /\ ptr' = [ptr EXCEPT ![t] = p] /\ UNCHANGED <<pc, mutex, arg, new, doomed>>
    <3>1. /\ pc'[t] = "recurse" /\ ptr'[t] = p /\ mutex' = t
          /\ \A u \in Threads \ {t} : ptr'[u] = ptr[u]
      BY <1>1, <2>4 DEF IInv, TypeOK
    <3> QED
      BY <2>1, <2>2, <2>4, <3>1
  <2> QED
    BY <1>5, <2>3, <2>4
<1>8. ASSUME NEW u \in Threads, Making(u) PROVE new[u] # k /\ u # t /\ new[u] \in Handles /\ new[u] \in runtime
  BY <1>1, <1>3, <1>8 DEF IInv, CallInv, CallOK, TypeOK, Making
<1>9. \A j \in app : j \in runtime /\ j # k /\ j \in Handles /\ handleStates[j] \in heap \ {o}
  <2> TAKE j \in app
  <2>1. j \in runtime /\ j \in Handles /\ handleStates[j] # Null
    BY UsableTracked
  <2> QED
    BY <1>1, <1>3, <2>1 DEF IInv, Tracking, RegistryWellFormed
<1>10. CallInv'
  <2>1. CallOK(t)'
    <3>1. CASE pc'[t] = "idle"
      BY <1>7, <3>1 DEF CallOK, Making, Fresh, Dooming, Polling
    <3>2. CASE pc'[t] = "recurse"
      <4>1. k # arg[t] /\ k # Instance /\ owner[k] \in doomed[t] /\ owner[k] \in Handles
        BY <1>1, <1>3, <1>7, <3>2, KeyOfObject
      <4>2. p # Null /\ p = handleStates[owner[k]]
        BY <1>1, <4>1 DEF IInv, Tracking, HeapInv
      <4>3. p \in heap /\ stateKey[p] = owner[k]
        BY <4>1, <4>2 DEF IInv, Tracking, RegistryWellFormed
      <4>4. owner[k] # k
        BY <1>1, <1>4, <4>2
      <4>5. p \in heap' /\ stateKey'[p] = owner[k] /\ handleStates'[owner[k]] = p
        BY <1>4, <1>5, <1>7, <4>1, <4>2, <4>3, <4>4
      <4> QED
        BY <1>1, <1>7, <3>2, <4>1, <4>5 DEF CallOK, Making, Fresh, Dooming, Polling
    <3> QED
      BY <1>7, <3>1, <3>2
  <2>2. ASSUME NEW u \in Threads \ {t} PROVE CallOK(u)'
    <3>1. CallOK(u)
      BY DEF IInv, CallInv
    <3>2. pc[u] # "recurse"
      BY <1>1, <3>1 DEF CallOK
    <3>3. pc[u] = "register" => ptr[u] \in heap' /\ stateKey'[ptr[u]] = new[u]
      BY <1>5, <1>7, <1>8, <3>1 DEF CallOK, Making
    <3>4. pc[u] = "clone" => arg[u] \in Handles \ {k}
      BY <1>8, <1>9, <3>1 DEF CallOK, Making
    <3> QED
      BY <1>5, <1>7, <1>8, <3>1, <3>2, <3>3, <3>4 DEF CallOK, Making, Fresh, Dooming, Polling
  <2> QED
    BY <2>1, <2>2 DEF CallInv
<1>11. Isolation'
  <2> SUFFICES ASSUME NEW u \in Threads, NEW v \in Threads, u # v PROVE Apart(u, v)'
    BY DEF Isolation
  <2>1. Apart(u, v)
    BY DEF IInv, Isolation
  <2> QED
    BY <1>1, <1>5, <1>7, <2>1 DEF Apart, Making, Destroying, Within
<1>12. DoomInv'
  <2> SUFFICES ASSUME NEW u \in Threads PROVE DoomOK(u)'
    BY DEF DoomInv
  <2>1. CASE u # t
    <3>1. DoomOK(u) /\ k \notin doomed[u] /\ doomed[u] \subseteq Handles
      BY <1>1, <2>1, DoomedApart DEF IInv, DoomInv, TypeOK
    <3> QED
      BY <1>5, <1>7, <2>1, <3>1 DEF DoomOK, Within
  <2>2. CASE u = t
    BY <1>1, <1>5, <1>7, <2>2 DEF IInv, DoomInv, DoomOK, Within
  <2> QED
    BY <2>1, <2>2
<1>13. \A j : Known(j)' => Known(j)
  BY <1>5, <1>7 DEF Known
<1>14. OwnerInv'
  BY <1>5, <1>13 DEF IInv, Tracking, OwnerInv
<1>15. ASSUME NEW j \in doomed[t], k = arg[t], j # k PROVE handleStates[j] = Null
  <2> SUFFICES ASSUME handleStates[j] # Null PROVE FALSE
    OBVIOUS
  <2>1. ASSUME NEW i \in doomed[t], i # k, handleStates[i] # Null
        PROVE  /\ i # Instance /\ owner[i] \in doomed[t] /\ owner[i] # k
               /\ handleStates[owner[i]] # Null /\ Known(i) /\ i \in Handles
    <3>1. i \in Handles /\ Within(i, arg[t]) /\ owner[i] \in doomed[t]
      BY <1>15, <2>1 DEF IInv, DoomInv, DoomOK, TypeOK
    <3>2. i # Instance
      BY <1>15, <2>1, <3>1, Kinds DEF Within
    <3>3. handleStates[i] \in heap /\ stateKey[handleStates[i]] = i
      BY <2>1, <3>1 DEF IInv, Tracking, RegistryWellFormed
    <3>4. /\ stateParent[handleStates[i]] # Null
          /\ stateParent[handleStates[i]] = handleStates[owner[i]] /\ Known(i)
      BY <3>2, <3>3, KeyOfObject DEF IInv, Tracking, HeapInv
    <3> QED
      BY <1>1, <1>2, <3>1, <3>2, <3>3, <3>4
  <2>2. owner[j] \in doomed[t] /\ owner[j] # k /\ handleStates[owner[j]] # Null
        /\ j # Instance /\ Known(j) /\ j \in Handles
    BY <1>15, <2>1
  <2>3. owner[owner[j]] \in doomed[t] /\ owner[owner[j]] # k /\ handleStates[owner[owner[j]]] # Null
        /\ owner[j] # Instance /\ Known(owner[j]) /\ owner[j] \in Handles
    BY <2>1, <2>2
  <2>4. owner[owner[j]] = Instance
    BY <2>2, <2>3, Kinds DEF IInv, Tracking, OwnerInv
  <2> QED
    BY <2>1, <2>3, <2>4
<1>16. MapInv'
  <2> SUFFICES ASSUME NEW j \in Handles
               PROVE /\ handleStates'[j] # Null => Known(j)'
                     /\ j \in runtime' /\ handleStates'[j] = Null =>
                           \E u \in Threads : (Fresh(u))' /\ new'[u] = j
    BY DEF MapInv
  <2>1. handleStates'[j] # Null => Known(j)'
    <3> SUFFICES ASSUME handleStates'[j] # Null PROVE Known(j)'
      OBVIOUS
    <3>1. j # k /\ handleStates[j] # Null /\ Known(j)
      BY <1>7 DEF IInv, Tracking, MapInv
    <3>2. CASE j \in runtime \/ \E u \in Threads \ {t} : j \in doomed[u]
      BY <1>5, <1>7, <3>2 DEF Known
    <3>3. CASE j \in doomed[t]
      BY <1>7, <1>15, <3>1, <3>3 DEF Known
    <3> QED
      BY <3>1, <3>2, <3>3 DEF Known
  <2>2. ASSUME j \in runtime', handleStates'[j] = Null
        PROVE  \E u \in Threads : (Fresh(u))' /\ new'[u] = j
    <3>1. PICK u \in Threads : Fresh(u) /\ new[u] = j
      BY <1>3, <1>5, <1>7, <2>2 DEF IInv, Tracking, MapInv
    <3>2. u # t
      BY <1>1, <3>1
    <3>3. (Fresh(u))' /\ new'[u] = j
      BY <1>7, <3>1, <3>2 DEF Fresh
    <3> QED
      BY <3>3
  <2> QED
    BY <2>1, <2>2
<1>17. HeapInv'
  <2> SUFFICES ASSUME NEW q \in heap'
        PROVE /\ stateKey[q] \in Handles
              /\ handleStates'[stateKey[q]] = q \/ \E u \in Threads : pc'[u] = "register" /\ ptr'[u] = q
              /\ stateKey[q] = Instance => stateParent[q] = Null
              /\ stateKey[q] # Instance =>
                   stateParent[q] # Null /\ stateParent[q] = handleStates'[owner[stateKey[q]]]
    BY <1>5, <1>7 DEF HeapInv
  <2>1. /\ q \in heap /\ q # o /\ stateKey[q] \in Handles
        /\ (stateKey[q] # Instance => owner[stateKey[q]] \in Handles)
    BY <1>5, KeyOfObject
  <2>2. /\ stateKey[q] = Instance => stateParent[q] = Null
        /\ stateKey[q] # Instance =>
                   stateParent[q] # Null /\ stateParent[q] = handleStates[owner[stateKey[q]]]
    BY <2>1 DEF IInv, Tracking, HeapInv
  <2>3. handleStates'[stateKey[q]] = q \/ \E u \in Threads : pc'[u] = "register" /\ ptr'[u] = q
    <3>1. CASE handleStates[stateKey[q]] = q
      BY <1>1, <1>7, <2>1, <3>1
    <3>2. CASE \E u \in Threads : pc[u] = "register" /\ ptr[u] = q
      BY <1>1, <1>7, <3>2
    <3> QED
      BY <2>1, <3>1, <3>2 DEF IInv, Tracking, HeapInv
  <2> QED
    BY <1>1, <1>2, <1>7, <2>1, <2>2, <2>3
<1>18. RegistryWellFormed'
  <2>1. ASSUME NEW j \in Handles, handleStates'[j] # Null
        PROVE  handleStates'[j] \in heap' /\ stateKey'[handleStates'[j]] = j
    <3>1. j # k /\ handleStates'[j] = handleStates[j]
      BY <1>7, <2>1
    <3>2. handleStates[j] \in heap /\ stateKey[handleStates[j]] = j
      BY <2>1, <3>1 DEF IInv, Tracking, RegistryWellFormed
    <3> QED
      BY <1>5, <1>7, <3>1, <3>2
  <2>2. ASSUME NEW q \in heap' PROVE children'[q] = {c \in heap' : stateParent'[c] = q}
    <3>1. q \in heap /\ q \in Objects /\ children[q] = {c \in heap : stateParent[c] = q}
      BY <1>7 DEF IInv, TypeOK, Tracking, RegistryWellFormed
    <3>2. {c \in heap' : stateParent'[c] = q} = {c \in heap : stateParent[c] = q} \ {o}
      BY <1>5, <1>7
    <3>3. children'[q] = children[q] \ {o}
      <4>1. q # p => o \notin children[q]
        BY <3>1
      <4> QED
        BY <1>7, <3>1, <4>1
    <3> QED
      BY <3>1, <3>2, <3>3
  <2> QED
    BY <2>1, <2>2 DEF RegistryWellFormed
<1>19. CustomInv' /\ FaultInv'
  BY <1>5, <1>7, <1>9 DEF IInv, Tracking, CustomInv, FaultInv
<1> QED
  BY <1>6, <1>10, <1>11, <1>12, <1>14, <1>16, <1>17, <1>18, <1>19 DEF IInv, Tracking

-----------------------------------------------------------------------------

\* The initial state satisfies the invariant.
LEMMA InitInv == Init => IInv
<1> SUFFICES ASSUME Init PROVE IInv
  OBVIOUS
<1> USE DEF Init
<1>1. TypeOK
  BY Names, Kinds DEF TypeOK
<1>2. CallInv /\ Isolation /\ DoomInv
  BY DEF CallInv, CallOK, Isolation, Apart, DoomInv, DoomOK, Making, Fresh, Dooming, Polling, Destroying
<1>3. OwnerInv /\ MapInv /\ HeapInv /\ RegistryWellFormed /\ CustomInv
  BY DEF OwnerInv, Known, MapInv, HeapInv, RegistryWellFormed, CustomInv
<1> QED
  BY <1>1, <1>2, <1>3 DEF IInv, Tracking, FaultInv

\* A stuttering step keeps the invariant.
LEMMA StutterInv == IInv /\ UNCHANGED vars => IInv'
<1> SUFFICES ASSUME IInv, UNCHANGED vars PROVE IInv'
  OBVIOUS
<1> USE DEF vars
<1>1. TypeOK' /\ FaultInv'
  BY DEF IInv, TypeOK, FaultInv
<1>2. CallInv'
  BY DEF IInv, CallInv, CallOK, Making, Fresh, Dooming, Polling
<1>3. Isolation'
  BY DEF IInv, Isolation, Apart, Making, Destroying, Within
<1>4. DoomInv'
  BY DEF IInv, DoomInv, DoomOK, Within
<1>5. Tracking'
  BY DEF IInv, Tracking, OwnerInv, Known, MapInv, Fresh, HeapInv, RegistryWellFormed, CustomInv
<1> QED
  BY <1>1, <1>2, <1>3, <1>4, <1>5 DEF IInv

\* Every action of a thread keeps the invariant.
LEMMA ActionInv ==
  ASSUME ~EagerReuse, IInv, NEW t \in Threads, churned' \in BOOLEAN,
         Create(t) \/ Destroy(t) \/ PollEvent(t)
  PROVE  IInv'
<1>1. CASE Create(t)
  <2>1. CASE \E o \in Objects : CreateInstance(t, o)
    BY <2>1, CreateInstanceStep
  <2>2. CASE \E o \in Objects : CloneForChild(t, o)
    BY <2>2, CloneForChildStep
  <2>3. CASE \E k \in Handles : BeginCreate(t, k)
    BY <2>3, BeginSteps
  <2>4. CASE \E k \in Handles : RuntimeCreate(t, k)
    BY <2>4, RuntimeCreateStep
  <2>5. CASE RuntimeCreateFails(t)
    BY <2>5, EndSteps
  <2>6. CASE FindParent(t)
    BY <2>6, FindParentStep
  <2>7. CASE RegisterHandleState(t)
    BY <2>7, RegisterHandleStateStep
  <2>8. CASE SetCustomState(t)
    BY <2>8, SetCustomStateStep
  <2> QED
    BY <1>1, <2>1, <2>2, <2>3, <2>4, <2>5, <2>6, <2>7, <2>8 DEF Create
<1>2. CASE Destroy(t)
  <2>1. CASE \E k \in Handles : BeginDestroy(t, k)
    BY <2>1, BeginSteps
  <2>2. CASE RuntimeDestroy(t)
    BY <2>2, RuntimeDestroyStep
  <2>3. CASE RuntimeDestroyFails(t)
    BY <2>3, EndSteps
  <2>4. CASE UnregisterHandleState(t) \/ \E c \in Objects : UnregisterChild(t, c)
    BY <2>4, UnregisterSteps
  <2>5. CASE EraseSelf(t)
    BY <2>5, EraseSelfStep
  <2> QED
    BY <1>2, <2>1, <2>2, <2>3, <2>4, <2>5 DEF Destroy
<1>3. CASE PollEvent(t)
  <2>1. CASE BeginPoll(t)
    BY <2>1, BeginSteps, Kinds
  <2>2. CASE PollUnavailable(t) \/ CheckEventPayload(t)
    BY <2>2, EndSteps
  <2>3. CASE FindEventSession(t) \/ \E s \in Sessions : PollSessionEvent(t, s)
    BY <2>3, EventSteps
  <2> QED
    BY <1>3, <2>1, <2>2, <2>3 DEF PollEvent
<1> QED
  BY <1>1, <1>2, <1>3

\* So does the next-state relation.
LEMMA NextInv ==
  ASSUME ~EagerReuse, IInv, [Next]_vars
  PROVE  IInv'
<1>1. CASE Next
  <2>1. churned' \in BOOLEAN
    BY <1>1 DEF Next
  <2> QED
    BY <1>1, <2>1, ActionInv DEF Next
<1>2. CASE UNCHANGED vars
  BY <1>2, StutterInv
<1> QED
  BY <1>1, <1>2

\* The invariant holds in every state of the system.
THEOREM Inductive ==
  ASSUME ~EagerReuse
  PROVE  Spec => []IInv
<1>1. Init => IInv
  BY InitInv
<1>2. IInv /\ [Next]_vars => IInv'
  BY NextInv
<1> QED
  BY <1>1, <1>2, PTL DEF Spec

\* Every variable keeps its type.
THEOREM TypeCorrect ==
  ASSUME ~EagerReuse
  PROVE  Spec => []TypeOK
<1>1. IInv => TypeOK
  BY DEF IInv
<1> QED
  BY <1>1, Inductive, PTL

\* No handle is registered twice and none is unregistered twice: the exceptions
\* that template_gen_dispatch.cpp turns into an abort are never thrown.
THEOREM AbortFree ==
  ASSUME ~EagerReuse
  PROVE  Spec => []NoAbort
<1>1. IInv => NoAbort
  BY DEF IInv, FaultInv, NoAbort
<1> QED
  BY <1>1, Inductive, PTL

\* The map and the parent and child pointers of HandleState always form the
\* tree of the handles, without a pointer to a freed object.
THEOREM WellFormed ==
  ASSUME ~EagerReuse
  PROVE  Spec => []RegistryWellFormed
<1>1. IInv => RegistryWellFormed
  BY DEF IInv, Tracking
<1> QED
  BY <1>1, Inductive, PTL

\* GetHandleState and GetCustomState succeed for every handle that the
\* application may use, whatever the other threads are doing.
THEOREM Resolve ==
  ASSUME ~EagerReuse
  PROVE  Spec => []UsableHandlesResolve
<1>1. IInv => UsableHandlesResolve
  <2> SUFFICES ASSUME IInv, NEW k \in app
               PROVE handleStates[k] # Null /\ (k # Instance => customState[handleStates[k]])
    BY DEF UsableHandlesResolve
  <2> QED
    BY UsableTracked DEF IInv, Tracking, CustomInv
<1> QED
  BY <1>1, Inductive, PTL

\* Between calls the layer tracks exactly the runtime's handles: no handle is
\* forgotten, none outlives its destruction, and no HandleState leaks.
THEOREM Agreement ==
  ASSUME ~EagerReuse
  PROVE  Spec => []QuiescentAgreement
<1>1. IInv => QuiescentAgreement
  <2> SUFFICES ASSUME IInv, \A t \in Threads : pc[t] = "idle"
               PROVE  /\ {k \in Handles : handleStates[k] # Null} = runtime
                      /\ heap = {handleStates[k] : k \in runtime}
    BY DEF QuiescentAgreement
  <2>1. \A t \in Threads : doomed[t] = {} /\ ~Fresh(t) /\ pc[t] # "register"
    BY DEF IInv, CallInv, CallOK, Dooming, Fresh
  <2>2. \A k : Known(k) => k \in runtime
    BY <2>1 DEF Known
  <2>3. \A k \in Handles : handleStates[k] # Null <=> k \in runtime
    BY <2>1, <2>2 DEF IInv, Tracking, MapInv
  <2>4. runtime \subseteq Handles
    BY DEF IInv, TypeOK
  <2>5. \A o \in heap : stateKey[o] \in runtime /\ handleStates[stateKey[o]] = o
    BY <2>1, <2>2, KeyOfObject DEF IInv, Tracking, HeapInv
  <2>6. \A k \in runtime : handleStates[k] \in heap
    BY <2>3, <2>4 DEF IInv, Tracking, RegistryWellFormed
  <2> QED
    BY <2>3, <2>4, <2>5, <2>6
<1> QED
  BY <1>1, Inductive, PTL

-----------------------------------------------------------------------------

\* A step of thread t.
Action(t) == Create(t) \/ Destroy(t) \/ PollEvent(t)

\* What the steps do to the map and to the data of the other threads.
LEMMA OthersRest ==
  ASSUME TypeOK, NEW t \in Threads, Action(t), NEW u \in Threads \ {t}
  PROVE  /\ pc'[u] = pc[u] /\ arg'[u] = arg[u] /\ new'[u] = new[u]
         /\ ptr'[u] = ptr[u] /\ doomed'[u] = doomed[u]
<1> USE DEF TypeOK, Fail, Return, Goto, callVars
<1>1. CASE \E o \in Objects : CreateInstance(t, o) \/ CloneForChild(t, o)
  BY <1>1 DEF CreateInstance, CloneForChild
<1>2. CASE \E k \in Handles : BeginCreate(t, k) \/ RuntimeCreate(t, k)
  BY <1>2 DEF BeginCreate, RuntimeCreate
<1>3. CASE RuntimeCreateFails(t) \/ FindParent(t)
  BY <1>3 DEF RuntimeCreateFails, FindParent, GetHandleState
<1>4. CASE RegisterHandleState(t)
  BY <1>4 DEF RegisterHandleState
<1>5. CASE SetCustomState(t)
  BY <1>5 DEF SetCustomState
<1>6. CASE (\E k \in Handles : BeginDestroy(t, k)) \/ RuntimeDestroy(t) \/ RuntimeDestroyFails(t)
  BY <1>6 DEF BeginDestroy, RuntimeDestroy, RuntimeDestroyFails
<1>7. CASE UnregisterHandleState(t) \/ \E c \in Objects : UnregisterChild(t, c)
  BY <1>7 DEF UnregisterHandleState, UnregisterChild
<1>8. CASE EraseSelf(t)
  BY <1>8 DEF EraseSelf
<1>9. CASE BeginPoll(t) \/ PollUnavailable(t)
  BY <1>9 DEF BeginPoll, PollUnavailable
<1>10. CASE FindEventSession(t) \/ CheckEventPayload(t) \/ \E s \in Sessions : PollSessionEvent(t, s)
  BY <1>10 DEF FindEventSession, CheckEventPayload, PollSessionEvent
<1> QED
  BY <1>1, <1>2, <1>3, <1>4, <1>5, <1>6, <1>7, <1>8, <1>9, <1>10 DEF Action, Create, Destroy, PollEvent

\* The map changes at the two ends of a handle's registration only.
LEMMA MapChanges ==
  ASSUME TypeOK, NEW t \in Threads, Action(t)
  PROVE  \/ handleStates' = handleStates
         \/ RegisterHandleState(t) /\ handleStates' = [handleStates EXCEPT ![new[t]] = ptr[t]]
         \/ EraseSelf(t) /\ handleStates' = [handleStates EXCEPT ![stateKey[ptr[t]]] = Null]
<1>1. CASE RegisterHandleState(t)
  BY <1>1 DEF RegisterHandleState
<1>2. CASE EraseSelf(t)
  BY <1>2 DEF EraseSelf
<1>3. CASE ~RegisterHandleState(t) /\ ~EraseSelf(t)
  <2>1. CASE Create(t)
    BY <1>3, <2>1 DEF Create, CreateInstance, CloneForChild, BeginCreate, RuntimeCreate,
       RuntimeCreateFails, FindParent, GetHandleState, SetCustomState
  <2>2. CASE Destroy(t)
    BY <1>3, <2>2 DEF Destroy, BeginDestroy, RuntimeDestroy, RuntimeDestroyFails,
       UnregisterHandleState, UnregisterChild
  <2>3. CASE PollEvent(t)
    BY <1>3, <2>3 DEF PollEvent, BeginPoll, PollUnavailable, FindEventSession, CheckEventPayload,
       PollSessionEvent
  <2> QED
    BY <2>1, <2>2, <2>3 DEF Action
<1> QED
  BY <1>1, <1>2, <1>3

\* The runtime's handles, and those the application knows, change as follows.
LEMMA RuntimeChanges ==
  ASSUME TypeOK, NEW t \in Threads, Action(t)
  PROVE  \/ UNCHANGED <<runtime, owner, app>>
         \/ CreateInstance(t, ptr'[t]) /\ runtime' = runtime \cup {Instance} /\ UNCHANGED <<owner, app>>
         \/ /\ RuntimeCreate(t, new'[t])
            /\ runtime' = runtime \cup {new'[t]} /\ owner' = [owner EXCEPT ![new'[t]] = arg[t]]
            /\ UNCHANGED app
         \/ /\ RegisterHandleState(t) \/ SetCustomState(t)
            /\ app' = app \cup {new[t]} /\ UNCHANGED <<runtime, owner>>
         \/ RuntimeDestroy(t)
<1>1. CASE \E o \in Objects : CreateInstance(t, o)
  BY <1>1 DEF CreateInstance, TypeOK
<1>2. CASE \E k \in Handles : RuntimeCreate(t, k)
  BY <1>2 DEF RuntimeCreate, TypeOK
<1>3. CASE RegisterHandleState(t)
  BY <1>3 DEF RegisterHandleState
<1>4. CASE SetCustomState(t)
  BY <1>4 DEF SetCustomState
<1>5. CASE RuntimeDestroy(t)
  BY <1>5
<1>6. CASE \/ \E o \in Objects : CloneForChild(t, o)
           \/ \E k \in Handles : BeginCreate(t, k)
           \/ RuntimeCreateFails(t) \/ FindParent(t)
  BY <1>6 DEF CloneForChild, BeginCreate, RuntimeCreateFails, FindParent, runtimeVars
<1>7. CASE Destroy(t) /\ ~RuntimeDestroy(t)
  BY <1>7 DEF Destroy, BeginDestroy, RuntimeDestroyFails, UnregisterHandleState, UnregisterChild,
     EraseSelf, runtimeVars
<1>8. CASE PollEvent(t)
  BY <1>8 DEF PollEvent, BeginPoll, PollUnavailable, FindEventSession, CheckEventPayload,
     PollSessionEvent, runtimeVars
<1> QED
  BY <1>1, <1>2, <1>3, <1>4, <1>5, <1>6, <1>7, <1>8 DEF Action, Create

-----------------------------------------------------------------------------

\* Facts about the thread that erases an object.
LEMMA Erased ==
  ASSUME IInv, NEW t \in Threads, EraseSelf(t)
  PROVE  /\ pc[t] = "recurse" /\ ptr[t] \in heap /\ stateKey[ptr[t]] \in doomed[t]
         /\ stateKey[ptr[t]] \in Handles /\ stateKey[ptr[t]] \notin runtime
         /\ handleStates[stateKey[ptr[t]]] = ptr[t]
         /\ \A c \in heap : stateParent[c] # ptr[t]
<1>1. pc[t] = "recurse" /\ CallOK(t)
  BY DEF EraseSelf, IInv, CallInv
<1>2. /\ ptr[t] \in heap /\ stateKey[ptr[t]] \in doomed[t]
      /\ handleStates[stateKey[ptr[t]]] = ptr[t]
  BY <1>1 DEF CallOK
<1>3. stateKey[ptr[t]] \in Handles /\ stateKey[ptr[t]] \notin runtime
  BY <1>2 DEF IInv, TypeOK, DoomInv, DoomOK
<1>4. \A c \in heap : stateParent[c] # ptr[t]
  BY <1>2 DEF EraseSelf, NoChildLeft, IInv, Tracking, RegistryWellFormed
<1> QED
  BY <1>1, <1>2, <1>3, <1>4

\* Facts about the thread that registers a handle.
LEMMA Registered ==
  ASSUME IInv, NEW t \in Threads, RegisterHandleState(t)
  PROVE  /\ new[t] \in runtime \ app /\ new[t] \in Handles /\ handleStates[new[t]] = Null
         /\ ptr[t] \in heap /\ stateKey[ptr[t]] = new[t] /\ ptr[t] # Null
<1>1. CallOK(t) /\ Making(t) /\ Fresh(t) /\ pc[t] = "register"
  BY DEF RegisterHandleState, IInv, CallInv, Making, Fresh
<1> QED
  BY <1>1, Kinds DEF CallOK, IInv, TypeOK

\* A handle leaves the map through the call that destroyed it only, and none
\* of those a call destroyed is left when the call returns.
THEOREM ExactDestroy ==
  ASSUME ~EagerReuse
  PROVE  Spec => DestroyIsExact
<1> DEFINE Exact ==
      \A k \in Handles : handleStates[k] # Null =>
          IF handleStates'[k] = Null
          THEN \E t \in Threads : pc[t] = "recurse" /\ k \in doomed[t]
          ELSE \A t \in Threads : pc[t] = "recurse" /\ pc'[t] = "idle" => k \notin doomed[t]
<1>1. ASSUME IInv, IInv', Next PROVE Exact
  <2>1. PICK t \in Threads : Action(t)
    BY <1>1 DEF Next, Action
  <2>2. TypeOK
    BY <1>1 DEF IInv
  <2> SUFFICES ASSUME NEW k \in Handles, handleStates[k] # Null
               PROVE  /\ handleStates'[k] = Null => \E u \in Threads : pc[u] = "recurse" /\ k \in doomed[u]
                      /\ handleStates'[k] # Null =>
                           \A u \in Threads : pc[u] = "recurse" /\ pc'[u] = "idle" => k \notin doomed[u]
    OBVIOUS
  <2>3. ASSUME handleStates'[k] = Null PROVE \E u \in Threads : pc[u] = "recurse" /\ k \in doomed[u]
    <3>1. EraseSelf(t) /\ k = stateKey[ptr[t]]
      <4>1. ~(RegisterHandleState(t) /\ handleStates' = [handleStates EXCEPT ![new[t]] = ptr[t]])
        BY <1>1, <2>3, Registered DEF IInv, TypeOK
      <4> QED
        BY <2>1, <2>2, <2>3, <4>1, MapChanges DEF TypeOK
    <3> QED
      BY <1>1, <3>1, Erased
  <2>4. ASSUME handleStates'[k] # Null, NEW u \in Threads, pc[u] = "recurse", pc'[u] = "idle", k \in doomed[u]
        PROVE  FALSE
    <3>1. u = t
      BY <2>1, <2>2, <2>4, OthersRest
    <3>2. UNCHANGED <<runtime, owner, app>>
      <4>1. ~RuntimeDestroy(t) /\ ~RegisterHandleState(t) /\ ~SetCustomState(t)
        BY <2>4, <3>1 DEF RuntimeDestroy, RegisterHandleState, SetCustomState
      <4>2. ~CreateInstance(t, ptr'[t]) /\ ~RuntimeCreate(t, new'[t])
        BY <2>4, <3>1 DEF CreateInstance, RuntimeCreate
      <4> QED
        BY <2>1, <2>2, <4>1, <4>2, RuntimeChanges
    <3>3. k \notin runtime
      BY <1>1, <2>4 DEF IInv, DoomInv, DoomOK
    <3>4. doomed'[t] = {}
      BY <1>1, <2>4, <3>1 DEF IInv, CallInv, CallOK, Dooming
    <3>5. \A v \in Threads \ {t} : k \notin doomed'[v]
      BY <1>1, <2>1, <2>2, <2>4, <3>1, OthersRest, DoomedApart
    <3>6. Known(k)'
      BY <1>1, <2>4 DEF IInv, Tracking, MapInv
    <3> QED
      BY <3>2, <3>3, <3>4, <3>5, <3>6 DEF Known
  <2> QED
    BY <2>3, <2>4
<1>2. IInv /\ IInv' /\ [Next]_vars => [Exact]_vars
  BY <1>1
<1>3. Spec => [][Exact]_vars
  <2> HIDE DEF Exact
  <2> QED
    BY <1>2, Inductive, PTL DEF Spec
<1> QED
  BY <1>3 DEF DestroyIsExact

-----------------------------------------------------------------------------

\* The tree of the registered handles hs, when ow gives each handle its owner.
OwnerTree(hs, ow) ==
    [k \in Handles |-> IF hs[k] = Null THEN [registered |-> FALSE, parent |-> Null]
                       ELSE [registered |-> TRUE, parent |-> IF k = Instance THEN Null ELSE ow[k]]]

\* In such a tree the owners of the registered handles are registered.
Closed(hs, ow) ==
    \A k \in Handles : hs[k] # Null /\ k # Instance => ow[k] \in Handles /\ hs[ow[k]] # Null

\* The tree that the objects stand for is that of the runtime's owners.
ByOwners == treeBar = OwnerTree(handleStates, owner) /\ Closed(handleStates, owner)

\* The invariant makes the objects' tree that of the owners.
LEMMA TreeByOwners == IInv => ByOwners
<1> SUFFICES ASSUME IInv PROVE ByOwners
  OBVIOUS
<1>1. ASSUME NEW k \in Handles, handleStates[k] # Null
      PROVE  /\ stateParent[handleStates[k]] = Null <=> k = Instance
             /\ k # Instance => /\ owner[k] \in Handles /\ handleStates[owner[k]] # Null
                                /\ stateKey[stateParent[handleStates[k]]] = owner[k]
  <2>1. handleStates[k] \in heap /\ stateKey[handleStates[k]] = k
    BY <1>1 DEF IInv, Tracking, RegistryWellFormed
  <2>2. CASE k = Instance
    BY <2>1, <2>2 DEF IInv, Tracking, HeapInv
  <2>3. CASE k # Instance
    <3>1. /\ stateParent[handleStates[k]] # Null /\ owner[k] \in Handles
          /\ stateParent[handleStates[k]] = handleStates[owner[k]]
      BY <2>1, <2>3, KeyOfObject DEF IInv, Tracking, HeapInv
    <3> QED
      BY <2>3, <3>1 DEF IInv, Tracking, RegistryWellFormed
  <2> QED
    BY <2>2, <2>3
<1>2. Closed(handleStates, owner)
  BY <1>1 DEF Closed
<1>3. ASSUME NEW k \in Handles PROVE treeBar[k] = OwnerTree(handleStates, owner)[k]
  <2>1. CASE handleStates[k] = Null
    BY <2>1 DEF treeBar, OwnerTree
  <2>2. CASE handleStates[k] # Null /\ k = Instance
    BY <1>1, <2>2 DEF treeBar, OwnerTree
  <2>3. CASE handleStates[k] # Null /\ k # Instance
    BY <1>1, <2>3 DEF treeBar, OwnerTree
  <2> QED
    BY <2>1, <2>2, <2>3
<1>4. treeBar = OwnerTree(handleStates, owner)
  BY <1>3 DEF treeBar, OwnerTree
<1> QED
  BY <1>2, <1>4 DEF ByOwners

\* Registering one handle inserts a leaf of the abstract tree.
LEMMA InsertsLeaf ==
  ASSUME NEW hs, NEW hs2, NEW ow, NEW ow2, NEW k \in Handles,
         Closed(hs2, ow2), hs[k] = Null, hs2[k] # Null, k # Instance => ow2[k] # k,
         \A j \in Handles \ {k} : hs2[j] = hs[j] /\ (hs[j] # Null => ow2[j] = ow[j]),
         treeBar = OwnerTree(hs, ow), treeBar' = OwnerTree(hs2, ow2)
  PROVE  Tree!Next
<1> DEFINE p == IF k = Instance THEN Null ELSE ow2[k]
<1>1. treeBar[k] = [registered |-> FALSE, parent |-> Null]
  BY DEF OwnerTree
<1>2. p \in Handles => treeBar[p].registered = (hs[p] # Null)
  BY DEF OwnerTree
<1>3. p = Null \/ (p \in Handles /\ treeBar[p].registered)
  BY <1>2 DEF Closed
<1>4. \A j \in Handles : treeBar'[j] = IF j = k THEN [registered |-> TRUE, parent |-> p] ELSE treeBar[j]
  BY DEF OwnerTree
<1>5. treeBar' = [treeBar EXCEPT ![k] = [registered |-> TRUE, parent |-> p]]
  BY <1>4 DEF OwnerTree
<1>6. Tree!Insert(k, p)
  BY <1>1, <1>3, <1>5 DEF Tree!Insert, Tree!Absent
<1>7. p \in Handles \cup {Null}
  BY <1>3
<1> QED
  BY <1>6, <1>7 DEF Tree!Next

\* Erasing one handle on which none depends removes a leaf of it.
LEMMA RemovesLeaf ==
  ASSUME NEW hs, NEW hs2, NEW ow, NEW ow2, NEW k \in Handles, k # Null,
         hs[k] # Null, hs2[k] = Null,
         \A j \in Handles \ {k} : hs2[j] = hs[j] /\ (hs[j] # Null => ow2[j] = ow[j]),
         \A j \in Handles : hs[j] # Null /\ j # Instance => ow[j] # k,
         treeBar = OwnerTree(hs, ow), treeBar' = OwnerTree(hs2, ow2)
  PROVE  Tree!Next
<1>1. treeBar[k].registered
  BY DEF OwnerTree
<1>2. ASSUME NEW c \in Handles, treeBar[c].registered PROVE treeBar[c].parent # k
  BY <1>2 DEF OwnerTree
<1>3. \A j \in Handles : treeBar'[j] = IF j = k THEN [registered |-> FALSE, parent |-> Null] ELSE treeBar[j]
  BY DEF OwnerTree
<1>4. treeBar' = [treeBar EXCEPT ![k] = [registered |-> FALSE, parent |-> Null]]
  BY <1>3 DEF OwnerTree
<1>5. Tree!Remove(k)
  BY <1>1, <1>2, <1>4 DEF Tree!Remove, Tree!Absent
<1> QED
  BY <1>5 DEF Tree!Next

\* Every action is a step of the abstract tree or leaves it as it is.
LEMMA TreeStep ==
  ASSUME ~EagerReuse, IInv, ByOwners, ByOwners', NEW t \in Threads, Action(t)
  PROVE  [Tree!Next]_treeBar
<1>1. TypeOK /\ treeBar = OwnerTree(handleStates, owner)
      /\ treeBar' = OwnerTree(handleStates', owner') /\ Closed(handleStates', owner')
  BY DEF IInv, ByOwners, Closed, OwnerTree
<1>2. \A k \in Handles : handleStates[k] # Null => owner'[k] = owner[k]
  <2>1. CASE UNCHANGED owner
    BY <2>1
  <2>2. CASE RuntimeCreate(t, new'[t]) /\ owner' = [owner EXCEPT ![new'[t]] = arg[t]]
    <3>1. new'[t] \notin runtime /\ \A u \in Threads : new'[t] \notin doomed[u]
      BY <2>2 DEF RuntimeCreate
    <3> QED
      BY <1>1, <2>2, <3>1 DEF TypeOK, IInv, Tracking, MapInv, Known
  <2>3. CASE RuntimeDestroy(t)
    BY <2>3 DEF RuntimeDestroy
  <2> QED
    BY <1>1, <2>1, <2>2, <2>3, RuntimeChanges
<1>3. CASE handleStates' = handleStates
  <2>1. treeBar' = treeBar
    BY <1>1, <1>2, <1>3 DEF OwnerTree
  <2> QED
    BY <2>1
<1>4. CASE RegisterHandleState(t) /\ handleStates' = [handleStates EXCEPT ![new[t]] = ptr[t]]
  <2> DEFINE k == new[t]
  <2>1. /\ k \in Handles /\ handleStates[k] = Null /\ handleStates'[k] # Null
        /\ \A j \in Handles \ {k} : handleStates'[j] = handleStates[j]
    BY <1>1, <1>4, Registered DEF TypeOK
  <2>2. k # Instance => owner'[k] # k
    <3>1. k # Instance => owner[k] = arg[t] /\ arg[t] \in app
      BY <1>4 DEF RegisterHandleState, IInv, CallInv, CallOK, Making
    <3>2. UNCHANGED owner
      BY <1>4 DEF RegisterHandleState
    <3> QED
      BY <1>4, <3>1, <3>2, Registered
  <2> HIDE DEF k
  <2> QED
    BY <1>1, <1>2, <2>1, <2>2, InsertsLeaf
<1>5. CASE EraseSelf(t) /\ handleStates' = [handleStates EXCEPT ![stateKey[ptr[t]]] = Null]
  <2> DEFINE k == stateKey[ptr[t]]
  <2>1. /\ k \in Handles /\ handleStates[k] = ptr[t] /\ ptr[t] \in heap /\ ptr[t] # Null /\ k # Null
        /\ \A c \in heap : stateParent[c] # ptr[t]
    BY <1>1, <1>5, Erased, Kinds DEF TypeOK
  <2>2. handleStates[k] # Null /\ handleStates'[k] = Null
        /\ \A j \in Handles \ {k} : handleStates'[j] = handleStates[j]
    BY <1>1, <1>5, <2>1 DEF TypeOK
  <2>3. ASSUME NEW c \in Handles, handleStates[c] # Null, c # Instance PROVE owner[c] # k
    <3>1. handleStates[c] \in heap /\ stateKey[handleStates[c]] = c
      BY <2>3 DEF IInv, Tracking, RegistryWellFormed
    <3>2. stateParent[handleStates[c]] = handleStates[owner[c]]
      BY <2>3, <3>1 DEF IInv, Tracking, HeapInv
    <3> QED
      BY <2>1, <3>1, <3>2
  <2> HIDE DEF k
  <2> QED
    BY <1>1, <1>2, <2>1, <2>2, <2>3, RemovesLeaf
<1> QED
  BY <1>1, <1>3, <1>4, <1>5, MapChanges

\* The registry implements the abstract tree of handles, each registration as
\* the insertion of a leaf and each unregistration as the removal of leaves.
THEOREM Refinement ==
  ASSUME ~EagerReuse
  PROVE  Spec => ImplementsTree
<1>1. Init => Tree!Init
  BY DEF Init, Tree!Init, Tree!Absent, treeBar
<1>2. ASSUME IInv, ByOwners, ByOwners', [Next]_vars PROVE [Tree!Next]_treeBar
  <2>1. CASE Next
    <3>1. PICK t \in Threads : Action(t)
      BY <2>1 DEF Next, Action
    <3> QED
      BY <1>2, <3>1, TreeStep
  <2>2. CASE UNCHANGED vars
    BY <2>2 DEF vars, treeBar
  <2> QED
    BY <1>2, <2>1, <2>2
<1>3. Spec => Tree!Spec
  BY <1>1, <1>2, TreeByOwners, Inductive, PTL DEF Spec, Tree!Spec
<1> QED
  BY <1>3 DEF ImplementsTree

-----------------------------------------------------------------------------

\* Every handle that the application does not know yet is still being created.
AppInv == \A k \in runtime \ app : \E t \in Threads : Making(t) /\ new[t] = k

\* A session whose event is being checked is known and tracked, as long as no
\* session came or went during a poll.
EventInv ==
    ~churned => \A t \in Threads :
        /\ pc[t] \in {"event", "payload"} => new[t] \in app
        /\ pc[t] = "payload" => ptr[t] = handleStates[new[t]]

ChurnInv == SessionChurn => churned

PollInv == AppInv /\ EventInv /\ ChurnInv /\ NoFault

\* A handle the application keeps stays where it is in the map.
LEMMA AppKept ==
  ASSUME IInv, NEW t \in Threads, Action(t), NEW k \in app
  PROVE  /\ handleStates'[k] = handleStates[k]
         /\ k \notin app' => RuntimeDestroy(t) /\ Within(k, arg[t])
<1>1. TypeOK /\ k \in Handles /\ k \in runtime
  BY UsableTracked DEF IInv
<1>2. handleStates'[k] = handleStates[k]
  BY <1>1, MapChanges, Registered, Erased DEF TypeOK
<1>3. k \notin app' => RuntimeDestroy(t)
  BY <1>1, RuntimeChanges
<1>4. RuntimeDestroy(t) /\ k \notin app' => Within(k, arg[t])
  BY DEF RuntimeDestroy
<1> QED
  BY <1>2, <1>3, <1>4

\* Without churn, the sessions of the runtime are those the application knows.
LEMMA SessionsKnown ==
  ASSUME IInv, AppInv, NEW t \in Threads, Polling(t), ~SessionChurn, NEW s \in Sessions, Known(s)
  PROVE  s \in app
<1>1. arg[t] = Instance /\ owner[s] = Instance /\ s \in Handles
  BY Kinds DEF IInv, CallInv, CallOK, Tracking, OwnerInv
<1>2. ASSUME s \in runtime, s \notin app PROVE FALSE
  <2>1. PICK u \in Threads : Making(u) /\ new[u] = s
    BY <1>2 DEF AppInv
  <2>2. arg[u] = Instance
    BY <1>1, <2>1, Kinds DEF IInv, CallInv, CallOK
  <2>3. CreatingIn(u, Instance)
    BY <2>1, <2>2 DEF CreatingIn, Making
  <2> QED
    BY <2>3 DEF SessionChurn
<1>3. ASSUME NEW u \in Threads, s \in doomed[u] PROVE FALSE
  <2>1. Destroying(u) /\ Within(s, arg[u])
    BY <1>3 DEF IInv, CallInv, CallOK, Dooming, Destroying, DoomInv, DoomOK
  <2>2. u # t
    BY <2>1 DEF Polling, Destroying
  <2>3. ~Within(Instance, arg[u])
    BY <1>1, <2>1, <2>2 DEF IInv, Isolation, Apart, Polling
  <2>4. arg[u] \in Sessions
    BY <2>1, <2>3, Kinds DEF Within
  <2> QED
    BY <2>1, <2>4 DEF SessionChurn
<1> QED
  BY <1>2, <1>3 DEF Known

AllKnown ==
    \A t \in Threads, s \in Sessions : Polling(t) /\ ~SessionChurn /\ Known(s) => s \in app

\* The same of the next state.
LEMMA AllKnownNext == IInv' /\ AppInv' => AllKnown'
<1>1. IInv /\ AppInv => AllKnown
  BY SessionsKnown DEF AllKnown
<1> QED
  BY <1>1, PTL

\* Of the actions on handles, only these leave a thread's creating call.
LEMMA MakingKept ==
  ASSUME IInv, IInv', NEW t \in Threads, Action(t), Making(t),
         ~RegisterHandleState(t), ~SetCustomState(t)
  PROVE  (Making(t))' /\ new'[t] = new[t]
<1>1. CASE FindParent(t)
  <2>1. handleStates[arg[t]] # Null
    <3>1. arg[t] \in app
      BY <1>1 DEF IInv, CallInv, CallOK, FindParent, Making
    <3> QED
      BY <3>1, UsableTracked
  <2> QED
    BY <1>1, <2>1 DEF FindParent, GetHandleState, Goto, Making, IInv, TypeOK
<1>2. CASE \E o \in Objects : CloneForChild(t, o)
  BY <1>2 DEF CloneForChild, Goto, Making, IInv, TypeOK
<1>3. CASE Destroy(t)
  BY <1>3 DEF Destroy, BeginDestroy, RuntimeDestroy, RuntimeDestroyFails, UnregisterHandleState,
     UnregisterChild, EraseSelf, Making
<1>4. CASE PollEvent(t)
  BY <1>4 DEF PollEvent, BeginPoll, PollUnavailable, FindEventSession, CheckEventPayload,
     PollSessionEvent, Making
<1>5. CASE Create(t) /\ ~FindParent(t) /\ ~\E o \in Objects : CloneForChild(t, o)
  BY <1>5 DEF Create, CreateInstance, BeginCreate, RuntimeCreate, RuntimeCreateFails, Making
<1> QED
  BY <1>1, <1>2, <1>3, <1>4, <1>5 DEF Action

\* A living handle that the application has not got is still being created.
LEMMA AppStep ==
  ASSUME IInv, IInv', AppInv, NEW t \in Threads, Action(t)
  PROVE  AppInv'
<1> SUFFICES ASSUME NEW k \in runtime' \ app'
             PROVE  \E u \in Threads : (Making(u))' /\ new'[u] = k
  BY DEF AppInv
<1>1. TypeOK
  BY DEF IInv
<1>2. CASE k \in runtime /\ k \notin app
  <2>1. PICK u \in Threads : Making(u) /\ new[u] = k
    BY <1>2 DEF AppInv
  <2>2. CASE u # t
    BY <1>1, <2>1, <2>2, OthersRest DEF Making
  <2>3. CASE u = t
    <3>1. ASSUME RegisterHandleState(t) \/ SetCustomState(t)
          PROVE  (Making(t))' /\ new'[t] = k
      <4>1. CASE RegisterHandleState(t)
        <5>1. handleStates[new[t]] = Null
          BY <4>1, Registered
        <5>2. new[t] # Instance
          BY <2>1, <2>3, <4>1, <5>1 DEF RegisterHandleState
        <5> QED
          BY <1>1, <2>1, <2>3, <4>1, <5>1, <5>2 DEF RegisterHandleState, Goto, callVars, Making, TypeOK
      <4>2. CASE SetCustomState(t)
        <5>1. handleStates[new[t]] # Null
          BY <4>2 DEF SetCustomState, IInv, CallInv, CallOK
        <5> QED
          BY <2>1, <2>3, <4>2, <5>1 DEF SetCustomState
      <4> QED
        BY <3>1, <4>1, <4>2
    <3> QED
      BY <2>1, <2>3, <3>1, MakingKept
  <2> QED
    BY <2>2, <2>3
<1>3. CASE ~(k \in runtime /\ k \notin app)
  <2>1. k \notin runtime
    <3>1. ~(k \in runtime /\ k \in app)
      BY AppKept DEF RuntimeDestroy
    <3> QED
      BY <1>3, <3>1
  <2>2. CASE CreateInstance(t, ptr'[t]) /\ runtime' = runtime \cup {Instance}
    BY <1>1, <2>1, <2>2 DEF CreateInstance, Goto, Making, TypeOK
  <2>3. CASE RuntimeCreate(t, new'[t]) /\ runtime' = runtime \cup {new'[t]}
    BY <1>1, <2>1, <2>3 DEF RuntimeCreate, Goto, Making, TypeOK
  <2>4. CASE RuntimeDestroy(t)
    BY <2>1, <2>4 DEF RuntimeDestroy
  <2> QED
    BY <1>1, <2>1, <2>2, <2>3, <2>4, RuntimeChanges
<1> QED
  BY <1>2, <1>3

\* Without churn, the session of a polled event stays known and its object the same.
LEMMA EventStep ==
  ASSUME IInv, IInv', AppInv, EventInv, NEW t \in Threads, Action(t),
         churned' = (churned \/ SessionChurn')
  PROVE  EventInv'
<1> SUFFICES ASSUME ~churned', NEW u \in Threads
             PROVE /\ pc'[u] \in {"event", "payload"} => new'[u] \in app'
                   /\ pc'[u] = "payload" => ptr'[u] = handleStates'[new'[u]]
  BY DEF EventInv
<1>1. TypeOK /\ ~churned /\ ~SessionChurn'
  BY DEF IInv
<1>2. CASE u # t
  <2>1. /\ pc'[u] = pc[u] /\ arg'[u] = arg[u] /\ new'[u] = new[u] /\ ptr'[u] = ptr[u]
    BY <1>1, <1>2, OthersRest
  <2>2. pc[u] \in {"event", "payload"} => new[u] \in app /\ new[u] \in Sessions /\ arg[u] = Instance
    BY <1>1 DEF EventInv, IInv, CallInv, CallOK, Polling
  <2>3. ASSUME pc[u] \in {"event", "payload"} PROVE new[u] \in app'
    <3> SUFFICES ASSUME new[u] \notin app' PROVE FALSE
      OBVIOUS
    <3>1. RuntimeDestroy(t) /\ Within(new[u], arg[t])
      BY <2>2, <2>3, AppKept
    <3>2. ~Within(Instance, arg[t])
      BY <1>2, <2>2, <2>3, <3>1 DEF IInv, Isolation, Apart, RuntimeDestroy, Destroying
    <3>3. arg[t] \in Sessions
      BY <2>2, <2>3, <3>1, <3>2, Kinds DEF Within
    <3>4. (Polling(u))' /\ (Destroying(t))' /\ arg'[t] \in Sessions
      BY <1>1, <2>1, <2>3, <3>1, <3>3 DEF RuntimeDestroy, Goto, Polling, Destroying, TypeOK
    <3> QED
      BY <1>1, <3>4 DEF SessionChurn
  <2>4. pc[u] = "payload" => handleStates'[new[u]] = handleStates[new[u]] /\ ptr[u] = handleStates[new[u]]
    BY <1>1, <2>2, AppKept DEF EventInv
  <2> QED
    BY <2>1, <2>3, <2>4
<1>3. CASE u = t
  <2>1. CASE \E s \in Sessions : PollSessionEvent(t, s)
    <3>1. PICK s \in Sessions : PollSessionEvent(t, s)
      BY <2>1
    <3>2. /\ pc'[t] = "event" /\ new'[t] = s /\ s \in runtime /\ UNCHANGED <<runtime, owner, app>>
          /\ (Polling(t))'
      BY <1>1, <3>1 DEF PollSessionEvent, Goto, runtimeVars, TypeOK, Polling
    <3>3. AppInv'
      BY AppStep
    <3>4. (Known(s))'
      BY <3>2 DEF Known
    <3>5. AllKnown'
      BY <3>3, AllKnownNext
    <3>6. s \in app'
      BY <1>1, <3>2, <3>4, <3>5 DEF AllKnown
    <3> QED
      BY <1>3, <3>2, <3>6
  <2>2. CASE FindEventSession(t)
    <3>1. new[t] \in app
      BY <1>1, <2>2 DEF EventInv, FindEventSession
    <3>2. handleStates[new[t]] # Null
      BY <3>1, UsableTracked
    <3> QED
      BY <1>1, <1>3, <2>2, <3>1, <3>2 DEF FindEventSession, Goto, runtimeVars, TypeOK
  <2>3. CASE ~FindEventSession(t) /\ ~\E s \in Sessions : PollSessionEvent(t, s)
    <3> USE DEF Fail, Return, Goto, TypeOK
    <3>1. CASE Create(t)
      <4>1. CASE \E o \in Objects : CreateInstance(t, o) \/ CloneForChild(t, o)
        BY <1>1, <1>3, <4>1 DEF CreateInstance, CloneForChild
      <4>2. CASE \E k \in Handles : BeginCreate(t, k) \/ RuntimeCreate(t, k)
        BY <1>1, <1>3, <4>2 DEF BeginCreate, RuntimeCreate
      <4>3. CASE RuntimeCreateFails(t) \/ FindParent(t)
        BY <1>1, <1>3, <4>3 DEF RuntimeCreateFails, FindParent, GetHandleState
      <4>4. CASE RegisterHandleState(t) \/ SetCustomState(t)
        BY <1>1, <1>3, <4>4 DEF RegisterHandleState, SetCustomState
      <4> QED
        BY <3>1, <4>1, <4>2, <4>3, <4>4 DEF Create
    <3>2. CASE Destroy(t)
      BY <1>1, <1>3, <3>2 DEF Destroy, BeginDestroy, RuntimeDestroy, RuntimeDestroyFails,
         UnregisterHandleState, UnregisterChild, EraseSelf
    <3>3. CASE PollEvent(t)
      BY <1>1, <1>3, <2>3, <3>3 DEF PollEvent, BeginPoll, PollUnavailable, CheckEventPayload
    <3> QED
      BY <3>1, <3>2, <3>3 DEF Action
  <2> QED
    BY <2>1, <2>2, <2>3
<1> QED
  BY <1>2, <1>3

\* While a thread polls and no session has come or gone, every child session of
\* the instance is one the application knows, so its custom state is set.
LEMMA PollFinds ==
  ASSUME IInv, AppInv, ~SessionChurn, NEW t \in Threads, pc[t] = "poll",
         NEW c \in children[handleStates[Instance]], stateKey[c] \in Sessions
  PROVE  customState[c]
<1> DEFINE s == stateKey[c]
<1>1. Polling(t) /\ Instance \in app
  BY DEF Polling, IInv, CallInv, CallOK
<1>2. handleStates[Instance] \in heap
  BY <1>1, UsableTracked DEF IInv, Tracking, RegistryWellFormed
<1>3. c \in heap
  BY <1>2 DEF IInv, Tracking, RegistryWellFormed
<1>4. Known(s) /\ s \in Handles
  BY <1>3, KeyOfObject
<1>5. s \in app
  BY <1>1, <1>4, SessionsKnown
<1>6. handleStates[s] = c
  <2>1. ASSUME NEW u \in Threads, pc[u] = "register", ptr[u] = c PROVE FALSE
    BY <1>5, <2>1 DEF IInv, CallInv, CallOK, Making
  <2> QED
    BY <1>3, <2>1 DEF IInv, Tracking, HeapInv
<1> QED
  BY <1>5, <1>6, Kinds DEF IInv, Tracking, CustomInv

\* Without churn no action adds a fault.
LEMMA FaultStep ==
  ASSUME IInv, IInv', PollInv, NEW t \in Threads, Action(t), churned' = (churned \/ SessionChurn')
  PROVE  NoFault'
<1> SUFFICES ASSUME ~churned' PROVE faults' = {}
  BY DEF NoFault
<1>1. TypeOK /\ ~churned /\ ~SessionChurn /\ faults = {}
  BY DEF IInv, PollInv, ChurnInv, NoFault
<1>2. "abort" \notin faults' /\ "handleInvalid" \notin faults'
  BY DEF IInv, FaultInv
<1>3. CASE Create(t)
  BY <1>1, <1>2, <1>3 DEF Create, CreateInstance, CloneForChild, BeginCreate, RuntimeCreate,
     RuntimeCreateFails, FindParent, GetHandleState, RegisterHandleState, SetCustomState, Fail
<1>4. CASE Destroy(t)
  BY <1>1, <1>2, <1>4 DEF Destroy, BeginDestroy, RuntimeDestroy, RuntimeDestroyFails,
     UnregisterHandleState, UnregisterChild, EraseSelf, Fail
<1>5. CASE BeginPoll(t) \/ \E s \in Sessions : PollSessionEvent(t, s)
  BY <1>1, <1>2, <1>5 DEF BeginPoll, PollSessionEvent, Fail
<1>6. CASE PollUnavailable(t)
  <2>1. \A c \in children[handleStates[Instance]] : stateKey[c] \in Sessions => customState[c]
    BY <1>1, <1>6, PollFinds DEF PollInv, PollUnavailable
  <2> QED
    BY <1>1, <1>6, <2>1 DEF PollUnavailable
<1>7. CASE FindEventSession(t)
  <2>1. handleStates[new[t]] # Null
    BY <1>1, <1>7, UsableTracked DEF PollInv, EventInv, FindEventSession
  <2> QED
    BY <1>1, <1>7, <2>1 DEF FindEventSession
<1>8. CASE CheckEventPayload(t)
  <2>1. new[t] \in app /\ new[t] \in Sessions /\ ptr[t] = handleStates[new[t]]
    BY <1>1, <1>8 DEF PollInv, EventInv, CheckEventPayload, IInv, CallInv, CallOK
  <2>2. ptr[t] \in heap
    BY <2>1, UsableTracked DEF IInv, Tracking, RegistryWellFormed
  <2>3. customState[ptr[t]]
    BY <2>1, Kinds DEF IInv, Tracking, CustomInv
  <2> QED
    BY <1>1, <1>8, <2>2, <2>3 DEF CheckEventPayload
<1> QED
  BY <1>3, <1>4, <1>5, <1>6, <1>7, <1>8 DEF Action, PollEvent

\* With an application that does not poll while another of its threads creates
\* or destroys a session, the layer neither aborts, nor touches freed or unset
\* state, nor calls a session's event untracked, nor a usable handle invalid.
THEOREM FaultFree ==
  ASSUME ~EagerReuse
  PROVE  Spec => []NoFault
<1>1. Init => PollInv
  BY DEF Init, PollInv, AppInv, EventInv, ChurnInv, SessionChurn, Polling, NoFault
<1>2. ASSUME IInv, IInv', PollInv, [Next]_vars PROVE PollInv'
  <2>1. CASE Next
    <3>1. PICK t \in Threads : Action(t)
      BY <2>1 DEF Next, Action
    <3>2. churned' = (churned \/ SessionChurn')
      BY <2>1 DEF Next
    <3>3. AppInv' /\ EventInv'
      BY <1>2, <3>1, <3>2, AppStep, EventStep DEF PollInv
    <3>4. NoFault'
      BY <1>2, <3>1, <3>2, FaultStep
    <3>5. ChurnInv'
      BY <3>2 DEF ChurnInv
    <3> QED
      BY <3>3, <3>4, <3>5 DEF PollInv
  <2>2. CASE UNCHANGED vars
    BY <1>2, <2>2 DEF vars, PollInv, AppInv, Making, EventInv, ChurnInv, SessionChurn, Polling,
       CreatingIn, Destroying, NoFault
  <2> QED
    BY <1>2, <2>1, <2>2
<1>3. PollInv => NoFault
  BY DEF PollInv
<1> QED
  BY <1>1, <1>2, <1>3, Inductive, PTL DEF Spec
=============================================================================
