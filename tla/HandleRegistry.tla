--------------------------- MODULE HandleRegistry ---------------------------
(***************************************************************************)
(* The handle registry of the conformance API layer (HandleState.h,        *)
(* HandleState.cpp), driven by the generated create, destroy and entry     *)
(* code (template_gen_dispatch.cpp), by ConformanceLayer_RegisterInstance  *)
(* and by the two parts of xrPollEvent that walk the registry.             *)
(*                                                                         *)
(* Application threads call into the layer concurrently; a call is the     *)
(* sequence of its critical sections and of the call it forwards to the    *)
(* runtime.  The application obeys the external synchronisation rules of   *)
(* the API: a handle, its parents and its children are not used while it   *)
(* is being destroyed.  The runtime is any conforming one.                 *)
(***************************************************************************)
EXTENDS Naturals, FiniteSets

CONSTANTS
    Threads,           \* application threads
    Instance,          \* the XrInstance handle
    Sessions,          \* values an XrSession handle may take
    Leaves,            \* values of handles created from a session
    Objects,           \* heap addresses of HandleState objects
    Null,              \* null pointer, or no handle
    EagerReuse         \* may the runtime hand out a freed value again before
                       \* the destroy call that freed it has returned?

Handles == {Instance} \cup Sessions \cup Leaves

ASSUME ConstantsAssumption ==
    /\ Instance \notin Sessions \cup Leaves
    /\ Sessions \cap Leaves = {}
    /\ Null \notin Handles \cup Objects \cup Threads
    /\ EagerReuse \in BOOLEAN

VARIABLES
    \* The runtime and the application.
    runtime,           \* handles that are alive in the runtime
    owner,             \* the handle each handle was created from
    app,               \* handles whose creating call has returned
    \* The layer.
    handleStates,      \* g_handleStates: the map from handle to object
    mutex,             \* holder of g_handleStatesMutex across several steps
    heap,              \* HandleState objects that are allocated
    stateKey,          \* HandleState::handle and ::type
    stateParent,       \* HandleState::parent
    children,          \* HandleState::children
    customState,       \* is HandleState::customState set?
    \* The calls in progress.
    pc,                \* where each thread is
    arg,               \* the handle its call is made on
    new,               \* the handle the runtime returned to its call
    ptr,               \* the HandleState its call holds a pointer to
    doomed,            \* handles its call has destroyed in the runtime
    faults,            \* what has gone wrong so far
    churned            \* has a session come or gone while a thread polled?

runtimeVars == <<runtime, owner, app>>
objectVars == <<heap, stateKey, stateParent, children, customState>>
callVars == <<arg, new, ptr, doomed>>
vars == <<runtime, owner, app, handleStates, mutex, heap, stateKey, stateParent,
          children, customState, pc, arg, new, ptr, doomed, faults, churned>>

Steps == {"idle", "create", "findParent", "clone", "register", "custom",
          "destroy", "unregister", "recurse", "poll", "event", "payload"}
Faults == {"abort", "nullDeref", "useAfterFree", "handleInvalid", "untrackedEvent"}

TypeOK ==
    /\ runtime \subseteq Handles
    /\ owner \in [Handles -> Handles \cup {Null}]
    /\ app \subseteq Handles
    /\ handleStates \in [Handles -> Objects \cup {Null}]
    /\ mutex \in Threads \cup {Null}
    /\ heap \subseteq Objects
    /\ stateKey \in [Objects -> Handles \cup {Null}]
    /\ stateParent \in [Objects -> Objects \cup {Null}]
    /\ children \in [Objects -> SUBSET Objects]
    /\ customState \in [Objects -> BOOLEAN]
    /\ pc \in [Threads -> Steps]
    /\ arg \in [Threads -> Handles \cup {Null}]
    /\ new \in [Threads -> Handles \cup {Null}]
    /\ ptr \in [Threads -> Objects \cup {Null}]
    /\ doomed \in [Threads -> SUBSET Handles]
    /\ faults \subseteq Faults
    /\ churned \in BOOLEAN

Init ==
    /\ runtime = {} /\ app = {}
    /\ owner = [k \in Handles |-> Null]
    /\ handleStates = [k \in Handles |-> Null]
    /\ mutex = Null
    /\ heap = {}
    /\ stateKey = [o \in Objects |-> Null]
    /\ stateParent = [o \in Objects |-> Null]
    /\ children = [o \in Objects |-> {}]
    /\ customState = [o \in Objects |-> FALSE]
    /\ pc = [t \in Threads |-> "idle"]
    /\ arg = [t \in Threads |-> Null]
    /\ new = [t \in Threads |-> Null]
    /\ ptr = [t \in Threads |-> Null]
    /\ doomed = [t \in Threads |-> {}]
    /\ faults = {} /\ churned = FALSE

-----------------------------------------------------------------------------
(* The rules of the API for the application.                               *)

\* k is p or was created, directly or not, from p.
Within(k, p) == k = p \/ p = Instance \/ (k \in Leaves /\ owner[k] = p)

Destroying(u) == pc[u] \in {"destroy", "unregister", "recurse"}
Polling(u) == pc[u] \in {"poll", "event", "payload"}
CreatingIn(u, p) == pc[u] \in {"create", "findParent", "clone", "register", "custom"} /\ arg[u] = p

\* A handle may be passed to a call once it is known and while no thread
\* destroys it or a handle it was created from.
Usable(p) == p \in app /\ \A u \in Threads : Destroying(u) => ~Within(p, arg[u])

\* A handle may be destroyed while no call on it or its children is in progress.
Quiet(k) == \A u \in Threads : pc[u] # "idle" => ~Within(arg[u], k)

\* A session comes or goes while another thread polls.
SessionChurn ==
    \E t, u \in Threads :
        Polling(t) /\ (CreatingIn(u, Instance) \/ (Destroying(u) /\ arg[u] \in Sessions))

-----------------------------------------------------------------------------
(* Exceptions and the return of a call.                                    *)

Running == faults \cap {"abort", "nullDeref", "useAfterFree"} = {}

Goto(t, step) == pc' = [pc EXCEPT ![t] = step]

\* The call returns and its locals die.
Return(t) ==
    /\ Goto(t, "idle")
    /\ arg' = [arg EXCEPT ![t] = Null]
    /\ new' = [new EXCEPT ![t] = Null]
    /\ ptr' = [ptr EXCEPT ![t] = Null]
    /\ doomed' = [doomed EXCEPT ![t] = {}]

\* An exception or a bad access ends the call: ABI_CATCH returns
\* XR_ERROR_HANDLE_INVALID for an unknown handle and aborts for the rest.
Fail(t, fault) ==
    /\ faults' = faults \cup {fault}
    /\ Return(t)
    /\ mutex' = IF mutex = t THEN Null ELSE mutex

\* GetHandleState: the object of handle k, or a HandleNotFoundException.
GetHandleState(t, k, next) ==
    /\ mutex = Null
    /\ IF handleStates[k] = Null
       THEN Fail(t, "handleInvalid")
       ELSE /\ ptr' = [ptr EXCEPT ![t] = handleStates[k]]
            /\ Goto(t, next)
            /\ UNCHANGED <<mutex, arg, new, doomed, faults>>
    /\ UNCHANGED <<handleStates, objectVars>>

-----------------------------------------------------------------------------
(* Objects on the heap.                                                    *)

Allocate(o, k, parent) ==
    /\ o \in Objects \ heap
    /\ heap' = heap \cup {o}
    /\ stateKey' = [stateKey EXCEPT ![o] = k]
    /\ stateParent' = [stateParent EXCEPT ![o] = parent]
    /\ customState' = [customState EXCEPT ![o] = FALSE]

Free(o) ==
    /\ heap' = heap \ {o}
    /\ stateKey' = [stateKey EXCEPT ![o] = Null]
    /\ stateParent' = [stateParent EXCEPT ![o] = Null]
    /\ customState' = [customState EXCEPT ![o] = FALSE]

\* children.push_back in CloneForChild; the new object has no children.
AddChild(p, o) == children' = [children EXCEPT ![p] = @ \cup {o}, ![o] = {}]

\* The loop of UnregisterHandleStateInternal ends when no child is left.
NoChildLeft_Unchecked(o) == TRUE
NoChildLeft(o) == children[o] = {}

\* Its second block: leave the parent's list of children.
LeaveParent_Omitted(o) == UNCHANGED children
LeaveParent(o) ==
    children' = IF stateParent[o] = Null THEN children
                ELSE [children EXCEPT ![stateParent[o]] = @ \ {o}]

Tag_Omitted(o) == UNCHANGED customState
Tag(o) == customState' = [customState EXCEPT ![o] = TRUE]

-----------------------------------------------------------------------------
(* xrCreateInstance (through the loader, which admits one at a time) and    *)
(* xrCreate* of a session or of a handle created from a session.            *)

\* ConformanceLayer_RegisterInstance up to RegisterHandleState.
CreateInstance(t, o) ==
    /\ Instance \notin runtime /\ \A u \in Threads : pc[u] = "idle"
    /\ runtime' = runtime \cup {Instance}
    /\ Allocate(o, Instance, Null)
    /\ children' = [children EXCEPT ![o] = {}]
    /\ arg' = [arg EXCEPT ![t] = Instance]
    /\ new' = [new EXCEPT ![t] = Instance]
    /\ ptr' = [ptr EXCEPT ![t] = o]
    /\ Goto(t, "register")
    /\ UNCHANGED <<owner, app, handleStates, mutex, doomed, faults>>

\* ABI entry of xrCreate*(p): look p up, then forward the call.
BeginCreate(t, p) ==
    /\ pc[t] = "idle" /\ Usable(p) /\ p \notin Leaves
    /\ mutex = Null
    /\ IF handleStates[p] = Null
       THEN Fail(t, "handleInvalid")
       ELSE /\ arg' = [arg EXCEPT ![t] = p]
            /\ Goto(t, "create")
            /\ UNCHANGED <<mutex, new, ptr, doomed, faults>>
    /\ UNCHANGED <<runtimeVars, handleStates, objectVars>>

\* The runtime creates k, which is not alive; whether it may be a value that
\* a destroy still in progress has just freed is up to the runtime.
RuntimeCreate(t, k) ==
    /\ pc[t] = "create"
    /\ k \in (IF arg[t] = Instance THEN Sessions ELSE Leaves) \ runtime
    /\ ~EagerReuse => \A u \in Threads : k \notin doomed[u]
    /\ runtime' = runtime \cup {k}
    /\ owner' = [owner EXCEPT ![k] = arg[t]]
    /\ new' = [new EXCEPT ![t] = k]
    /\ Goto(t, "findParent")
    /\ UNCHANGED <<app, handleStates, mutex, objectVars, arg, ptr, doomed, faults>>

\* The runtime's xrCreate* fails: the layer records nothing.
RuntimeCreateFails(t) ==
    /\ pc[t] = "create"
    /\ Return(t)
    /\ UNCHANGED <<runtimeVars, handleStates, mutex, objectVars, faults>>

\* The second look-up of the parent, after the runtime's call succeeded.
FindParent(t) ==
    /\ pc[t] = "findParent"
    /\ GetHandleState(t, arg[t], "clone")
    /\ UNCHANGED runtimeVars

\* HandleState::CloneForChild: under the parent's childrenMutex only.
CloneForChild(t, o) ==
    /\ pc[t] = "clone"
    /\ Allocate(o, new[t], ptr[t])
    /\ AddChild(ptr[t], o)
    /\ ptr' = [ptr EXCEPT ![t] = o]
    /\ Goto(t, "register")
    /\ UNCHANGED <<runtimeVars, handleStates, mutex, arg, new, doomed, faults>>

\* RegisterHandleState: a handle that is still in the map throws, and the
\* object, still a child of its parent, is freed.
RegisterHandleState(t) ==
    /\ pc[t] = "register" /\ mutex = Null
    /\ IF handleStates[new[t]] # Null
       THEN /\ Fail(t, "abort")
            /\ Free(ptr[t])
            /\ UNCHANGED <<app, handleStates>>
       ELSE /\ handleStates' = [handleStates EXCEPT ![new[t]] = ptr[t]]
            /\ IF new[t] = Instance
               THEN Return(t) /\ app' = app \cup {Instance}
               ELSE Goto(t, "custom") /\ UNCHANGED <<callVars, app>>
            /\ UNCHANGED <<mutex, heap, stateKey, stateParent, customState, faults>>
    /\ UNCHANGED <<runtime, owner, children>>

\* GetSessionState(*session)->SetCustomState(...), and its like for the
\* other handles: only now does the application get the handle.
SetCustomState(t) ==
    /\ pc[t] = "custom" /\ mutex = Null
    /\ IF handleStates[new[t]] = Null
       THEN Fail(t, "handleInvalid") /\ UNCHANGED <<customState, app>>
       ELSE /\ Tag(handleStates[new[t]])
            /\ app' = app \cup {new[t]}
            /\ Return(t)
            /\ UNCHANGED <<mutex, faults>>
    /\ UNCHANGED <<runtime, owner, handleStates, heap, stateKey, stateParent, children>>

-----------------------------------------------------------------------------
(* xrDestroy*: the runtime destroys first, then the layer forgets.         *)

BeginDestroy(t, k) ==
    /\ pc[t] = "idle" /\ Usable(k) /\ Quiet(k)
    /\ mutex = Null
    /\ IF handleStates[k] = Null
       THEN Fail(t, "handleInvalid")
       ELSE /\ arg' = [arg EXCEPT ![t] = k]
            /\ Goto(t, "destroy")
            /\ UNCHANGED <<mutex, new, ptr, doomed, faults>>
    /\ UNCHANGED <<runtimeVars, handleStates, objectVars>>

\* The runtime destroys the handle and everything created from it.
RuntimeDestroy(t) ==
    /\ pc[t] = "destroy"
    /\ doomed' = [doomed EXCEPT ![t] = {k \in runtime : Within(k, arg[t])}]
    /\ runtime' = {k \in runtime : ~Within(k, arg[t])}
    /\ app' = {k \in app : ~Within(k, arg[t])}
    /\ Goto(t, "unregister")
    /\ UNCHANGED <<owner, handleStates, mutex, objectVars, arg, new, ptr, faults>>

RuntimeDestroyFails_Unchecked(t) ==
    /\ pc[t] = "destroy"
    /\ Goto(t, "unregister")
    /\ UNCHANGED <<runtimeVars, handleStates, mutex, objectVars, callVars, faults>>

\* The runtime's xrDestroy* fails: the layer keeps the handle.
RuntimeDestroyFails(t) ==
    /\ pc[t] = "destroy"
    /\ Return(t)
    /\ UNCHANGED <<runtimeVars, handleStates, mutex, objectVars, faults>>

\* UnregisterHandleState: take the mutex and find the handle.
UnregisterHandleState(t) ==
    /\ pc[t] = "unregister" /\ mutex = Null
    /\ IF handleStates[arg[t]] = Null
       THEN Fail(t, "abort")
       ELSE /\ mutex' = t
            /\ ptr' = [ptr EXCEPT ![t] = handleStates[arg[t]]]
            /\ Goto(t, "recurse")
            /\ UNCHANGED <<arg, new, doomed, faults>>
    /\ UNCHANGED <<runtimeVars, handleStates, objectVars>>

\* UnregisterHandleStateInternal, its loop: the recursive call on a child
\* finds the child's handle in the map.  The recursion's stack is the chain of
\* parents of ptr[t], up to the object of the handle being destroyed.
UnregisterChild(t, c) ==
    /\ pc[t] = "recurse" /\ c \in children[ptr[t]]
    /\ IF stateKey[c] = Null \/ handleStates[stateKey[c]] = Null
       THEN Fail(t, "abort")
       ELSE /\ ptr' = [ptr EXCEPT ![t] = handleStates[stateKey[c]]]
            /\ UNCHANGED <<pc, mutex, arg, new, doomed, faults>>
    /\ UNCHANGED <<runtimeVars, handleStates, objectVars>>

\* UnregisterHandleStateInternal, its end: an object without children leaves
\* its parent's list and the map, and the recursive call returns.
EraseSelf(t) ==
    LET o == ptr[t]
    IN  /\ pc[t] = "recurse" /\ NoChildLeft(o)
        /\ LeaveParent(o)
        /\ handleStates' = [handleStates EXCEPT ![stateKey[o]] = Null]
        /\ Free(o)
        /\ IF stateKey[o] = arg[t]
           THEN Return(t) /\ mutex' = Null
           ELSE /\ ptr' = [ptr EXCEPT ![t] = stateParent[o]]
                /\ UNCHANGED <<pc, mutex, arg, new, doomed>>
        /\ UNCHANGED <<runtimeVars, faults>>

-----------------------------------------------------------------------------
(* xrPollEvent.                                                            *)

BeginPoll(t) ==
    /\ pc[t] = "idle" /\ Usable(Instance)
    /\ mutex = Null
    /\ IF handleStates[Instance] = Null
       THEN Fail(t, "handleInvalid")
       ELSE /\ arg' = [arg EXCEPT ![t] = Instance]
            /\ Goto(t, "poll")
            /\ UNCHANGED <<mutex, new, ptr, doomed, faults>>
    /\ UNCHANGED <<runtimeVars, handleStates, objectVars>>

\* XR_EVENT_UNAVAILABLE: under the instance's childrenMutex, every child
\* session's custom state is dereferenced.
PollUnavailable(t) ==
    LET polled == {c \in children[handleStates[Instance]] : stateKey[c] \in Sessions}
    IN  /\ pc[t] = "poll" /\ mutex = Null
        /\ IF \A c \in polled : customState[c]
           THEN Return(t) /\ UNCHANGED <<mutex, faults>>
           ELSE Fail(t, "nullDeref")
        /\ UNCHANGED <<runtimeVars, handleStates, objectVars>>

\* The runtime returns an event it has queued for a session.
PollSessionEvent(t, s) ==
    /\ pc[t] = "poll" /\ s \in runtime \cap Sessions
    /\ new' = [new EXCEPT ![t] = s]
    /\ Goto(t, "event")
    /\ UNCHANGED <<runtimeVars, handleStates, mutex, objectVars, arg, ptr, doomed, faults>>

\* checkEventPayload looks the session up; xrPollEvent catches the exception
\* and reports the runtime as nonconformant.
FindEventSession(t) ==
    /\ pc[t] = "event" /\ mutex = Null
    /\ IF handleStates[new[t]] = Null
       THEN Fail(t, "untrackedEvent")
       ELSE /\ ptr' = [ptr EXCEPT ![t] = handleStates[new[t]]]
            /\ Goto(t, "payload")
            /\ UNCHANGED <<mutex, arg, new, doomed, faults>>
    /\ UNCHANGED <<runtimeVars, handleStates, objectVars>>

\* The event's checks use the custom state of the object they were given.
CheckEventPayload(t) ==
    /\ pc[t] = "payload"
    /\ IF ptr[t] \notin heap THEN Fail(t, "useAfterFree")
       ELSE IF ~customState[ptr[t]] THEN Fail(t, "nullDeref")
       ELSE Return(t) /\ UNCHANGED <<mutex, faults>>
    /\ UNCHANGED <<runtimeVars, handleStates, objectVars>>

-----------------------------------------------------------------------------

Create(t) ==
    \/ \E o \in Objects : CreateInstance(t, o) \/ CloneForChild(t, o)
    \/ \E k \in Handles : BeginCreate(t, k) \/ RuntimeCreate(t, k)
    \/ RuntimeCreateFails(t) \/ FindParent(t) \/ RegisterHandleState(t) \/ SetCustomState(t)

Destroy(t) ==
    \/ \E k \in Handles : BeginDestroy(t, k)
    \/ RuntimeDestroy(t) \/ RuntimeDestroyFails(t) \/ UnregisterHandleState(t)
    \/ \E c \in Objects : UnregisterChild(t, c)
    \/ EraseSelf(t)

PollEvent(t) ==
    \/ BeginPoll(t) \/ PollUnavailable(t) \/ FindEventSession(t) \/ CheckEventPayload(t)
    \/ \E s \in Sessions : PollSessionEvent(t, s)

Next ==
    /\ Running
    /\ \E t \in Threads : Create(t) \/ Destroy(t) \/ PollEvent(t)
    /\ churned' = (churned \/ SessionChurn')

Spec == Init /\ [][Next]_vars

-----------------------------------------------------------------------------
(* Correctness.                                                            *)

\* No exception reaches ABI_CATCH as the "catastrophic error in the layer (a
\* bug)" of template_gen_dispatch.cpp: every handle is registered once and
\* unregistered once.
NoAbort == "abort" \notin faults

\* The custom state of a session the layer reaches is set.
NoNullDeref == "nullDeref" \notin faults

\* With a runtime that does not reuse values early and an application that has
\* not polled while another thread created or destroyed a session, nothing goes
\* wrong: no abort, no bad access, no event of a session called untracked, and
\* no call on a handle that the application may use answered HANDLE_INVALID.
NoFault == ~churned => faults = {}

\* The objects form the tree of the handles: the map's entry of a handle is the
\* object of that handle, and a list of children holds exactly the objects
\* that have this object as parent, none of them freed.
RegistryWellFormed ==
    /\ \A k \in Handles : handleStates[k] # Null =>
          handleStates[k] \in heap /\ stateKey[handleStates[k]] = k
    /\ \A o \in heap : children[o] = {c \in heap : stateParent[c] = o}

\* A handle that the application may pass to a call is in the map, with its
\* custom state.
UsableHandlesResolve ==
    \A k \in app : Usable(k) =>
        handleStates[k] # Null /\ (k # Instance => customState[handleStates[k]])

\* When no call is in progress the layer tracks the runtime's handles, no more
\* and no less, and no object has leaked.
QuiescentAgreement ==
    (\A t \in Threads : pc[t] = "idle") =>
        /\ {k \in Handles : handleStates[k] # Null} = runtime
        /\ heap = {handleStates[k] : k \in runtime}

\* The map loses a handle only to a call that has destroyed that handle in the
\* runtime, and when such a call returns it has removed all it destroyed.
DestroyIsExact ==
    [][\A k \in Handles : handleStates[k] # Null =>
          IF handleStates'[k] = Null
          THEN \E t \in Threads : pc[t] = "recurse" /\ k \in doomed[t]
          ELSE \A t \in Threads : pc[t] = "recurse" /\ pc'[t] = "idle" => k \notin doomed[t]
      ]_vars

\* The tree of handles the map stands for, and the tree it should implement.
treeBar == [k \in Handles |->
    IF handleStates[k] = Null THEN [registered |-> FALSE, parent |-> Null]
    ELSE [registered |-> TRUE,
          parent |-> IF stateParent[handleStates[k]] = Null THEN Null
                     ELSE stateKey[stateParent[handleStates[k]]]]]

Tree == INSTANCE HandleTree WITH tree <- treeBar

\* The steps of registration and of the recursive unregistration implement
\* single insertions and removals of leaves of a tree.
ImplementsTree == Tree!Spec
=============================================================================
