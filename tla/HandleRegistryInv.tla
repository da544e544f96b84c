-------------------------- MODULE HandleRegistryInv --------------------------
(***************************************************************************)
(* The inductive invariant of HandleRegistry: what is true of the calls in *)
(* progress, of the handles being destroyed and of the objects in every    *)
(* state, so that no step of any thread can break the registry.            *)
(***************************************************************************)
EXTENDS HandleRegistry

Making(t) == pc[t] \in {"findParent", "clone", "register", "custom"}
Fresh(t) == pc[t] \in {"findParent", "clone", "register"}
Dooming(t) == pc[t] \in {"unregister", "recurse"}

\* The data of a call fit the place where it is: what xrCreate* got from the
\* runtime is not yet known to anybody else, the object it registers is its own,
\* and a recursive unregistration stands on an object it has the right to erase.
CallOK(t) ==
    /\ pc[t] = "create" \/ Making(t) => arg[t] \in {Instance} \cup Sessions
    /\ pc[t] = "create" \/ (Making(t) /\ new[t] # Instance) => arg[t] \in app
    /\ Making(t) =>
          /\ new[t] \in runtime \ app
          /\ new[t] = Instance => pc[t] = "register"
          /\ new[t] # Instance => owner[new[t]] = arg[t]
    /\ Fresh(t) => handleStates[new[t]] = Null
    /\ pc[t] = "custom" => handleStates[new[t]] # Null
    /\ pc[t] = "clone" => ptr[t] = handleStates[arg[t]]
    /\ pc[t] = "register" => ptr[t] \in heap /\ stateKey[ptr[t]] = new[t]
    /\ pc[t] = "destroy" => arg[t] \in app
    /\ Dooming(t) => arg[t] \in doomed[t]
    /\ ~Dooming(t) => doomed[t] = {}
    /\ pc[t] = "recurse" =>
          /\ mutex = t /\ ptr[t] \in heap
          /\ stateKey[ptr[t]] \in doomed[t]
          /\ handleStates[stateKey[ptr[t]]] = ptr[t]
    /\ Polling(t) => arg[t] = Instance /\ arg[t] \in app
    /\ pc[t] \in {"event", "payload"} => new[t] \in Sessions
    /\ pc[t] = "payload" => ptr[t] \in Objects

CallInv == \A t \in Threads : CallOK(t)

\* The rules of the API keep calls apart from the destruction of their handles,
\* and the runtime does not give the same handle to two creating calls.
Apart(t, u) ==
    /\ pc[t] # "idle" /\ Destroying(u) => ~Within(arg[t], arg[u])
    /\ Making(t) /\ Making(u) => new[t] # new[u]

Isolation == \A t, u \in Threads : t # u => Apart(t, u)

\* The handles a call has destroyed in the runtime are a whole subtree, which
\* the layer still tracks until it starts to unregister it.
DoomOK(t) ==
    \A k \in doomed[t] :
        /\ k \notin runtime /\ Within(k, arg[t])
        /\ k # arg[t] => owner[k] \in doomed[t]
        /\ pc[t] = "unregister" => handleStates[k] # Null

DoomInv == \A t \in Threads : DoomOK(t)

\* Handles that may be in the map: alive, or destroyed by a call in progress.
Known(k) == k \in runtime \/ \E t \in Threads : k \in doomed[t]

\* Sessions belong to the instance and leaves to sessions.
OwnerInv ==
    /\ app \subseteq runtime
    /\ \A k \in runtime : k # Instance => owner[k] \in runtime
    /\ \A k \in Handles : Known(k) =>
          /\ k \in Sessions => owner[k] = Instance
          /\ k \in Leaves => owner[k] \in Sessions

\* What the map holds is known, and a living handle is missing from it only
\* while its creating call is on its way to register it.
MapInv ==
    \A k \in Handles :
        /\ handleStates[k] # Null => Known(k)
        /\ k \in runtime /\ handleStates[k] = Null => \E t \in Threads : Fresh(t) /\ new[t] = k

\* Every object is in the map or about to be, under the object of its owner.
HeapInv ==
    \A o \in heap :
        /\ stateKey[o] \in Handles
        /\ handleStates[stateKey[o]] = o \/ \E t \in Threads : pc[t] = "register" /\ ptr[t] = o
        /\ stateKey[o] = Instance => stateParent[o] = Null
        /\ stateKey[o] # Instance =>
              stateParent[o] # Null /\ stateParent[o] = handleStates[owner[stateKey[o]]]

CustomInv == \A k \in app : k # Instance => customState[handleStates[k]]

FaultInv == "abort" \notin faults /\ "handleInvalid" \notin faults

Tracking == OwnerInv /\ MapInv /\ HeapInv /\ RegistryWellFormed /\ CustomInv

\* The inductive invariant: the calls in progress, the destructions in progress
\* and the objects agree with one another in every state.
IInv == TypeOK /\ CallInv /\ Isolation /\ DoomInv /\ Tracking /\ FaultInv
=============================================================================
