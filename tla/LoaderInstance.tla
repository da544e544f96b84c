---------------------------- MODULE LoaderInstance ----------------------------
(***************************************************************************)
(* The OpenXR loader's one instance: xrCreateInstance, xrDestroyInstance    *)
(* and xrEnumerateInstanceExtensionProperties, which load and unload the    *)
(* runtime and the API layers under the global loader mutex                 *)
(* (loader_core.cpp, runtime_interface.cpp, loader_instance.cpp, and        *)
(* ApiLayers for api_layer_interface.cpp), and the debug messengers of the  *)
(* instance, which have locks of their own (loader_logger.cpp).             *)
(*                                                                         *)
(* The application keeps the rules of the API: it does not use an instance  *)
(* or a messenger while it destroys it.                                    *)
(***************************************************************************)
EXTENDS ApiLayers

CONSTANTS
    Threads,           \* application threads
    Instances,         \* values an XrInstance handle may take
    Messengers,        \* values an XrDebugUtilsMessengerEXT handle may take
    Requests,          \* create infos, each with the environment it is met in
    Null

ASSUME ConstantsAssumption == Null \notin Threads \cup Instances \cup Messengers
ASSUME RequestsAssumption ==
    Requests \subseteq [environment : Environments, named : Seq(STRING), layers : Seq(STRING),
                       extensions : Seq(STRING)]

VARIABLES
    \* The runtime, and what the application has been given.
    rtInstances,       \* instances that are alive in the runtime
    rtMessengers,      \* messengers that are alive
    app,               \* the instance the application may use
    appMessengers,     \* the messengers it may destroy
    \* The loader.
    loaderMutex,       \* holder of GetGlobalLoaderMutex
    current,           \* the handle of the active LoaderInstance
    defaultMessenger,  \* LoaderInstance::_messenger
    runtimeLoaded,     \* is there a RuntimeInterface?
    dispatchTables,    \* RuntimeInterface::_dispatch_table_map
    messengerOf,       \* RuntimeInterface::_messenger_to_instance_map
    recorders,         \* LoaderLogger::_recorders of messengers
    recordersByInstance,
    layers,            \* the API layers of the active or coming instance
    libraries,         \* how often the library of each layer is open
    \* The calls in progress.
    pc, new, messenger,
    request,           \* the create info in use, and how each library behaves
    nullDeref,         \* has a missing runtime or dispatch table been used?
    layerFailed        \* has a layer failed a call that it did or did not forward?

rtVars == <<rtInstances, rtMessengers>>
appVars == <<app, appMessengers>>
activeVars == <<current, defaultMessenger>>
runtimeVars == <<runtimeLoaded, dispatchTables, messengerOf>>
loggerVars == <<recorders, recordersByInstance>>
layerVars == <<layers, libraries, request>>
vars == <<rtInstances, rtMessengers, app, appMessengers, loaderMutex, current,
          defaultMessenger, runtimeLoaded, dispatchTables, messengerOf, recorders,
          recordersByInstance, layers, libraries, pc, new, messenger, request, nullDeref,
          layerFailed>>

TypeOK ==
    /\ rtInstances \subseteq Instances /\ rtMessengers \subseteq Messengers
    /\ app \in Instances \cup {Null} /\ appMessengers \subseteq Messengers
    /\ loaderMutex \in Threads \cup {Null}
    /\ current \in Instances \cup {Null}
    /\ defaultMessenger \in Messengers \cup {Null}
    /\ runtimeLoaded \in BOOLEAN
    /\ dispatchTables \subseteq Instances
    /\ messengerOf \in [Messengers -> Instances \cup {Null}]
    /\ recorders \subseteq Messengers
    /\ recordersByInstance \in [Instances -> SUBSET Messengers]
    /\ layers \in Seq(Manifests) /\ libraries \in [Manifests -> Nat]
    /\ request # Null => request.outcome \in [Manifests -> Outcomes]
    /\ pc \in [Threads -> {"idle", "create", "layers", "chain", "unwind", "messenger", "failed",
                           "destroy", "destroyed", "enumerate", "properties",
                           "addRecorder", "track", "removeRecorder", "forget", "release"}]
    /\ new \in [Threads -> Instances \cup {Null}]
    /\ messenger \in [Threads -> Messengers \cup {Null}]
    /\ nullDeref \in BOOLEAN /\ layerFailed \in BOOLEAN

Init ==
    /\ rtInstances = {} /\ rtMessengers = {}
    /\ app = Null /\ appMessengers = {}
    /\ loaderMutex = Null /\ current = Null /\ defaultMessenger = Null
    /\ runtimeLoaded = FALSE /\ dispatchTables = {}
    /\ messengerOf = [m \in Messengers |-> Null]
    /\ recorders = {}
    /\ recordersByInstance = [i \in Instances |-> {}]
    /\ layers = <<>> /\ libraries = [f \in Manifests |-> 0] /\ request = Null
    /\ pc = [t \in Threads |-> "idle"]
    /\ new = [t \in Threads |-> Null]
    /\ messenger = [t \in Threads |-> Null]
    /\ nullDeref = FALSE /\ layerFailed = FALSE

-----------------------------------------------------------------------------
(* Parts of several calls.                                                 *)

Goto(t, step) == pc' = [pc EXCEPT ![t] = step]

Return(t) ==
    /\ Goto(t, "idle")
    /\ new' = [new EXCEPT ![t] = Null]
    /\ messenger' = [messenger EXCEPT ![t] = Null]
    /\ loaderMutex' = IF loaderMutex = t THEN Null ELSE loaderMutex
    /\ request' = IF loaderMutex = t THEN Null ELSE request

Enter(t, step) ==
    /\ pc[t] = "idle" /\ loaderMutex = Null
    /\ loaderMutex' = t
    /\ Goto(t, step)

\* RuntimeInterface::LoadRuntime and UnloadRuntime.  The interface's maps go
\* with it.
LoadRuntime == runtimeLoaded' = TRUE /\ UNCHANGED <<dispatchTables, messengerOf>>

UnloadRuntime_Kept == UNCHANGED runtimeVars
UnloadRuntime ==
    /\ runtimeLoaded' = FALSE /\ dispatchTables' = {}
    /\ messengerOf' = [m \in Messengers |-> Null]

\* The destructors of the ApiLayerInterfaces.
DropLayers == layers' = <<>> /\ libraries' = CloseLibraries(libraries, layers)

\* ActiveLoaderInstance::Remove.
RemoveActive == current' = Null /\ defaultMessenger' = Null /\ DropLayers

\* The dispatch table of an instance, or a null pointer that is dereferenced.
Dispatch(i) == nullDeref' = (nullDeref \/ ~runtimeLoaded \/ i \notin dispatchTables)

-----------------------------------------------------------------------------
(* xrCreateInstance.                                                       *)

EnterCreate(t) ==
    /\ Enter(t, "create")
    /\ UNCHANGED <<layerVars, rtVars, appVars, activeVars, runtimeVars, loggerVars, new, messenger, nullDeref>>

\* An instance is alive already: XR_ERROR_LIMIT_REACHED, and nothing is cleaned up.
CreateRejected(t) ==
    /\ pc[t] = "create" /\ current # Null
    /\ Return(t)
    /\ UNCHANGED <<layers, libraries, rtVars, appVars, activeVars, runtimeVars, loggerVars, nullDeref>>

CreateLoadsRuntime(t) ==
    /\ pc[t] = "create" /\ current = Null
    /\ LoadRuntime
    /\ Goto(t, "layers")
    /\ UNCHANGED <<layerVars, rtVars, appVars, activeVars, loggerVars, loaderMutex, new, messenger, nullDeref>>

\* No runtime can be loaded, or the create info is invalid.
CreateFails(t) ==
    /\ \/ pc[t] = "create" /\ current = Null /\ ~runtimeLoaded
       \/ pc[t] = "layers"
    /\ Goto(t, "failed")
    /\ UNCHANGED <<layerVars, rtVars, appVars, activeVars, runtimeVars, loggerVars, loaderMutex, new,
                   messenger, nullDeref>>

\* Which layers are found depends on the request and nothing else.
Searches == {[request |-> r, found |-> FindLayers(r)] : r \in Requests}

\* ApiLayerInterface::LoadApiLayers, for a request whose libraries behave in one
\* way or another.
LoadApiLayers(t) ==
    /\ pc[t] = "layers"
    /\ \E s \in Searches :
       \E outcome \in [ToSet(s.found.files) -> Outcomes] :
           LET r      == s.request
               full   == [f \in Manifests |->
                              IF f \in DOMAIN outcome THEN outcome[f] ELSE "loaded"]
               loaded == LoadLayers(s.found, full, libraries)
           IN  /\ request' = [environment |-> r.environment, named |-> r.named,
                              layers |-> r.layers, extensions |-> r.extensions,
                              outcome |-> full]
               /\ layers' = loaded.layers /\ libraries' = loaded.libraries
               /\ Goto(t, IF loaded.failed THEN "failed" ELSE "chain")
    /\ UNCHANGED <<rtVars, appVars, activeVars, runtimeVars, loggerVars, loaderMutex, new,
                   messenger, nullDeref>>

\* Nobody supports an extension, or a layer or the runtime refuses.
ChainFails(t) ==
    /\ pc[t] = "chain"
    /\ DropLayers
    /\ Goto(t, "failed")
    /\ UNCHANGED <<rtVars, appVars, activeVars, runtimeVars, loggerVars, loaderMutex, new,
                   messenger, request, nullDeref>>

\* The runtime refuses an extension that it does not know.
ChainSucceeds ==
    /\ Supported(request.extensions, layers)
    /\ ToSet(AskedOfRuntime(request.extensions, layers)) \subseteq RuntimeExtensions

\* The table is stored under the handle that the runtime has returned.
AddDispatchTable_Early(t, i) == dispatchTables' = dispatchTables \cup {new[t]}
AddDispatchTable(t, i) == dispatchTables' = dispatchTables \cup {i}

\* Through the layers to the terminator, which creates the runtime's instance.
TermCreateInstance(t, i) ==
    /\ pc[t] = "chain" /\ ChainSucceeds /\ i \notin rtInstances
    /\ rtInstances' = rtInstances \cup {i}
    /\ AddDispatchTable(t, i)
    /\ new' = [new EXCEPT ![t] = i]
    /\ Goto(t, "unwind")
    /\ UNCHANGED <<layerVars, rtMessengers, appVars, activeVars, runtimeLoaded, messengerOf, loggerVars,
                   loaderMutex, messenger, nullDeref>>

\* A layer, such as the conformance layer in ConformanceLayer_RegisterInstance,
\* fails after the call it forwarded has succeeded.
LayerFails(t) ==
    /\ pc[t] = "unwind"
    /\ DropLayers
    /\ Goto(t, "failed")
    /\ UNCHANGED <<rtVars, appVars, activeVars, runtimeVars, loggerVars, loaderMutex, new,
                   messenger, request, nullDeref>>

\* ActiveLoaderInstance::Set; the instance goes to the application, or first
\* gets the messenger chained to its create info.
SetActive(t) ==
    /\ pc[t] = "unwind"
    /\ current' = new[t]
    /\ \/ Return(t) /\ app' = new[t]
       \/ Goto(t, "messenger") /\ UNCHANGED <<app, new, messenger, loaderMutex, request>>
    /\ UNCHANGED <<layers, libraries, rtVars, appMessengers, defaultMessenger, runtimeVars, loggerVars, nullDeref>>

\* The chained messenger is created, recorded and tracked in one go: nobody else
\* has the instance yet.
CreateDefaultMessenger(t, m) ==
    /\ pc[t] = "messenger" /\ m \notin rtMessengers
    /\ Dispatch(current)
    /\ rtMessengers' = rtMessengers \cup {m}
    /\ recorders' = recorders \cup {m}
    /\ recordersByInstance' = [recordersByInstance EXCEPT ![current] = @ \cup {m}]
    /\ messengerOf' = [messengerOf EXCEPT ![m] = current]
    /\ defaultMessenger' = m
    /\ app' = new[t]
    /\ Return(t)
    /\ UNCHANGED <<layers, libraries, rtInstances, appMessengers, current, runtimeLoaded, dispatchTables>>

\* The chained messenger fails: an early return.
DefaultMessengerFails(t) ==
    /\ pc[t] = "messenger"
    /\ Dispatch(current)
    /\ Return(t)
    /\ UNCHANGED <<layers, libraries, rtVars, appVars, activeVars, runtimeVars, loggerVars>>

\* The clean-up of a failed creation.
CleanUp(t) ==
    /\ pc[t] = "failed"
    /\ RemoveActive
    /\ UnloadRuntime
    /\ Return(t)
    /\ UNCHANGED <<rtVars, appVars, loggerVars, nullDeref>>

-----------------------------------------------------------------------------
(* xrDestroyInstance.                                                      *)

UsingInstance(u) == pc[u] \in {"addRecorder", "track", "removeRecorder", "forget", "release"}

EnterDestroy(t) ==
    /\ app # Null /\ \A u \in Threads : ~UsingInstance(u)
    /\ Enter(t, "destroy")
    /\ new' = [new EXCEPT ![t] = app]
    /\ app' = Null /\ appMessengers' = {}
    /\ UNCHANGED <<layerVars, rtVars, activeVars, runtimeVars, loggerVars, messenger, nullDeref>>

\* The default messenger, if there is one, is destroyed first.
DestroyDefaultMessenger(t) ==
    /\ pc[t] = "destroy" /\ defaultMessenger \in rtMessengers
    /\ Dispatch(messengerOf[defaultMessenger])
    /\ recorders' = recorders \ {defaultMessenger}
    /\ recordersByInstance' = [i \in Instances |-> recordersByInstance[i] \ {defaultMessenger}]
    /\ messengerOf' = [messengerOf EXCEPT ![defaultMessenger] = Null]
    /\ rtMessengers' = rtMessengers \ {defaultMessenger}
    /\ UNCHANGED <<layerVars, rtInstances, appVars, activeVars, runtimeLoaded, dispatchTables, loaderMutex,
                   pc, new, messenger>>

\* LoaderLogger::RemoveLogRecordersForXrInstance.
RemoveLogRecorders(i) ==
    /\ recorders' = recorders \ recordersByInstance[i]
    /\ recordersByInstance' = [recordersByInstance EXCEPT ![i] = {}]

\* The terminator of xrDestroyInstance; the runtime destroys the instance with
\* its messengers.
TermDestroyInstance(t) ==
    /\ pc[t] = "destroy" /\ defaultMessenger \notin rtMessengers
    /\ RemoveLogRecorders(new[t])
    /\ dispatchTables' = dispatchTables \ {new[t]}
    /\ rtInstances' = rtInstances \ {new[t]}
    /\ rtMessengers' = {m \in rtMessengers : messengerOf[m] # new[t]}
    /\ nullDeref' = (nullDeref \/ ~runtimeLoaded)
    /\ Goto(t, "destroyed")
    /\ UNCHANGED <<layerVars, appVars, activeVars, runtimeLoaded, messengerOf, loaderMutex, new, messenger>>

\* A layer fails xrDestroyInstance without forwarding it: that is only logged.
LayerFailsDestroy(t) ==
    /\ pc[t] = "destroy" /\ defaultMessenger \notin rtMessengers
    /\ Goto(t, "destroyed")
    /\ UNCHANGED <<layerVars, rtVars, appVars, activeVars, runtimeVars, loggerVars, loaderMutex, new,
                   messenger, nullDeref>>

FinishDestroy(t) ==
    /\ pc[t] = "destroyed"
    /\ RemoveActive
    /\ UnloadRuntime
    /\ Return(t)
    /\ UNCHANGED <<rtVars, appVars, loggerVars, nullDeref>>

-----------------------------------------------------------------------------
(* xrEnumerateInstanceExtensionProperties.                                 *)

EnterEnumerate_Unlocked(t) ==
    /\ pc[t] = "idle"
    /\ Goto(t, "enumerate")
    /\ UNCHANGED <<rtVars, appVars, activeVars, runtimeVars, loggerVars, loaderMutex, new,
                   messenger, nullDeref>>

EnterEnumerate(t) ==
    /\ Enter(t, "enumerate")
    /\ UNCHANGED <<rtVars, appVars, activeVars, runtimeVars, loggerVars, new, messenger, nullDeref>>

\* Loads the runtime if none is loaded; it stays loaded.
EnumerateLoadsRuntime(t) ==
    /\ pc[t] = "enumerate"
    /\ LoadRuntime
    /\ Goto(t, "properties")
    /\ UNCHANGED <<rtVars, appVars, activeVars, loggerVars, loaderMutex, new, messenger, nullDeref>>

\* The layers' properties cannot be read, only those of one layer are wanted, or
\* the runtime cannot be loaded.
EnumerateWithoutRuntime(t) ==
    /\ pc[t] = "enumerate"
    /\ Return(t)
    /\ UNCHANGED <<rtVars, appVars, activeVars, runtimeVars, loggerVars, nullDeref>>

EnumerateProperties(t) ==
    /\ pc[t] = "properties"
    /\ nullDeref' = (nullDeref \/ ~runtimeLoaded)
    /\ Return(t)
    /\ UNCHANGED <<rtVars, appVars, activeVars, runtimeVars, loggerVars>>

-----------------------------------------------------------------------------
(* Messengers of the application, created and destroyed outside the mutex.  *)

CreateMessenger(t, m) ==
    /\ pc[t] = "idle" /\ app # Null /\ m \notin rtMessengers
    /\ Dispatch(app)
    /\ rtMessengers' = rtMessengers \cup {m}
    /\ new' = [new EXCEPT ![t] = app]
    /\ messenger' = [messenger EXCEPT ![t] = m]
    /\ Goto(t, "addRecorder")
    /\ UNCHANGED <<rtInstances, appVars, activeVars, runtimeVars, loggerVars, loaderMutex>>

AddLogRecorder(t) ==
    /\ pc[t] = "addRecorder"
    /\ recorders' = recorders \cup {messenger[t]}
    /\ recordersByInstance' = [recordersByInstance EXCEPT ![new[t]] = @ \cup {messenger[t]}]
    /\ Goto(t, "track")
    /\ UNCHANGED <<rtVars, appVars, activeVars, runtimeVars, loaderMutex, new, messenger, nullDeref>>

TrackDebugMessenger(t) ==
    /\ pc[t] = "track"
    /\ messengerOf' = [messengerOf EXCEPT ![messenger[t]] = new[t]]
    /\ nullDeref' = (nullDeref \/ ~runtimeLoaded)
    /\ appMessengers' = appMessengers \cup {messenger[t]}
    /\ Return(t)
    /\ UNCHANGED <<rtVars, app, activeVars, runtimeLoaded, dispatchTables, loggerVars>>

DestroyMessenger(t, m) ==
    /\ pc[t] = "idle" /\ m \in appMessengers
    /\ Dispatch(messengerOf[m])
    /\ appMessengers' = appMessengers \ {m}
    /\ messenger' = [messenger EXCEPT ![t] = m]
    /\ Goto(t, "removeRecorder")
    /\ UNCHANGED <<rtVars, app, activeVars, runtimeVars, loggerVars, loaderMutex, new>>

RemoveLogRecorder(t) ==
    /\ pc[t] = "removeRecorder"
    /\ recorders' = recorders \ {messenger[t]}
    /\ recordersByInstance' = [i \in Instances |-> recordersByInstance[i] \ {messenger[t]}]
    /\ Goto(t, "forget")
    /\ UNCHANGED <<rtVars, appVars, activeVars, runtimeVars, loaderMutex, new, messenger, nullDeref>>

ForgetDebugMessenger(t) ==
    /\ pc[t] = "forget"
    /\ messengerOf' = [messengerOf EXCEPT ![messenger[t]] = Null]
    /\ nullDeref' = (nullDeref \/ ~runtimeLoaded)
    /\ Goto(t, "release")
    /\ UNCHANGED <<rtVars, appVars, activeVars, runtimeLoaded, dispatchTables, loggerVars,
                   loaderMutex, new, messenger>>

ReleaseMessenger(t) ==
    /\ pc[t] = "release"
    /\ rtMessengers' = rtMessengers \ {messenger[t]}
    /\ Return(t)
    /\ UNCHANGED <<rtInstances, appVars, activeVars, runtimeVars, loggerVars, nullDeref>>

-----------------------------------------------------------------------------

Create(t) ==
    \/ EnterCreate(t) \/ CreateRejected(t) \/ CreateLoadsRuntime(t) \/ CreateFails(t)
    \/ LoadApiLayers(t) \/ ChainFails(t)
    \/ \E i \in Instances : TermCreateInstance(t, i)
    \/ SetActive(t) \/ CleanUp(t)
    \/ \E m \in Messengers : CreateDefaultMessenger(t, m)
    \/ DefaultMessengerFails(t)

Destroy(t) ==
    \/ EnterDestroy(t) \/ DestroyDefaultMessenger(t)
    \/ TermDestroyInstance(t) \/ FinishDestroy(t)

Enumerate(t) ==
    \/ EnterEnumerate(t) \/ EnumerateLoadsRuntime(t)
    \/ EnumerateWithoutRuntime(t) \/ EnumerateProperties(t)

Messenger(t) ==
    \/ \E m \in Messengers : CreateMessenger(t, m) \/ DestroyMessenger(t, m)
    \/ AddLogRecorder(t) \/ TrackDebugMessenger(t)
    \/ RemoveLogRecorder(t) \/ ForgetDebugMessenger(t) \/ ReleaseMessenger(t)

LayerFailure(t) == LayerFails(t) \/ LayerFailsDestroy(t)

Next ==
    \E t \in Threads :
        \/ LayerFailure(t) /\ layerFailed' = TRUE
        \/ /\ \/ Create(t) \/ Destroy(t)
              \/ (Enumerate(t) \/ Messenger(t)) /\ UNCHANGED layerVars
           /\ UNCHANGED layerFailed

Spec == Init /\ [][Next]_vars

-----------------------------------------------------------------------------
(* Correctness.                                                            *)

Quiet == \A t \in Threads : pc[t] = "idle"

\* The runtime is loaded as long as an instance is active or in the hands of the
\* application or the runtime's extensions are being read, whatever creations
\* are rejected or fail meanwhile.
RuntimeStaysLoaded ==
    /\ current # Null \/ app # Null => runtimeLoaded
    /\ \A t \in Threads : pc[t] = "properties" => runtimeLoaded

\* No call goes through a missing dispatch table or an unloaded runtime.
NoNullDeref == ~nullDeref

\* A recorder, which calls the application back, belongs to a messenger that
\* has not been destroyed.
RecordersAlive == recorders \subseteq rtMessengers

\* Nothing is used after it is gone: the runtime and its tables by the entry points of
\* loader_core.cpp, the application's callbacks by the recorders of loader_logger.cpp.
NothingUsedGone == RuntimeStaysLoaded /\ NoNullDeref /\ RecordersAlive

\* Between calls the loader has a dispatch table for its one instance, which is
\* the application's, and a recorder for each messenger alive in the runtime;
\* it tracks just the messengers the application or the instance has.  A layer
\* that fails may leave behind an instance, and messengers, of the runtime.
QuiescentAgreement ==
    Quiet =>
        /\ app \in {current, Null}
        /\ runtimeLoaded \/ current = Null
        /\ dispatchTables = {current} \ {Null} /\ dispatchTables \subseteq rtInstances
        /\ recorders = rtMessengers
        /\ recorders = UNION {recordersByInstance[i] : i \in Instances}
        /\ {m \in Messengers : messengerOf[m] # Null}
             = appMessengers \cup ({defaultMessenger} \ {Null})
        /\ \A m \in Messengers : messengerOf[m] # Null => messengerOf[m] = current
        /\ ~layerFailed =>
               /\ rtInstances = dispatchTables
               /\ recorders = {m \in Messengers : messengerOf[m] # Null}

\* Layers belong to the active instance, or to one that is being created: whatever
\* becomes of the creation and of the runtime, they do not outlive it.
LayersOwned ==
    layers # <<>> =>
        current # Null \/ \E t \in Threads : pc[t] \in {"chain", "unwind"}

\* The library of a layer is open as long as the layer is in use, and no longer:
\* whatever becomes of the others.
LibrariesAgree ==
    /\ \A f \in Manifests :
           libraries[f] = Cardinality({i \in DOMAIN layers : layers[i] = f})
    /\ LayersOwned

\* What a chain of layers consists of: every enabled implicit layer and every
\* layer asked for, an implicit file before an explicit one of the same name, each
\* file as often as its directory is listed, however often it is named; only those
\* are missing that could not be loaded while another could.
LayersExplained ==
    \A t \in Threads : pc[t] = "chain" =>
        LET asked       == ToSet(request.named) \cup ToSet(request.layers)
            variables   == request.environment.variables
            Found(kind) == {f \in Manifests :
                               f.valid /\ f.dir \in ToSet(SearchPath(request.environment.lists, kind))}
            implicit    == {f \in Found(Implicit) :
                               f.disable \notin variables /\ f.enable \in variables \cup {Unset}}
            explicit    == {f \in Found(Explicit) :
                               f.name \in asked \ {g.name : g \in implicit}}
            Listed(f)   == LET path == SearchPath(request.environment.lists,
                                                  IF f \in implicit THEN Implicit ELSE Explicit)
                           IN  Cardinality({i \in DOMAIN path : path[i] = f.dir})
        IN  /\ asked \subseteq {f.name : f \in implicit \cup explicit}
            /\ \A f \in Manifests :
                   Cardinality({i \in DOMAIN layers : layers[i] = f})
                       = IF f \in implicit \cup explicit /\ request.outcome[f] = "loaded"
                         THEN Listed(f) ELSE 0
            /\ layers = <<>> => implicit \cup explicit = {}

\* The directories of a list are searched in its order, and no others; but the
\* root is if an entry before the last is empty, and is not if it is the whole list.
SearchExplained ==
    \A t \in Threads : pc[t] = "chain" =>
        \A list \in Range(request.environment.lists) :
            LET Named(e)  == e # Empty
                NotRoot(e) == e # Root
                listed    == Kept(list, Named)
                path      == CopyIncludedPaths(list, <<>>)
                searched  == [i \in DOMAIN path |-> path[i][1]]
            IN  \/ searched = listed
                \/ /\ \E i \in DOMAIN list : i < Len(list) /\ list[i] = Empty
                   /\ Kept(searched, NotRoot) = Kept(listed, NotRoot)
                \/ list = <<Root>> /\ searched = <<>>

\* What manifest_file.cpp finds of layers and api_layer_interface.cpp keeps of them, in
\* chains and in libraries.
LayersAgree == SearchExplained /\ LayersExplained /\ LibrariesAgree

\* An extension that is reported to the application is accepted from it: no layer
\* and no filter of the loader makes the creation fail, if the libraries load, an
\* implicit layer does not hide an explicit one, and nothing is named twice.
ReportedIsAccepted ==
    \A t \in Threads :
        LET reported == ReportedFiles(request.environment, request.named)
            hidden   == {f \in ToSet(reported) :
                             \E g \in ToSet(FindManifestFiles(Implicit, request.environment)) :
                                 f # g /\ f.name = g.name}
        IN  /\ pc[t] = "chain"
            /\ \A f \in Manifests : request.outcome[f] = "loaded"
            /\ hidden = {} /\ IsInjective(request.extensions)
            /\ ToSet(request.extensions)
                  \subseteq RuntimeExtensions \cup {DebugUtils} \cup ExtensionsOf(reported)
            => ChainSucceeds
=============================================================================
