----------------------------- MODULE OpenGLPlugin -----------------------------
(***************************************************************************)
(* The OpenGL graphics plugin of the tests (on Windows and X11) and the     *)
(* OpenGL ES plugin (on Android), over their windows.  Names of OpenGL      *)
(* objects mean something only in the context that made them, and the same  *)
(* names come back in the next context; so every object is represented by   *)
(* the number of the window whose context made it, and 0 is no name.  What  *)
(* the plugins compute is left out, and so are calls without effect on this *)
(* state: a requirement query that fails, an InitializeDevice that keeps    *)
(* the device it has, CopyRGBAImage, the queries of formats.                *)
(***************************************************************************)
EXTENDS GpuWindow

CONSTANTS
    MaxWindows,        \* bound on the windows created
    MaxMade,           \* bound on the meshes, models and instances of a device
    MaxData,           \* bound on the image data adopted at a time
    MaxShutdowns       \* bound on the calls of ShutdownDevice that clear

ASSUME ConstantsAssumption == {MaxWindows, MaxMade, MaxData, MaxShutdowns} \subseteq Nat

VARIABLES
    platform,          \* the platform the plugin was built for
    \* InitializeDevice.
    pc,                \* "idle", or what InitializeDevice does next
    minVersion,        \* minApiVersionSupported
    deviceInitialized,
    contextVersion,    \* OpenGLVersionOfContext
    \* The system.
    windows,           \* what is held for each window, the plugin's last
    current,           \* the window whose context is bound to the thread, or 0
    \* The objects of the plugin.
    names,             \* m_swapchainFramebuffer, m_program and m_pbrResources
    made,              \* m_meshes, m_gltfModels and m_gltfInstances
    generation,        \* their m_generationNumber
    depthTextures,     \* the fallback depth texture of each adopted image data
    \* What has happened.
    handles,           \* the handles returned
    left,              \* windows InitializeDevice gave up or replaced in place
    foreignDeletes     \* <<window of an object, window it was deleted in>>

systemVars == <<windows, current>>
deviceVars == <<deviceInitialized, contextVersion>>
objectVars == <<names, made, generation, depthTextures>>
historyVars == <<handles, left, foreignDeletes>>
vars == <<platform, pc, minVersion, deviceInitialized, contextVersion, windows, current,
          names, made, generation, depthTextures, handles, left, foreignDeletes>>

Numbers == 0..MaxWindows
Versions == 1..2
\* In the order InitializeResources makes them, with the mesh of a cube before the last.
Names == <<"framebuffer", "program", "cube", "pbrResources">>
Kinds == {"mesh", "model", "instance"}
Handles == [kind : Kinds, index : 1..MaxMade, generation : 1..(MaxShutdowns + 1),
            window : Numbers]
Held == {"class", "window", "dc", "display", "visual", "colormap", "context"}

TypeOK ==
    /\ platform \in Platforms /\ pc \in {"idle", "window", "checks", "resources"}
    /\ {minVersion, contextVersion} \subseteq Versions /\ deviceInitialized \in BOOLEAN
    /\ windows \in Seq(SUBSET Held) /\ Len(windows) <= MaxWindows
    /\ current \in 0..Len(windows)
    /\ names \in [{"framebuffer", "program", "pbrResources"} -> Numbers]
    /\ DOMAIN made = Kinds
    /\ \A kind \in Kinds : made[kind] \in Seq(Numbers) /\ Len(made[kind]) <= MaxMade
    /\ generation \in 1..(MaxShutdowns + 1)
    /\ depthTextures \in Seq(Numbers) /\ Len(depthTextures) <= MaxData
    /\ handles \subseteq Handles
    /\ left \subseteq Numbers /\ foreignDeletes \subseteq Numbers \X Numbers

Init ==
    /\ platform \in Platforms
    /\ pc = "idle" /\ minVersion = 1 /\ deviceInitialized = FALSE /\ contextVersion = 1
    /\ windows = <<>> /\ current = 0
    /\ names = [name \in {"framebuffer", "program", "pbrResources"} |-> 0]
    /\ made = [kind \in Kinds |-> <<>>] /\ generation = 1
    /\ depthTextures = <<>>
    /\ handles = {} /\ left = {} /\ foreignDeletes = {}

This == Len(windows)
IsES == platform = "Android"

-----------------------------------------------------------------------------
(* Giving up objects and contexts.                                         *)

\* An object deleted in a context other than its own; without a context nothing is.
Foreign(objects) == {<<w, current>> : w \in objects \ {0, current}}
Deleted(objects) ==
    foreignDeletes' = foreignDeletes \cup (IF current = 0 THEN {} ELSE Foreign(objects))

Elements(seq) == {seq[n] : n \in DOMAIN seq}

\* The names of the framebuffer and the program are deleted and not forgotten.
Forgotten == [names EXCEPT !["pbrResources"] = 0]

ResetImageData == depthTextures' = <<>>

Clear_SameGeneration == made' = [kind \in Kinds |-> <<>>] /\ UNCHANGED generation
Clear == made' = [kind \in Kinds |-> <<>>] /\ generation' = generation + 1

DeleteObjects ==
    /\ generation <= MaxShutdowns
    /\ Deleted({names[name] : name \in DOMAIN names} \cup Elements(depthTextures)
               \cup UNION {Elements(made[kind]) : kind \in {"mesh", "instance"}})
    /\ names' = Forgotten
    /\ ResetImageData
    /\ Clear

\* Of a device that was initialized; of any other the window is left as it is.
deleteGLContext ==
    /\ IF deviceInitialized
       THEN /\ windows' = [windows EXCEPT ![This] = Destroy(platform, @)]
            /\ current' = 0
       ELSE UNCHANGED systemVars
    /\ deviceInitialized' = FALSE

\* The OpenGL ES plugin deletes nothing either when the device was not initialized.
ShutdownDevice ==
    /\ pc = "idle"
    /\ IF IsES => deviceInitialized THEN DeleteObjects
       ELSE UNCHANGED <<objectVars, foreignDeletes>>
    /\ deleteGLContext
    /\ UNCHANGED <<platform, pc, minVersion, contextVersion, handles, left>>

ClearSwapchainCache ==
    /\ pc = "idle"
    /\ Deleted(Elements(depthTextures))
    /\ ResetImageData
    /\ UNCHANGED <<platform, pc, minVersion, deviceVars, systemVars, names, made,
                   generation, handles, left>>

-----------------------------------------------------------------------------
(* InitializeDevice.                                                       *)

\* A device whose version is too low is replaced. The OpenGL plugin deletes its context
\* and keeps the objects; the OpenGL ES plugin shuts it down.
InitializeDevice(min) ==
    /\ pc = "idle" /\ Len(windows) < MaxWindows
    /\ deviceInitialized => contextVersion < min
    /\ minVersion' = min /\ pc' = "window"
    /\ IF IsES /\ deviceInitialized
       THEN DeleteObjects /\ UNCHANGED left
       ELSE /\ UNCHANGED <<objectVars, foreignDeletes>>
            /\ left' = IF deviceInitialized THEN left \cup {This} ELSE left
    /\ deleteGLContext
    /\ UNCHANGED <<platform, contextVersion, handles>>

\* A class of the application's name cannot be registered twice.
ClassTaken == platform = "Win32" /\ \E n \in DOMAIN windows : "class" \in windows[n]

\* When the window cannot be created, InitializeDevice throws. A context that could not
\* be made is no error here; making it current leaves none current.
CreateWindow(fails) ==
    LET window == Create(platform, fails)
    IN  /\ pc = "window"
        /\ ClassTaken => 1 \in fails
        /\ windows' = Append(windows, window.held)
        /\ IF window.created
           THEN /\ pc' = "checks"
                /\ current' = IF "context" \in window.held THEN Len(windows') ELSE 0
           ELSE pc' = "idle" /\ UNCHANGED current
        /\ UNCHANGED <<platform, minVersion, deviceVars, objectVars, historyVars>>

\* Left for good: deleteGLContext does nothing, as the device is not initialized yet.
GiveUp == pc' = "idle" /\ left' = left \cup {This}

\* The binding or an error is checked and throws, or the version cannot be asked for, or
\* it is too low. Without a context one of the checks throws.
CheckDevice ==
    /\ pc = "checks"
    /\ \/ GiveUp /\ UNCHANGED contextVersion
       \/ /\ current = This
          /\ contextVersion' \in Versions
          /\ IF contextVersion' < minVersion THEN GiveUp
             ELSE pc' = "resources" /\ UNCHANGED left
    /\ UNCHANGED <<platform, minVersion, deviceInitialized, systemVars, objectVars,
                   handles, foreignDeletes>>

MakeHandle_Next(kind) ==
    [kind |-> kind, index |-> Len(made[kind]) + 2, generation |-> generation, window |-> current]
MakeHandle(kind) ==
    [kind |-> kind, index |-> Len(made[kind]) + 1, generation |-> generation, window |-> current]

MakeObject(kind) ==
    /\ Len(made[kind]) < MaxMade
    /\ made' = [made EXCEPT ![kind] = Append(@, current)]
    /\ handles' = handles \cup {MakeHandle(kind)}

\* The first n of the names are made; then an exception ends InitializeDevice, or, with
\* all of them, the device is initialized. The renderer's resources of a device that
\* kept them are deleted when the new ones have been made.
InitializeResources(n) ==
    /\ pc = "resources"
    /\ names' = [name \in DOMAIN names |->
                   IF \E m \in 1..n : Names[m] = name THEN current ELSE names[name]]
    /\ IF n >= 3 THEN MakeObject("mesh") ELSE UNCHANGED <<made, handles>>
    /\ Deleted(IF n = 4 THEN {names["pbrResources"]} ELSE {})
    /\ \/ GiveUp /\ UNCHANGED deviceInitialized
       \/ n = 4 /\ deviceInitialized' = TRUE /\ pc' = "idle" /\ UNCHANGED left
    /\ UNCHANGED <<platform, minVersion, contextVersion, systemVars, generation, depthTextures>>

-----------------------------------------------------------------------------
(* Calls of a test that has a device and has bound its context.            *)

MayCall == pc = "idle" /\ deviceInitialized /\ current = This

\* Only the OpenGL plugin does anything here.
MakeCurrent(bindToThread) ==
    /\ pc = "idle" /\ ~IsES
    /\ windows # <<>> /\ "context" \in windows[This]
    /\ current' = IF bindToThread THEN This ELSE 0
    /\ UNCHANGED <<platform, pc, minVersion, deviceVars, windows, objectVars, historyVars>>

AllocateSwapchainImageData ==
    /\ pc = "idle" /\ Len(depthTextures) < MaxData
    /\ depthTextures' = Append(depthTextures, 0)
    /\ UNCHANGED <<platform, pc, minVersion, deviceVars, systemVars, names, made,
                   generation, historyVars>>

\* A handle resolves when its generation is that of the container and its index is
\* in bounds.
Resolves(handle) ==
    /\ handle.generation = generation
    /\ handle.index <= Len(made[handle.kind])

MakeSimpleMesh == MayCall /\ MakeObject("mesh")
LoadGLTF == MayCall /\ MakeObject("model")
CreateGLTFModelInstance(model) ==
    MayCall /\ model.kind = "model" /\ Resolves(model) /\ MakeObject("instance")

Make ==
    /\ \/ MakeSimpleMesh
       \/ LoadGLTF
       \/ \E model \in handles : CreateGLTFModelInstance(model)
    /\ UNCHANGED <<platform, pc, minVersion, deviceVars, systemVars, names, generation,
                   depthTextures, left, foreignDeletes>>

\* The first time a view or a clear needs the depth texture, it is made.
GetFallbackDepthSwapchainImage(data) ==
    depthTextures' = [depthTextures EXCEPT ![data] = IF @ = 0 THEN current ELSE @]

ClearImageSlice(data) ==
    /\ MayCall
    /\ GetFallbackDepthSwapchainImage(data)
    /\ UNCHANGED <<platform, pc, minVersion, deviceVars, systemVars, names, made,
                   generation, historyVars>>

\* A handle that does not resolve throws, with the depth texture made.
RenderView(data) ==
    /\ MayCall
    /\ GetFallbackDepthSwapchainImage(data)
    /\ UNCHANGED <<platform, pc, minVersion, deviceVars, systemVars, names, made,
                   generation, historyVars>>

-----------------------------------------------------------------------------

Next ==
    \/ ShutdownDevice \/ ClearSwapchainCache
    \/ \E min \in Versions : InitializeDevice(min)
    \/ \E fails \in SUBSET MayFail(platform) : CreateWindow(fails)
    \/ CheckDevice
    \/ \E n \in 0..4 : InitializeResources(n)
    \/ \E bindToThread \in BOOLEAN : MakeCurrent(bindToThread)
    \/ AllocateSwapchainImageData \/ Make
    \/ \E data \in DOMAIN depthTextures : ClearImageSlice(data) \/ RenderView(data)

Spec == Init /\ [][Next]_vars

-----------------------------------------------------------------------------
(* Correctness.                                                            *)

\* Nothing is held for a window that is not the device's, except for those that
\* InitializeDevice gave up, and the display of a creation that failed on Android: the
\* failure paths of ksGpuWindow_Create and ksGpuWindow_Destroy give everything back.
WindowsAccounted ==
    \A n \in DOMAIN windows :
        \/ windows[n] = {}
        \/ n = This /\ (deviceInitialized \/ pc # "idle")
        \/ n \in left
        \/ IsES /\ windows[n] = {"display"}

\* Every object the plugin would draw with was made in the context of its device, or in
\* one that InitializeDevice gave up or replaced: none survives a ShutdownDevice.
ResourcesOfThisDevice ==
    deviceInitialized =>
        /\ \A name \in DOMAIN names : names[name] = This
        /\ \A kind \in Kinds : Elements(made[kind]) \subseteq {This} \cup left
        /\ Elements(depthTextures) \subseteq {0, This} \cup left

\* A handle that resolves does so to the object it was returned for, however many
\* devices have come and gone.
HandlesExpire ==
    \A handle \in handles :
        Resolves(handle) => made[handle.kind][handle.index] = handle.window

\* Names are deleted in a context other than their own, where they may be those of
\* other objects, only if InitializeDevice gave up or replaced one of the two devices.
ForeignDeletesExplained ==
    \A pair \in foreignDeletes : pair[1] \in left \/ pair[2] \in left

\* No object, name or handle of a device is used or deleted in the next one, across
\* every ShutdownDevice and InitializeDevice of the two plugins.
ObjectsStayWithTheirDevice ==
    ResourcesOfThisDevice /\ HandlesExpire /\ ForeignDeletesExplained
=============================================================================
