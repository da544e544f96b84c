-------------------------- MODULE OpenGLPluginProofs --------------------------
(***************************************************************************)
(* Proofs about OpenGLPlugin, on every platform and for any bounds: what a  *)
(* window took is given back unless InitializeDevice gave the window up,    *)
(* and no object, name or handle of one device is used or deleted in the    *)
(* next.  They rest on which context may be current when objects are made   *)
(* and deleted.                                                            *)
(***************************************************************************)
EXTENDS OpenGLPlugin, SequenceTheorems, TLAPS

\* What a window can hold, on each platform.
Gets(p) == CASE p = "Win32" -> {"class", "window", "dc", "context"}
             [] p = "Xlib" -> {"display", "context", "visual", "colormap", "window"}
             [] p = "Android" -> {"display", "context"}

\* A window that is neither the device's nor being made.
Accounted(n) == windows[n] = {} \/ n \in left \/ (IsES /\ windows[n] = {"display"})

\* The window of the device, or the one being checked, is the last one.
WindowInv ==
    /\ \A n \in DOMAIN windows : windows[n] \subseteq Gets(platform)
    /\ pc # "idle" => ~deviceInitialized
    /\ pc = "window" => Len(windows) < MaxWindows
    /\ pc \in {"checks", "resources"} \/ deviceInitialized => windows # <<>>
    /\ \A n \in DOMAIN windows :
           Accounted(n) \/ (n = This /\ (deviceInitialized \/ pc \in {"checks", "resources"}))

\* A context is current only of the device, of a window being checked, or of one given up.
CurrentInv ==
    /\ deviceInitialized => current \in {0, This}
    /\ pc = "resources" => current = This
    /\ pc = "checks" => current \in {0, This}
    /\ pc \in {"idle", "window"} /\ ~deviceInitialized => current \in {0} \cup left

\* Between devices the plugin has only objects of windows given up or replaced, but for
\* the two names that it never forgets.
ObjectsInv ==
    LET here == IF deviceInitialized THEN {This} ELSE {}
    IN  /\ names["pbrResources"] \in {0} \cup here \cup left
        /\ \A kind \in Kinds : Elements(made[kind]) \subseteq here \cup left
        /\ Elements(depthTextures) \subseteq {0} \cup here \cup left
        /\ deviceInitialized => \A name \in DOMAIN names : names[name] = This

\* The handles of this generation are those of the objects there are.
HandlesInv ==
    \A handle \in handles :
        /\ handle.generation <= generation
        /\ handle.generation = generation =>
              /\ handle.index <= Len(made[handle.kind])
              /\ made[handle.kind][handle.index] = handle.window

IInv ==
    /\ TypeOK /\ WindowInv /\ CurrentInv /\ ObjectsInv /\ HandlesInv
    /\ ForeignDeletesExplained

-----------------------------------------------------------------------------
(* The window.                                                             *)

\* Destroying a window gives back whatever it can hold, on every platform.
LEMMA Destroyed ==
    ASSUME NEW p \in Platforms, NEW held \in SUBSET Gets(p)
    PROVE  Destroy(p, held) = {}
<1>1. CASE p = "Win32"
  <2>1. Gets(p) = {"class", "window", "dc", "context"}
    BY <1>1 DEF Gets
  <2>2. Destroy(p, held) = held \ (ContextReleases \cup Win32Releases)
    BY <1>1 DEF Destroy
  <2> QED  BY <2>1, <2>2 DEF ContextReleases, Win32Releases
<1>2. CASE p = "Xlib"
  <2>1. Gets(p) = {"display", "context", "visual", "colormap", "window"}
    BY <1>2 DEF Gets
  <2>2. Destroy(p, held) = held \ (ContextReleases \cup XlibReleases)
    BY <1>2 DEF Destroy
  <2> QED  BY <2>1, <2>2 DEF ContextReleases, XlibReleases
<1>3. CASE p = "Android"
  <2>1. Gets(p) = {"display", "context"}
    BY <1>3 DEF Gets
  <2>2. Destroy(p, held) = held \ (ContextReleases \cup AndroidReleases)
    BY <1>3 DEF Destroy
  <2> QED  BY <2>1, <2>2 DEF ContextReleases, AndroidReleases
<1> QED  BY <1>1, <1>2, <1>3 DEF Platforms

\* What the steps of a creation get is what a window can hold; a failure ends one without a
\* ksGpuWindow_Destroy only where nothing is held, or on Android with the display alone.
LEMMA StepsGet ==
    ASSUME NEW p \in Platforms
    PROVE  LET steps == Steps(p)
           IN  /\ Len(steps) \in 0..5 /\ DOMAIN steps = 1..Len(steps)
               /\ \A n \in DOMAIN steps :
                      /\ steps[n].gets \in Gets(p) \cup {Nothing}
                      /\ steps[n].onFailure \notin {"ignore", "never", "destroy"} =>
                             n = 1 \/ (n = 3 /\ p = "Android")
               /\ p = "Android" => /\ steps[1].gets = Nothing
                                   /\ steps[2] = Step("display", "never")
<1>1. CASE p = "Win32"
  <2>1. Steps(p) = Win32Steps
    BY <1>1 DEF Steps
  <2>2. Gets(p) = {"class", "window", "dc", "context"}
    BY <1>1 DEF Gets
  <2> QED  BY <1>1, <2>1, <2>2 DEF Win32Steps, Context, Step
<1>2. CASE p = "Xlib"
  <2>1. Steps(p) = XlibSteps
    BY <1>2 DEF Steps
  <2>2. Gets(p) = {"display", "context", "visual", "colormap", "window"}
    BY <1>2 DEF Gets
  <2> QED  BY <1>2, <2>1, <2>2 DEF XlibSteps, Context, Step
<1>3. CASE p = "Android"
  <2>1. Steps(p) = AndroidSteps
    BY <1>3 DEF Steps
  <2>2. Gets(p) = {"display", "context"}
    BY <1>3 DEF Gets
  <2> QED  BY <1>3, <2>1, <2>2 DEF AndroidSteps, Context, Step, Nothing
<1> QED  BY <1>1, <1>2, <1>3 DEF Platforms

\* A creation that fails gives everything back, except for the display on Android.
LEMMA Created ==
    ASSUME NEW p \in Platforms, NEW fails \in SUBSET MayFail(p)
    PROVE  LET window == Create(p, fails)
           IN  /\ window.held \subseteq Gets(p)
               /\ window.created \in BOOLEAN
               /\ ~window.created => \/ window.held = {}
                                     \/ p = "Android" /\ window.held = {"display"}
<1> DEFINE steps == Steps(p)
           stops == {n \in fails : steps[n].onFailure # "ignore"}
           Got(n) == {steps[m].gets : m \in (1..n) \ fails} \ {Nothing}
           first == CHOOSE n \in stops : \A m \in stops : n <= m
           window == Create(p, fails)
<1>1. /\ Len(steps) \in 0..5 /\ DOMAIN steps = 1..Len(steps)
      /\ \A n \in DOMAIN steps :
             /\ steps[n].gets \in Gets(p) \cup {Nothing}
             /\ steps[n].onFailure \notin {"ignore", "never", "destroy"} =>
                    n = 1 \/ (n = 3 /\ p = "Android")
      /\ p = "Android" => /\ steps[1].gets = Nothing
                          /\ steps[2] = Step("display", "never")
  BY StepsGet
<1>2. \A n \in 0..Len(steps) : Got(n) \in SUBSET Gets(p)
  BY <1>1
<1>3. Got(0) = {}
  OBVIOUS
<1>4. fails \subseteq DOMAIN steps /\ \A n \in fails : steps[n].onFailure # "never"
  BY DEF MayFail
<1>5. CASE stops = {}
  <2>1. window = [created |-> TRUE, held |-> Got(Len(steps))]
    BY <1>5 DEF Create
  <2>2. window.created /\ window.held = Got(Len(steps))
    BY <2>1
  <2> QED  BY <1>1, <1>2, <2>2
<1>6. CASE stops # {}
  <2>1. first \in stops
    <3>1. stops \subseteq 1..Len(steps)
      BY <1>1, <1>4
    <3>2. \E n \in stops : \A m \in stops : n <= m
      BY <1>1, <1>6, <3>1
    <3> QED  BY <3>2
  <2>2. /\ first \in 1..Len(steps) /\ first - 1 \in 0..Len(steps)
        /\ steps[first].onFailure \notin {"ignore", "never"}
    BY <1>1, <1>4, <2>1
  <2>3. window = [created |-> FALSE,
                  held |-> IF steps[first].onFailure = "destroy"
                           THEN Destroy(p, Got(first - 1))
                           ELSE Got(first - 1)]
    BY <1>6 DEF Create
  <2>4. /\ window.created = FALSE
        /\ window.held = IF steps[first].onFailure = "destroy"
                         THEN Destroy(p, Got(first - 1))
                         ELSE Got(first - 1)
    BY <2>3
  <2> HIDE DEF first, window
  <2>5. CASE steps[first].onFailure = "destroy"
    <3>1. window.held = {}
      BY <1>2, <2>2, <2>4, <2>5, Destroyed
    <3> QED  BY <2>4, <3>1 DEF window
  <2>6. CASE steps[first].onFailure # "destroy" /\ first = 1
    <3>1. first - 1 = 0
      BY <2>6
    <3>2. window.held = {}
      BY <1>3, <2>4, <2>6, <3>1
    <3> QED  BY <2>4, <3>2 DEF window
  <2>7. CASE steps[first].onFailure # "destroy" /\ first = 3 /\ p = "Android"
    <3>1. window.held = Got(2)
      BY <2>4, <2>7
    <3>2. 2 \notin fails
      BY <1>1, <1>4, <2>7 DEF Step
    <3>3. Got(2) = {"display"}
      BY <1>1, <2>7, <3>2 DEF Step, Nothing
    <3> QED  BY <1>2, <2>2, <2>4, <2>7, <3>1, <3>3 DEF window
  <2> QED  BY <1>1, <2>2, <2>5, <2>6, <2>7
<1> QED  BY <1>5, <1>6

-----------------------------------------------------------------------------
(* Objects and contexts given up.                                          *)

\* Deleting objects is explained when each is of the current context, or one of the two
\* windows was given up.
LEMMA DeletedExplained ==
    ASSUME ForeignDeletesExplained, foreignDeletes \subseteq Numbers \X Numbers,
           current \in Numbers, left \subseteq left',
           NEW objects \in SUBSET Numbers, Deleted(objects),
           current # 0 => \A w \in objects \ {0, current} : w \in left \/ current \in left
    PROVE  /\ foreignDeletes' \subseteq Numbers \X Numbers
           /\ ForeignDeletesExplained'
  BY DEF ForeignDeletesExplained, Deleted, Foreign

\* The ranges of the numbers of windows.
LEMMA WindowNumbers ==
    ASSUME IInv
    PROVE  /\ This \in Numbers /\ current \in Numbers /\ left \subseteq Numbers
           /\ This = 0 <=> windows = <<>>
<1>1. MaxWindows \in Nat
  BY ConstantsAssumption
<1>2. /\ windows \in Seq(SUBSET Held) /\ Len(windows) <= MaxWindows
      /\ current \in 0..Len(windows) /\ left \subseteq Numbers
  BY DEF IInv, TypeOK
<1> QED  BY <1>1, <1>2 DEF This, Numbers

\* With no InitializeDevice under way, whatever the plugin has is of its device, or the
\* context or the object is of a window given up.
LEMMA ObjectsExplained ==
    ASSUME IInv, pc = "idle"
    PROVE  LET objects == {names[name] : name \in DOMAIN names} \cup Elements(depthTextures)
                          \cup UNION {Elements(made[kind]) : kind \in {"mesh", "instance"}}
           IN  /\ objects \in SUBSET Numbers
               /\ current # 0 =>
                    \A w \in objects \ {0, current} : w \in left \/ current \in left
<1>1. This \in Numbers /\ current \in Numbers /\ left \subseteq Numbers
  BY WindowNumbers
<1>2. /\ \A name \in DOMAIN names : names[name] \in Numbers
      /\ \A kind \in {"mesh", "instance"} : Elements(made[kind]) \subseteq Numbers
      /\ Elements(depthTextures) \subseteq Numbers
  BY <1>1 DEF IInv, TypeOK, Elements, Kinds
<1>3. CASE deviceInitialized
  <2>1. /\ current \in {0, This} /\ \A name \in DOMAIN names : names[name] = This
        /\ \A kind \in {"mesh", "instance"} : Elements(made[kind]) \subseteq {This} \cup left
        /\ Elements(depthTextures) \subseteq {0, This} \cup left
    BY <1>3 DEF IInv, CurrentInv, ObjectsInv, Kinds
  <2> QED  BY <1>2, <2>1
<1>4. CASE ~deviceInitialized
  <2>1. current \in {0} \cup left
    BY <1>4 DEF IInv, CurrentInv
  <2> QED  BY <1>2, <2>1
<1> QED  BY <1>3, <1>4

\* deleteGLContext gives back the window of a device that was initialized, and nothing else.
LEMMA ContextDeleted ==
    ASSUME IInv, deleteGLContext
    PROVE  /\ windows' \in Seq(SUBSET Held) /\ Len(windows') = Len(windows)
           /\ ~deviceInitialized' /\ deviceInitialized' \in BOOLEAN
           /\ deviceInitialized => current' = 0
           /\ ~deviceInitialized => UNCHANGED <<windows, current>>
           /\ \A n \in DOMAIN windows : n # This => windows'[n] = windows[n]
           /\ deviceInitialized => This \in DOMAIN windows /\ windows'[This] = {}
<1>1. windows \in Seq(SUBSET Held) /\ platform \in Platforms
  BY DEF IInv, TypeOK
<1>2. CASE deviceInitialized
  <2>1. This \in DOMAIN windows
    <3>1. windows # <<>>
      BY <1>2 DEF IInv, WindowInv
    <3> QED  BY <1>1, <3>1 DEF This
  <2>2. windows[This] \in SUBSET Gets(platform)
    BY <2>1 DEF IInv, WindowInv
  <2>3. Destroy(platform, windows[This]) = {}
    BY <1>1, <2>2, Destroyed
  <2>4. windows' = [windows EXCEPT ![This] = {}] /\ current' = 0 /\ deviceInitialized' = FALSE
    BY <1>2, <2>3 DEF deleteGLContext
  <2>5. ~deviceInitialized' /\ deviceInitialized' \in BOOLEAN
    BY <2>4, Zenon
  <2> QED  BY <1>1, <1>2, <2>1, <2>4, <2>5
<1>3. CASE ~deviceInitialized
  <2>1. ~deviceInitialized' /\ deviceInitialized' \in BOOLEAN
    BY DEF deleteGLContext
  <2> QED  BY <1>1, <1>3, <2>1 DEF deleteGLContext, systemVars
<1> QED  BY <1>2, <1>3

\* DeleteObjects leaves the plugin without objects but for two names, in a new generation.
LEMMA ObjectsDeleted ==
    ASSUME IInv, pc = "idle", DeleteObjects, left \subseteq left'
    PROVE  /\ generation < MaxShutdowns + 1 /\ generation' = generation + 1
           /\ names' = Forgotten /\ depthTextures' = <<>>
           /\ made' = [kind \in Kinds |-> <<>>]
           /\ foreignDeletes' \subseteq Numbers \X Numbers
           /\ ForeignDeletesExplained'
<1>1. generation \in Nat /\ MaxShutdowns \in Nat
  BY ConstantsAssumption DEF IInv, TypeOK
<1>2. /\ foreignDeletes \subseteq Numbers \X Numbers /\ ForeignDeletesExplained
      /\ current \in Numbers
  BY WindowNumbers DEF IInv, TypeOK
<1>3. foreignDeletes' \subseteq Numbers \X Numbers /\ ForeignDeletesExplained'
  BY <1>2, ObjectsExplained, DeletedExplained DEF DeleteObjects
<1> QED  BY <1>1, <1>3 DEF DeleteObjects, ResetImageData, Clear

\* Once everything is cleared, no handle of an earlier generation resolves.
LEMMA NoObjects ==
    ASSUME IInv, made' = [kind \in Kinds |-> <<>>], depthTextures' = <<>>,
           generation < MaxShutdowns + 1, generation' = generation + 1, UNCHANGED handles
    PROVE  /\ DOMAIN made' = Kinds
           /\ \A kind \in Kinds : made'[kind] \in Seq(Numbers) /\ Len(made'[kind]) <= MaxMade
           /\ depthTextures' \in Seq(Numbers) /\ Len(depthTextures') <= MaxData
           /\ generation' \in 1..(MaxShutdowns + 1)
           /\ \A kind \in Kinds : Elements(made'[kind]) = {}
           /\ Elements(depthTextures') = {}
           /\ HandlesInv'
<1>1. MaxMade \in Nat /\ MaxData \in Nat /\ MaxShutdowns \in Nat
  BY ConstantsAssumption
<1>2. generation \in Nat /\ \A handle \in handles : handle.generation \in Nat
  BY <1>1 DEF IInv, TypeOK, Handles
<1>3. \A handle \in handles : handle.generation < generation'
  BY <1>2 DEF IInv, HandlesInv
<1>4. HandlesInv'
  BY <1>2, <1>3 DEF HandlesInv
<1> QED  BY <1>1, <1>2, <1>4 DEF Elements, IInv, TypeOK

\* An object is made in the current context, and its handle is the last of the container.
LEMMA ObjectMade ==
    ASSUME IInv, NEW kind \in Kinds, MakeObject(kind), UNCHANGED generation
    PROVE  /\ DOMAIN made' = Kinds
           /\ \A k \in Kinds : /\ made'[k] \in Seq(Numbers) /\ Len(made'[k]) <= MaxMade
                               /\ Elements(made'[k]) \subseteq Elements(made[k]) \cup {current}
           /\ handles' \subseteq Handles
           /\ HandlesInv'
<1>1. /\ DOMAIN made = Kinds /\ MaxMade \in Nat /\ current \in Numbers
      /\ \A k \in Kinds : made[k] \in Seq(Numbers) /\ Len(made[k]) <= MaxMade
      /\ handles \subseteq Handles /\ generation \in 1..(MaxShutdowns + 1)
  BY WindowNumbers, ConstantsAssumption DEF IInv, TypeOK
<1>2. /\ Len(made[kind]) < MaxMade /\ handles' = handles \cup {MakeHandle(kind)}
      /\ DOMAIN made' = Kinds
      /\ made'[kind] = Append(made[kind], current)
      /\ \A k \in Kinds \ {kind} : made'[k] = made[k]
  BY <1>1 DEF MakeObject
<1>3. /\ made'[kind] \in Seq(Numbers) /\ Len(made'[kind]) = Len(made[kind]) + 1
      /\ made'[kind][Len(made[kind]) + 1] = current
      /\ \A n \in 1..Len(made[kind]) : made'[kind][n] = made[kind][n]
  BY <1>1, <1>2
<1>4. \A k \in Kinds : /\ made'[k] \in Seq(Numbers) /\ Len(made'[k]) <= MaxMade
                       /\ Elements(made'[k]) \subseteq Elements(made[k]) \cup {current}
  <2> TAKE k \in Kinds
  <2>1. CASE k = kind
    BY <1>1, <1>2, <1>3, <2>1 DEF Elements
  <2>2. CASE k # kind
    BY <1>1, <1>2, <2>2
  <2> QED  BY <2>1, <2>2
<1>5. MakeHandle(kind) \in Handles
  BY <1>1, <1>2 DEF MakeHandle, Handles
<1>6. HandlesInv'
  <2> SUFFICES ASSUME NEW handle \in handles'
               PROVE  /\ handle.generation <= generation
                      /\ handle.generation = generation =>
                            /\ handle.index <= Len(made'[handle.kind])
                            /\ made'[handle.kind][handle.index] = handle.window
    BY DEF HandlesInv
  <2>1. CASE handle \in handles
    <3>1. /\ handle.kind \in Kinds /\ handle.index \in 1..MaxMade
          /\ handle.generation <= generation
          /\ handle.generation = generation =>
                /\ handle.index <= Len(made[handle.kind])
                /\ made[handle.kind][handle.index] = handle.window
      BY <1>1, <2>1 DEF IInv, HandlesInv, Handles
    <3>2. CASE handle.generation = generation /\ handle.kind = kind
      <4>1. handle.index \in 1..Len(made[kind])
        BY <1>1, <3>1, <3>2
      <4> QED  BY <1>1, <1>3, <3>1, <3>2, <4>1
    <3>3. CASE handle.generation = generation /\ handle.kind # kind
      BY <1>2, <3>1, <3>3
    <3> QED  BY <3>1, <3>2, <3>3
  <2>2. CASE handle = MakeHandle(kind)
    <3>1. /\ handle.kind = kind /\ handle.index = Len(made[kind]) + 1
          /\ handle.generation = generation /\ handle.window = current
      BY <2>2 DEF MakeHandle
    <3> QED  BY <1>1, <1>3, <3>1
  <2> QED  BY <1>2, <2>1, <2>2
<1> QED  BY <1>1, <1>2, <1>4, <1>5, <1>6

\* A mesh, a model or an instance is made for the device.
LEMMA MakeStep ==
    ASSUME IInv, Make
    PROVE  IInv'
<1>1. /\ MayCall /\ \E kind \in Kinds : MakeObject(kind)
      /\ UNCHANGED <<platform, pc, minVersion, deviceVars, systemVars, names, generation,
                     depthTextures, left, foreignDeletes>>
  BY DEF Make, MakeSimpleMesh, LoadGLTF, CreateGLTFModelInstance, Kinds
<1>2. /\ DOMAIN made' = Kinds
      /\ \A k \in Kinds : /\ made'[k] \in Seq(Numbers) /\ Len(made'[k]) <= MaxMade
                          /\ Elements(made'[k]) \subseteq Elements(made[k]) \cup {current}
      /\ handles' \subseteq Handles
      /\ HandlesInv'
  BY <1>1, ObjectMade
<1>3. TypeOK'
  BY <1>1, <1>2 DEF IInv, TypeOK, deviceVars, systemVars
<1>4. WindowInv' /\ CurrentInv' /\ ForeignDeletesExplained'
  BY <1>1 DEF IInv, WindowInv, Accounted, CurrentInv, ForeignDeletesExplained, This, IsES,
              deviceVars, systemVars
<1>5. ObjectsInv'
  BY <1>1, <1>2 DEF IInv, ObjectsInv, MayCall, This, deviceVars, systemVars
<1> QED  BY <1>2, <1>3, <1>4, <1>5 DEF IInv

-----------------------------------------------------------------------------
(* The steps of the plugin.                                                *)

\* ShutdownDevice of a device, or of none.
LEMMA ShutdownDeviceStep ==
    ASSUME IInv, ShutdownDevice
    PROVE  IInv'
<1>1. /\ pc = "idle" /\ deleteGLContext
      /\ UNCHANGED <<platform, pc, minVersion, contextVersion, handles, left>>
  BY DEF ShutdownDevice
<1>2. /\ windows' \in Seq(SUBSET Held) /\ Len(windows') = Len(windows)
      /\ ~deviceInitialized' /\ deviceInitialized' \in BOOLEAN
      /\ deviceInitialized => current' = 0
      /\ ~deviceInitialized => UNCHANGED <<windows, current>>
      /\ \A n \in DOMAIN windows : n # This => windows'[n] = windows[n]
      /\ deviceInitialized => This \in DOMAIN windows /\ windows'[This] = {}
  BY <1>1, ContextDeleted
<1>3. /\ windows \in Seq(SUBSET Held) /\ Len(windows) <= MaxWindows
      /\ current \in 0..Len(windows) /\ DOMAIN windows' = DOMAIN windows
  BY <1>2 DEF IInv, TypeOK
<1>4. This' = This /\ IsES' = IsES
  BY <1>1, <1>2 DEF This, IsES
<1>5. WindowInv'
  BY <1>1, <1>2, <1>3, <1>4 DEF IInv, WindowInv, Accounted
<1>6. CurrentInv'
  BY <1>1, <1>2 DEF IInv, CurrentInv
<1>7. CASE IsES => deviceInitialized
  <2>1. /\ generation < MaxShutdowns + 1 /\ generation' = generation + 1
        /\ names' = Forgotten /\ depthTextures' = <<>> /\ made' = [kind \in Kinds |-> <<>>]
        /\ foreignDeletes' \subseteq Numbers \X Numbers /\ ForeignDeletesExplained'
    BY <1>1, <1>7, ObjectsDeleted DEF ShutdownDevice
  <2>2. /\ DOMAIN made' = Kinds
        /\ \A kind \in Kinds : made'[kind] \in Seq(Numbers) /\ Len(made'[kind]) <= MaxMade
        /\ depthTextures' \in Seq(Numbers) /\ Len(depthTextures') <= MaxData
        /\ generation' \in 1..(MaxShutdowns + 1)
        /\ \A kind \in Kinds : Elements(made'[kind]) = {}
        /\ Elements(depthTextures') = {}
        /\ HandlesInv'
    BY <1>1, <2>1, NoObjects
  <2>3. /\ names' \in [{"framebuffer", "program", "pbrResources"} -> Numbers]
        /\ names'["pbrResources"] = 0
    BY <2>1, ConstantsAssumption DEF IInv, TypeOK, Forgotten, Numbers
  <2>4. TypeOK'
    BY <1>1, <1>2, <1>3, <2>1, <2>2, <2>3 DEF IInv, TypeOK
  <2>5. ObjectsInv'
    BY <1>2, <2>2, <2>3 DEF ObjectsInv
  <2> QED  BY <1>5, <1>6, <2>1, <2>2, <2>4, <2>5 DEF IInv
<1>8. CASE ~(IsES => deviceInitialized)
  <2>1. UNCHANGED <<objectVars, foreignDeletes, windows, current, deviceInitialized>>
    BY <1>1, <1>2, <1>8 DEF ShutdownDevice, IInv, TypeOK
  <2> QED  BY <1>1, <1>4, <1>5, <1>6, <2>1
           DEF IInv, TypeOK, ObjectsInv, HandlesInv, ForeignDeletesExplained, objectVars
<1> QED  BY <1>7, <1>8

\* The context bound is that of the device, or of a window given up: any other is destroyed.
LEMMA MakeCurrentStep ==
    ASSUME IInv, NEW bindToThread \in BOOLEAN, MakeCurrent(bindToThread)
    PROVE  IInv'
<1>1. /\ pc = "idle" /\ ~IsES /\ windows # <<>> /\ "context" \in windows[This]
      /\ current' \in {0, This}
      /\ UNCHANGED <<platform, pc, minVersion, deviceVars, windows, objectVars, historyVars>>
  BY DEF MakeCurrent
<1>2. windows \in Seq(SUBSET Held) /\ This \in DOMAIN windows
  BY <1>1 DEF IInv, TypeOK, This
<1>3. ~deviceInitialized => This \in left
  BY <1>1, <1>2 DEF IInv, WindowInv, Accounted
<1>4. TypeOK'
  BY <1>1, <1>2 DEF IInv, TypeOK, This, deviceVars, objectVars, historyVars
<1>5. CurrentInv'
  BY <1>1, <1>3 DEF IInv, CurrentInv, This, deviceVars, historyVars
<1>6. WindowInv' /\ ObjectsInv' /\ HandlesInv' /\ ForeignDeletesExplained'
  BY <1>1 DEF IInv, WindowInv, Accounted, ObjectsInv, HandlesInv, ForeignDeletesExplained,
              This, IsES, deviceVars, objectVars, historyVars
<1> QED  BY <1>4, <1>5, <1>6 DEF IInv

\* A device replaced is given up by the OpenGL plugin and shut down by the OpenGL ES plugin.
LEMMA InitializeDeviceStep ==
    ASSUME IInv, NEW min \in Versions, InitializeDevice(min)
    PROVE  IInv'
<1>1. /\ pc = "idle" /\ pc' = "window" /\ minVersion' = min /\ deleteGLContext
      /\ Len(windows) < MaxWindows
      /\ UNCHANGED <<platform, contextVersion, handles>>
      /\ IF IsES /\ deviceInitialized
         THEN DeleteObjects /\ UNCHANGED left
         ELSE /\ UNCHANGED <<objectVars, foreignDeletes>>
              /\ left' = IF deviceInitialized THEN left \cup {This} ELSE left
  BY DEF InitializeDevice
<1>2. /\ windows' \in Seq(SUBSET Held) /\ Len(windows') = Len(windows)
      /\ ~deviceInitialized' /\ deviceInitialized' \in BOOLEAN
      /\ deviceInitialized => current' = 0
      /\ ~deviceInitialized => UNCHANGED <<windows, current>>
      /\ \A n \in DOMAIN windows : n # This => windows'[n] = windows[n]
      /\ deviceInitialized => This \in DOMAIN windows /\ windows'[This] = {}
  BY <1>1, ContextDeleted
<1>3. /\ windows \in Seq(SUBSET Held) /\ Len(windows) <= MaxWindows
      /\ current \in 0..Len(windows) /\ DOMAIN windows' = DOMAIN windows
  BY <1>2 DEF IInv, TypeOK
<1>4. This' = This /\ IsES' = IsES /\ This \in Numbers /\ left \subseteq left'
  BY <1>1, <1>2, WindowNumbers DEF This, IsES
<1>5. WindowInv'
  BY <1>1, <1>2, <1>3, <1>4 DEF IInv, WindowInv, Accounted
<1>6. CurrentInv'
  BY <1>1, <1>2, <1>4 DEF IInv, CurrentInv
<1>7. CASE IsES /\ deviceInitialized
  <2>1. /\ generation < MaxShutdowns + 1 /\ generation' = generation + 1
        /\ names' = Forgotten /\ depthTextures' = <<>> /\ made' = [kind \in Kinds |-> <<>>]
        /\ foreignDeletes' \subseteq Numbers \X Numbers /\ ForeignDeletesExplained'
    BY <1>1, <1>4, <1>7, ObjectsDeleted
  <2>2. /\ DOMAIN made' = Kinds
        /\ \A kind \in Kinds : made'[kind] \in Seq(Numbers) /\ Len(made'[kind]) <= MaxMade
        /\ depthTextures' \in Seq(Numbers) /\ Len(depthTextures') <= MaxData
        /\ generation' \in 1..(MaxShutdowns + 1)
        /\ \A kind \in Kinds : Elements(made'[kind]) = {}
        /\ Elements(depthTextures') = {}
        /\ HandlesInv'
    BY <1>1, <2>1, NoObjects
  <2>3. /\ names' \in [{"framebuffer", "program", "pbrResources"} -> Numbers]
        /\ names'["pbrResources"] = 0
    BY <2>1, ConstantsAssumption DEF IInv, TypeOK, Forgotten, Numbers
  <2>4. TypeOK'
    BY <1>1, <1>2, <1>3, <1>7, <2>1, <2>2, <2>3 DEF IInv, TypeOK
  <2>5. ObjectsInv'
    BY <1>2, <2>2, <2>3 DEF ObjectsInv
  <2> QED  BY <1>5, <1>6, <2>1, <2>2, <2>4, <2>5 DEF IInv
<1>8. CASE ~(IsES /\ deviceInitialized)
  <2>1. /\ UNCHANGED <<objectVars, foreignDeletes>>
        /\ left' = IF deviceInitialized THEN left \cup {This} ELSE left
    BY <1>1, <1>8
  <2>2. TypeOK'
    BY <1>1, <1>2, <1>3, <1>4, <2>1 DEF IInv, TypeOK, objectVars
  <2>3. HandlesInv' /\ ForeignDeletesExplained'
    BY <1>1, <1>4, <2>1 DEF IInv, HandlesInv, ForeignDeletesExplained, objectVars
  <2>4. ObjectsInv'
    BY <1>2, <2>1 DEF IInv, ObjectsInv, Elements, objectVars
  <2> QED  BY <1>5, <1>6, <2>2, <2>3, <2>4 DEF IInv
<1> QED  BY <1>7, <1>8

\* The names are made in the context just checked; when an exception cuts this short, the
\* window is given up with them.
LEMMA InitializeResourcesStep ==
    ASSUME IInv, NEW n \in 0..4, InitializeResources(n)
    PROVE  IInv'
<1>1. /\ pc = "resources" /\ pc' = "idle"
      /\ UNCHANGED <<platform, minVersion, contextVersion, systemVars, generation, depthTextures>>
      /\ IF n >= 3 THEN MakeObject("mesh") ELSE UNCHANGED <<made, handles>>
      /\ Deleted(IF n = 4 THEN {names["pbrResources"]} ELSE {})
      /\ \/ left' = left \cup {This} /\ UNCHANGED deviceInitialized
         \/ n = 4 /\ deviceInitialized' = TRUE /\ UNCHANGED left
  BY DEF InitializeResources, GiveUp
<1>2. /\ ~deviceInitialized /\ current = This /\ windows # <<>>
      /\ This \in Numbers /\ This' = This /\ IsES' = IsES /\ This # 0
  BY <1>1, WindowNumbers DEF IInv, WindowInv, CurrentInv, This, IsES, systemVars
<1>3. /\ DOMAIN names = {"framebuffer", "program", "pbrResources"}
      /\ \A name \in DOMAIN names : names[name] \in Numbers
      /\ \A kind \in Kinds : Elements(made[kind]) \subseteq left
      /\ Elements(depthTextures) \subseteq {0} \cup left
      /\ names["pbrResources"] \in {0} \cup left
      /\ left \subseteq Numbers
  BY <1>2 DEF IInv, TypeOK, ObjectsInv
<1>4. /\ names' \in [{"framebuffer", "program", "pbrResources"} -> Numbers]
      /\ \A name \in DOMAIN names : names'[name] \in {names[name], This}
      /\ n = 4 => \A name \in DOMAIN names : names'[name] = This
  <2>1. names' = [name \in DOMAIN names |->
                    IF \E m \in 1..n : Names[m] = name THEN current ELSE names[name]]
    BY DEF InitializeResources
  <2>2. Names[1] = "framebuffer" /\ Names[2] = "program" /\ Names[4] = "pbrResources"
    BY DEF Names
  <2> QED  BY <1>2, <1>3, <2>1, <2>2
<1>5. /\ DOMAIN made' = Kinds
      /\ \A k \in Kinds : /\ made'[k] \in Seq(Numbers) /\ Len(made'[k]) <= MaxMade
                          /\ Elements(made'[k]) \subseteq left \cup {This}
      /\ handles' \subseteq Handles
      /\ HandlesInv'
  <2>1. CASE n >= 3
    BY <1>1, <1>2, <1>3, <2>1, ObjectMade DEF Kinds
  <2>2. CASE ~(n >= 3)
    BY <1>1, <1>3, <2>2 DEF IInv, TypeOK, HandlesInv
  <2> QED  BY <2>1, <2>2
<1>6. foreignDeletes' \subseteq Numbers \X Numbers /\ ForeignDeletesExplained'
  <2>1. {names["pbrResources"]} \in SUBSET Numbers /\ {} \in SUBSET Numbers
    BY <1>3
  <2>2. \A w \in {names["pbrResources"]} \ {0, current} : w \in left
    BY <1>3
  <2>3. left \subseteq left'
    BY <1>1
  <2>4. /\ foreignDeletes \subseteq Numbers \X Numbers /\ ForeignDeletesExplained
        /\ current \in Numbers
    BY <1>2 DEF IInv, TypeOK
  <2>5. CASE n = 4
    <3>1. Deleted({names["pbrResources"]})
      BY <1>1, <2>5
    <3> QED  BY <2>1, <2>2, <2>3, <2>4, <3>1, DeletedExplained
  <2>6. CASE n # 4
    <3>1. Deleted({})
      BY <1>1, <2>6
    <3> QED  BY <2>1, <2>3, <2>4, <3>1, DeletedExplained
  <2> QED  BY <2>5, <2>6
<1>7. deviceInitialized' \in BOOLEAN
  BY <1>1 DEF IInv, TypeOK
<1>8. TypeOK'
  BY <1>1, <1>2, <1>3, <1>4, <1>5, <1>6, <1>7 DEF IInv, TypeOK, systemVars
<1>9. WindowInv' /\ CurrentInv'
  BY <1>1, <1>2 DEF IInv, WindowInv, Accounted, CurrentInv, This, IsES, systemVars
<1>10. ObjectsInv'
  BY <1>1, <1>2, <1>3, <1>4, <1>5 DEF ObjectsInv
<1> QED  BY <1>5, <1>6, <1>8, <1>9, <1>10 DEF IInv

\* The new window is the last one; if it could not be created nothing is left of it.
LEMMA CreateWindowStep ==
    ASSUME IInv, NEW fails \in SUBSET MayFail(platform), CreateWindow(fails)
    PROVE  IInv'
<1> DEFINE window == Create(platform, fails)
<1>1. /\ pc = "window" /\ windows' = Append(windows, window.held)
      /\ \/ window.created /\ pc' = "checks" /\ current' \in {0, Len(windows')}
         \/ ~window.created /\ pc' = "idle" /\ UNCHANGED current
      /\ UNCHANGED <<platform, minVersion, deviceVars, objectVars, historyVars>>
  BY DEF CreateWindow
<1>2. platform \in Platforms /\ windows \in Seq(SUBSET Held) /\ Len(windows) < MaxWindows
  BY <1>1 DEF IInv, TypeOK, WindowInv
<1>3. /\ window.held \subseteq Gets(platform)
      /\ ~window.created => \/ window.held = {}
                            \/ platform = "Android" /\ window.held = {"display"}
  BY <1>2, Created
<1>4. Gets(platform) \subseteq Held
  <2>1. CASE platform = "Win32"
    BY <2>1 DEF Gets, Held
  <2>2. CASE platform = "Xlib"
    BY <2>2 DEF Gets, Held
  <2>3. CASE platform = "Android"
    BY <2>3 DEF Gets, Held
  <2> QED  BY <1>2, <2>1, <2>2, <2>3 DEF Platforms
<1> HIDE DEF window
<1>5. /\ windows' \in Seq(SUBSET Held) /\ Len(windows') = Len(windows) + 1
      /\ Len(windows') <= MaxWindows /\ DOMAIN windows' = 1..(Len(windows) + 1)
      /\ windows'[Len(windows) + 1] = window.held
      /\ \A n \in DOMAIN windows : windows'[n] = windows[n]
      /\ current' \in 0..Len(windows')
  <2>1. window.held \in SUBSET Held
    BY <1>3, <1>4
  <2>2. MaxWindows \in Nat /\ current \in 0..Len(windows)
    BY ConstantsAssumption DEF IInv, TypeOK
  <2> QED  BY <1>1, <1>2, <2>1, <2>2
<1>6. /\ ~deviceInitialized /\ \A n \in DOMAIN windows : Accounted(n)
      /\ This' = Len(windows) + 1 /\ IsES' = IsES /\ UNCHANGED deviceInitialized
  BY <1>1, <1>5 DEF IInv, WindowInv, This, IsES, deviceVars
<1>7. TypeOK'
  <2>1. pc' \in {"idle", "window", "checks", "resources"}
    BY <1>1
  <2> QED  BY <1>1, <1>5, <2>1 DEF IInv, TypeOK, deviceVars, objectVars, historyVars
<1>8. WindowInv'
  <2>1. DOMAIN windows = 1..Len(windows) /\ Len(windows) \in Nat
    BY <1>2
  <2>2. \A n \in DOMAIN windows : Accounted(n)'
    BY <1>1, <1>5, <1>6 DEF Accounted, historyVars
  <2>3. ~window.created => Accounted(This)'
    BY <1>1, <1>3, <1>5, <1>6 DEF Accounted, IsES
  <2>4. \A n \in DOMAIN windows' : windows'[n] \subseteq Gets(platform)
    BY <1>3, <1>5, <2>1 DEF IInv, WindowInv
  <2>5. windows' # <<>>
    BY <1>5, <2>1
  <2> QED  BY <1>1, <1>5, <1>6, <2>1, <2>2, <2>3, <2>4, <2>5 DEF WindowInv
<1>9. CurrentInv'
  BY <1>1, <1>5, <1>6 DEF IInv, CurrentInv, historyVars
<1>10. ObjectsInv' /\ HandlesInv' /\ ForeignDeletesExplained'
  BY <1>1, <1>6
     DEF IInv, ObjectsInv, HandlesInv, ForeignDeletesExplained, Elements, objectVars, historyVars
<1> QED  BY <1>7, <1>8, <1>9, <1>10 DEF IInv

\* ClearSwapchainCache deletes the depth textures, of this device or of windows given up.
LEMMA ClearSwapchainCacheStep ==
    ASSUME IInv, ClearSwapchainCache
    PROVE  IInv'
<1>1. /\ pc = "idle" /\ Deleted(Elements(depthTextures)) /\ depthTextures' = <<>>
      /\ UNCHANGED <<platform, pc, minVersion, deviceVars, systemVars, names, made,
                     generation, handles, left>>
  BY DEF ClearSwapchainCache, ResetImageData
<1>2. foreignDeletes' \subseteq Numbers \X Numbers /\ ForeignDeletesExplained'
  <2>1. /\ Elements(depthTextures) \in SUBSET Numbers
        /\ current # 0 => \A w \in Elements(depthTextures) \ {0, current} :
                              w \in left \/ current \in left
    BY <1>1, ObjectsExplained
  <2>2. current \in Numbers /\ left \subseteq left'
    BY <1>1, WindowNumbers
  <2> QED  BY <1>1, <2>1, <2>2, DeletedExplained DEF IInv, TypeOK
<1>3. TypeOK'
  BY <1>1, <1>2, ConstantsAssumption DEF IInv, TypeOK, deviceVars, systemVars
<1>4. WindowInv' /\ CurrentInv' /\ HandlesInv'
  BY <1>1 DEF IInv, WindowInv, Accounted, CurrentInv, HandlesInv, This, IsES, deviceVars,
              systemVars
<1>5. ObjectsInv'
  BY <1>1 DEF IInv, ObjectsInv, Elements, This, deviceVars, systemVars
<1> QED  BY <1>2, <1>3, <1>4, <1>5 DEF IInv

\* The window is given up or its context stays current.
LEMMA CheckDeviceStep ==
    ASSUME IInv, CheckDevice
    PROVE  IInv'
<1>1. /\ pc = "checks" /\ pc' \in {"idle", "resources"}
      /\ contextVersion' \in {contextVersion} \cup Versions
      /\ \/ pc' = "idle" /\ left' = left \cup {This}
         \/ pc' = "resources" /\ current = This /\ UNCHANGED left
      /\ UNCHANGED <<platform, minVersion, deviceInitialized, systemVars, objectVars,
                     handles, foreignDeletes>>
  BY DEF CheckDevice, GiveUp
<1>2. This \in Numbers /\ This' = This /\ IsES' = IsES /\ left \subseteq left'
  BY <1>1, WindowNumbers DEF This, IsES, systemVars
<1>3. TypeOK'
  BY <1>1, <1>2 DEF IInv, TypeOK, systemVars, objectVars
<1>4. WindowInv' /\ CurrentInv'
  BY <1>1, <1>2 DEF IInv, WindowInv, Accounted, CurrentInv, systemVars
<1>5. ObjectsInv' /\ HandlesInv' /\ ForeignDeletesExplained'
  BY <1>1, <1>2 DEF IInv, ObjectsInv, HandlesInv, ForeignDeletesExplained, WindowInv, Elements,
                    objectVars
<1> QED  BY <1>3, <1>4, <1>5 DEF IInv

\* Image data is adopted without a depth texture, and gets it in the context of the device.
LEMMA DepthTextureStep ==
    ASSUME IInv, UNCHANGED <<platform, pc, minVersion, deviceVars, systemVars, names, made,
                             generation, historyVars>>,
           \/ AllocateSwapchainImageData
           \/ MayCall /\ \E data \in DOMAIN depthTextures : GetFallbackDepthSwapchainImage(data)
    PROVE  IInv'
<1>1. depthTextures \in Seq(Numbers) /\ Len(depthTextures) <= MaxData /\ MaxData \in Nat
  BY ConstantsAssumption DEF IInv, TypeOK
<1>2. 0 \in Numbers /\ current \in Numbers
  BY WindowNumbers, ConstantsAssumption DEF Numbers
<1>3. /\ depthTextures' \in Seq(Numbers) /\ Len(depthTextures') <= MaxData
      /\ \/ Elements(depthTextures') \subseteq Elements(depthTextures) \cup {0}
         \/ /\ deviceInitialized /\ current = This
            /\ Elements(depthTextures') \subseteq Elements(depthTextures) \cup {This}
  <2>1. CASE AllocateSwapchainImageData
    BY <1>1, <1>2, <2>1 DEF AllocateSwapchainImageData, Elements
  <2>2. CASE MayCall /\ \E data \in DOMAIN depthTextures : GetFallbackDepthSwapchainImage(data)
    <3>1. PICK data \in DOMAIN depthTextures : GetFallbackDepthSwapchainImage(data)
      BY <2>2
    <3>2. depthTextures' = [depthTextures EXCEPT ![data] = depthTextures'[data]]
          /\ depthTextures'[data] \in {depthTextures[data], current}
      BY <1>1, <3>1 DEF GetFallbackDepthSwapchainImage
    <3> QED  BY <1>1, <1>2, <2>2, <3>2 DEF MayCall, Elements
  <2> QED  BY <2>1, <2>2
<1>4. TypeOK'
  BY <1>3 DEF IInv, TypeOK, deviceVars, systemVars, historyVars
<1>5. WindowInv' /\ CurrentInv' /\ HandlesInv' /\ ForeignDeletesExplained'
  BY DEF IInv, WindowInv, Accounted, CurrentInv, HandlesInv, ForeignDeletesExplained, This, IsES,
         deviceVars, systemVars, historyVars
<1>6. ObjectsInv'
  BY <1>3 DEF IInv, ObjectsInv, This, deviceVars, systemVars, historyVars
<1> QED  BY <1>4, <1>5, <1>6 DEF IInv

-----------------------------------------------------------------------------
(* The theorems.                                                           *)

\* Nothing is held or made when the plugin is constructed.
LEMMA InitInvariant ==
    ASSUME Init
    PROVE  IInv
<1>1. TypeOK
  <2>1. deviceInitialized \in BOOLEAN
    BY Zenon DEF Init
  <2> QED  BY <2>1, ConstantsAssumption DEF Init, TypeOK, Numbers, Versions
<1>2. WindowInv /\ CurrentInv /\ HandlesInv /\ ForeignDeletesExplained
  BY DEF Init, WindowInv, CurrentInv, HandlesInv, ForeignDeletesExplained
<1>3. ObjectsInv
  BY DEF Init, ObjectsInv, Elements
<1> QED  BY <1>1, <1>2, <1>3 DEF IInv

\* No step of the plugin, whatever fails in it, breaks the invariant.
LEMMA StepInvariant ==
    ASSUME IInv, [Next]_vars
    PROVE  IInv'
<1>1. CASE ShutdownDevice
  BY <1>1, ShutdownDeviceStep
<1>2. CASE ClearSwapchainCache
  BY <1>2, ClearSwapchainCacheStep
<1>3. ASSUME NEW min \in Versions, InitializeDevice(min)
      PROVE  IInv'
  BY <1>3, InitializeDeviceStep
<1>4. ASSUME NEW fails \in SUBSET MayFail(platform), CreateWindow(fails)
      PROVE  IInv'
  BY <1>4, CreateWindowStep
<1>5. CASE CheckDevice
  BY <1>5, CheckDeviceStep
<1>6. ASSUME NEW n \in 0..4, InitializeResources(n)
      PROVE  IInv'
  BY <1>6, InitializeResourcesStep
<1>7. ASSUME NEW bindToThread \in BOOLEAN, MakeCurrent(bindToThread)
      PROVE  IInv'
  BY <1>7, MakeCurrentStep
<1>8. CASE AllocateSwapchainImageData
  BY <1>8, DepthTextureStep DEF AllocateSwapchainImageData
<1>9. CASE Make
  BY <1>9, MakeStep
<1>10. ASSUME NEW data \in DOMAIN depthTextures, ClearImageSlice(data) \/ RenderView(data)
       PROVE  IInv'
  BY <1>10, DepthTextureStep DEF ClearImageSlice, RenderView
<1>11. CASE UNCHANGED vars
  BY <1>11 DEF vars, IInv, TypeOK, WindowInv, Accounted, CurrentInv, ObjectsInv, Elements,
               HandlesInv, ForeignDeletesExplained, This, IsES
<1> QED
  BY <1>1, <1>2, <1>3, <1>4, <1>5, <1>6, <1>7, <1>8, <1>9, <1>10, <1>11 DEF Next

\* The context current when objects are made or deleted is that of the device, of the window
\* being checked, or of one given up: what the other theorems rest on, on every platform.
THEOREM Invariant == Spec => []IInv
<1>1. Init => IInv
  BY InitInvariant
<1>2. IInv /\ [Next]_vars => IInv'
  BY StepInvariant
<1> QED  BY <1>1, <1>2, PTL DEF Spec

\* The numbers of windows and generations stay in their ranges, so every bound on the calls
\* is a bound on the state.
THEOREM TypeCorrect == Spec => []TypeOK
<1>1. IInv => TypeOK
  BY DEF IInv
<1> QED  BY <1>1, Invariant, PTL

\* Whatever steps of ksGpuWindow_Create fail, in whatever sequence of calls, nothing stays
\* held for a window but the one of the device and those InitializeDevice gave up.
THEOREM Accounting == Spec => []WindowsAccounted
<1>1. IInv => WindowsAccounted
  BY DEF IInv, WindowInv, Accounted, WindowsAccounted
<1> QED  BY <1>1, Invariant, PTL

\* No object is used, deleted or found by a handle in the context of a device other than its
\* own, unless InitializeDevice gave up or replaced one of the two.
THEOREM Separation == Spec => []ObjectsStayWithTheirDevice
<1>1. IInv => ResourcesOfThisDevice
  BY DEF IInv, ObjectsInv, ResourcesOfThisDevice
<1>2. IInv => HandlesExpire
  BY DEF IInv, HandlesInv, HandlesExpire, Resolves
<1>3. IInv => ObjectsStayWithTheirDevice
  BY <1>1, <1>2 DEF IInv, ObjectsStayWithTheirDevice
<1> QED  BY <1>3, Invariant, PTL
=============================================================================
