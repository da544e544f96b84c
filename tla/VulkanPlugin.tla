----------------------------- MODULE VulkanPlugin -----------------------------
(***************************************************************************)
(* The Vulkan graphics plugin of the tests.  One command buffer records and *)
(* executes every call, another one carries the uploads of textures, which  *)
(* are recorded when a model is loaded and submitted with the next view.    *)
(* Unlike the Direct3D plugin this one waits for each list, but only for a  *)
(* while: when the GPU does not answer in time, the call goes on.           *)
(***************************************************************************)
EXTENDS Naturals, Sequences

CONSTANTS
    Swapchains,        \* swapchains whose image data the plugin has adopted
    Null,
    MaxModels          \* bound on the models loaded into a device

ASSUME ConstantsAssumption == Null \notin Swapchains /\ MaxModels \in Nat

VARIABLES
    \* The GPU.
    gpu,               \* the lists submitted and not completed
    uploaded,          \* the textures whose upload has completed
    \* The command buffers: the states of CmdBuffer.
    cmdBuffer, copyCmdBuffer,
    \* VulkanResources.
    recordedUploads,   \* the textures recorded into the copy buffer
    stagingBuffers,    \* the textures whose staging buffer is kept
    \* VulkanGraphicsPlugin.
    vkDevice,          \* is there a device?
    targets,           \* the swapchains with render targets
    models,            \* how many models there are
    \* The test and its call in progress.
    timedOut,          \* has a wait of this device given up?
    failed,            \* has an exception ended the test?
    vkCall                 \* where its call stands

gpuVars == <<gpu, uploaded>>
uploadVars == <<copyCmdBuffer, recordedUploads, stagingBuffers>>
pluginVars == <<vkDevice, targets, models>>
vulkanVars == <<gpu, uploaded, cmdBuffer, copyCmdBuffer, recordedUploads, stagingBuffers,
          vkDevice, targets, models, timedOut, failed, vkCall>>

\* Texture 0 stands for those of the renderer, texture n for those of model n.
Textures == 0..MaxModels
CmdBufferState == {"Undefined", "Initialized", "Recording", "Executable", "Executing"}

\* A list: its command buffer, the textures it uploads or draws with, the swapchain
\* it renders to, and whether the call that submitted it owns what else it uses.
Lists == [buffer : {"cmd", "copy"}, uploads : SUBSET Textures,
          draws : SUBSET Textures, target : Swapchains \cup {Null},
          ownedByCall : BOOLEAN]

TypeOK ==
    /\ gpu \in Seq(Lists) /\ uploaded \subseteq Textures
    /\ cmdBuffer \in CmdBufferState /\ copyCmdBuffer \in CmdBufferState
    /\ recordedUploads \subseteq Textures /\ stagingBuffers \subseteq Textures
    /\ vkDevice \in BOOLEAN /\ timedOut \in BOOLEAN /\ failed \in BOOLEAN
    /\ targets \subseteq Swapchains /\ models \in 0..MaxModels
    /\ vkCall \in {"idle", "wait", "waitView", "waitCopies"}

VulkanInit ==
    /\ gpu = <<>> /\ uploaded = {}
    /\ cmdBuffer = "Undefined" /\ copyCmdBuffer = "Undefined"
    /\ recordedUploads = {} /\ stagingBuffers = {}
    /\ vkDevice = FALSE /\ targets = {} /\ models = 0
    /\ timedOut = FALSE /\ failed = FALSE /\ vkCall = "idle"

-----------------------------------------------------------------------------
(* The command buffers and their fences.                                   *)

\* The GPU completes the oldest list.
Complete ==
    /\ gpu # <<>>
    /\ uploaded' = uploaded \cup Head(gpu).uploads
    /\ gpu' = Tail(gpu)
    /\ UNCHANGED <<cmdBuffer, uploadVars, pluginVars, timedOut, failed, vkCall>>

\* The fence of a buffer that has been executed is signaled.
Signaled(buffer) == \A n \in DOMAIN gpu : gpu[n].buffer # buffer

\* Clear throws unless the buffer is in one of these states.  A buffer that was not
\* waited for to the end is not, even when the GPU is done with it by now.
Clearable_Executing(state) == state \in {"Initialized", "Executable", "Executing"}
Clearable(state) == state \in {"Initialized", "Executable"}

\* Clear, Begin, the recording and End succeed, and so does Exec.
Execute(lists) ==
    /\ Clearable(cmdBuffer)
    /\ cmdBuffer' = "Executing"
    /\ gpu' = gpu \o lists
    /\ UNCHANGED <<uploaded, failed>>

\* One of them throws and leaves the buffer in the state it had got to.
ExecuteFails ==
    /\ \/ UNCHANGED cmdBuffer
       \/ Clearable(cmdBuffer) /\ cmdBuffer' \in {"Initialized", "Recording", "Executable"}
    /\ failed' = TRUE

\* After five seconds a wait gives up and says so, but nobody looks.
Wait_Forever == Signaled("cmd") /\ cmdBuffer' = "Executable" /\ UNCHANGED timedOut
Wait ==
    \/ Signaled("cmd") /\ cmdBuffer' = "Executable" /\ UNCHANGED timedOut
    \/ ~Signaled("cmd") /\ timedOut' = TRUE /\ UNCHANGED cmdBuffer

\* A call that has executed its list waits; a view then waits for the uploads.
CmdBufferWait ==
    /\ vkCall \in {"wait", "waitView"}
    /\ Wait
    /\ vkCall' = IF vkCall = "wait" THEN "idle" ELSE "waitCopies"
    /\ UNCHANGED <<gpuVars, uploadVars, pluginVars, failed>>

MayCall == vkCall = "idle" /\ vkDevice /\ ~failed

List(buffer, uploads, draws, target, ownedByCall) ==
    [buffer |-> buffer, uploads |-> uploads, draws |-> draws, target |-> target,
     ownedByCall |-> ownedByCall]

-----------------------------------------------------------------------------
(* The device.  Flush waits for the GPU and changes nothing here.          *)

\* The textures of the renderer are recorded, and nothing is executed yet.
NewResources ==
    /\ copyCmdBuffer' = "Recording"
    /\ recordedUploads' = {0} /\ stagingBuffers' = {0}

NoResources ==
    /\ copyCmdBuffer' = "Undefined"
    /\ recordedUploads' = {} /\ stagingBuffers' = {}

\* A test may also start over after an initialization that failed.
MayInitialize ==
    /\ vkCall = "idle"
    /\ vkDevice => failed /\ models = 0 /\ targets = {}
    /\ cmdBuffer \in {"Undefined", "Initialized"}

InitializeDevice ==
    /\ MayInitialize
    /\ vkDevice' = TRUE
    /\ cmdBuffer' = "Initialized"
    /\ NewResources
    /\ failed' = FALSE
    /\ UNCHANGED <<gpuVars, targets, models, timedOut, vkCall>>

\* An exception half-way leaves what has been made.
InitializeDeviceFails ==
    /\ MayInitialize
    /\ \/ UNCHANGED <<vkDevice, cmdBuffer, uploadVars>>
       \/ vkDevice' = TRUE /\ UNCHANGED <<cmdBuffer, uploadVars>>
       \/ vkDevice' = TRUE /\ cmdBuffer' = "Initialized" /\ UNCHANGED uploadVars
       \/ vkDevice' = TRUE /\ cmdBuffer' = "Initialized" /\ NewResources
    /\ failed' = TRUE
    /\ UNCHANGED <<gpuVars, targets, models, timedOut, vkCall>>

\* This wait has no timeout.
VulkanShutdownDevice ==
    /\ vkCall = "idle" /\ vkDevice /\ gpu = <<>>
    /\ vkDevice' = FALSE
    /\ cmdBuffer' = "Undefined" /\ NoResources
    /\ targets' = {} /\ models' = 0 /\ uploaded' = {}
    /\ timedOut' = FALSE /\ failed' = FALSE
    /\ UNCHANGED <<gpu, vkCall>>

ClearSwapchainCache ==
    /\ MayCall
    /\ targets' = {}
    /\ UNCHANGED <<gpuVars, cmdBuffer, uploadVars, vkDevice, models, timedOut, failed, vkCall>>

-----------------------------------------------------------------------------
(* Calls that execute one list and wait for it.                            *)

AfterClearing == "wait"

ClearImageSlice(s) ==
    /\ MayCall
    /\ \/ /\ Execute(<<List("cmd", {}, {}, s, FALSE)>>)
          /\ targets' = targets \cup {s}
          /\ vkCall' = AfterClearing
       \/ ExecuteFails /\ UNCHANGED <<gpuVars, targets, vkCall>>
    /\ UNCHANGED <<uploadVars, vkDevice, models, timedOut>>

\* The image is copied from a staging image of the call's own.
CopyRGBAImage ==
    /\ MayCall
    /\ \/ Execute(<<List("cmd", {}, {}, Null, TRUE)>>) /\ vkCall' = "wait"
       \/ ExecuteFails /\ UNCHANGED <<gpuVars, vkCall>>
    /\ UNCHANGED <<uploadVars, pluginVars, timedOut>>

\* The color is read from a buffer of the call's own.
RenderClearImageSliceCompute(s) ==
    /\ MayCall
    /\ \/ /\ Execute(<<List("cmd", {}, {}, s, TRUE)>>)
          /\ targets' = targets \cup {s}
          /\ vkCall' = "wait"
       \/ ExecuteFails /\ UNCHANGED <<gpuVars, targets, vkCall>>
    /\ UNCHANGED <<uploadVars, vkDevice, models, timedOut>>

-----------------------------------------------------------------------------
(* Models and views.                                                       *)

\* Building a model records its uploads, whatever becomes of the model.
LoadGLTF ==
    /\ MayCall /\ models < MaxModels
    /\ recordedUploads' = recordedUploads \cup {models + 1}
    /\ stagingBuffers' = stagingBuffers \cup {models + 1}
    /\ \/ models' = models + 1 /\ UNCHANGED failed
       \/ failed' = TRUE /\ UNCHANGED models
    /\ UNCHANGED <<gpuVars, cmdBuffer, copyCmdBuffer, vkDevice, targets, timedOut, vkCall>>

\* SubmitFrameResources runs before the view is executed.
Submitted_ViewFirst(copies, view) == <<view, copies>>
Submitted(copies, view) == <<copies, view>>

Copies == List("copy", recordedUploads, {}, Null, FALSE)
\* The texture of the next model.
View_NextModel(s, model) ==
    List("cmd", {}, IF model = 0 THEN {} ELSE {0, model + 1}, s, FALSE)
View(s, model) == List("cmd", {}, IF model = 0 THEN {} ELSE {0, model}, s, FALSE)

\* A view of cubes and meshes (model 0) or of a model.  A handle from before a
\* shutdown makes the recording throw.
RenderView(s, model) ==
    /\ MayCall
    /\ Execute(Submitted(Copies, View(s, model)))
    /\ copyCmdBuffer = "Recording" /\ copyCmdBuffer' = "Executing"
    /\ targets' = targets \cup {s}
    /\ vkCall' = "waitView"
    /\ UNCHANGED <<recordedUploads, stagingBuffers, vkDevice, models, timedOut>>

\* The exception is thrown before the uploads are submitted, or after.
RenderViewFails ==
    /\ MayCall
    /\ \/ ExecuteFails /\ UNCHANGED <<gpu, copyCmdBuffer>>
       \/ /\ Clearable(cmdBuffer) /\ copyCmdBuffer = "Recording"
          /\ cmdBuffer' = "Recording"
          /\ copyCmdBuffer' = "Executable"
          /\ failed' = TRUE
          /\ UNCHANGED gpu
       \/ /\ Clearable(cmdBuffer) /\ copyCmdBuffer = "Recording"
          /\ cmdBuffer' \in {"Recording", "Executable"}
          /\ gpu' = Append(gpu, Copies)
          /\ copyCmdBuffer' = "Executing"
          /\ failed' = TRUE
    /\ UNCHANGED <<uploaded, recordedUploads, stagingBuffers, pluginVars, timedOut, vkCall>>

\* Clear throws when the wait for the uploads gave up, and the staging buffers stay.
WaitTimesOut ==
    /\ ~Signaled("copy")
    /\ timedOut' = TRUE /\ failed' = TRUE
    /\ UNCHANGED uploadVars

\* Without Begin the next upload is recorded into a buffer that is not recording.
Recycled == "Recording"

WaitSucceeds ==
    /\ Signaled("copy")
    /\ \/ /\ copyCmdBuffer' = Recycled
          /\ recordedUploads' = {} /\ stagingBuffers' = {}
          /\ UNCHANGED failed
       \/ /\ copyCmdBuffer' \in {"Executable", "Initialized"}
          /\ failed' = TRUE
          /\ UNCHANGED <<recordedUploads, stagingBuffers>>
    /\ UNCHANGED timedOut

ResourcesWait ==
    /\ vkCall = "waitCopies"
    /\ WaitTimesOut \/ WaitSucceeds
    /\ vkCall' = "idle"
    /\ UNCHANGED <<gpuVars, cmdBuffer, pluginVars>>

-----------------------------------------------------------------------------

\* A step of the call in progress.
Resume == CmdBufferWait \/ ResourcesWait

VulkanNext ==
    \/ Complete \/ Resume
    \/ InitializeDevice \/ InitializeDeviceFails \/ VulkanShutdownDevice
    \/ ClearSwapchainCache \/ CopyRGBAImage \/ LoadGLTF \/ RenderViewFails
    \/ \E s \in Swapchains :
          \/ ClearImageSlice(s) \/ RenderClearImageSliceCompute(s)
          \/ \E model \in 0..models : RenderView(s, model)

\* A thread inside a call runs on; of the GPU nothing is assumed.
Fairness == WF_vulkanVars(Resume)

VulkanSpec == VulkanInit /\ [][VulkanNext]_vulkanVars /\ Fairness

-----------------------------------------------------------------------------
(* Correctness.                                                            *)

InFlight == {gpu[n] : n \in DOMAIN gpu}
State(buffer) == IF buffer = "cmd" THEN cmdBuffer ELSE copyCmdBuffer

\* A command buffer the GPU has not finished with is neither cleared nor recorded nor
\* submitted again nor freed, even when the wait for it gave up or a call failed.
BuffersIntact ==
    /\ \A list \in InFlight : State(list.buffer) = "Executing"
    /\ \A m, n \in DOMAIN gpu : gpu[m].buffer = gpu[n].buffer => m = n

\* The staging buffers of an upload outlive it, through timeouts and failures.
StagingKept == \A list \in InFlight : list.uploads \subseteq stagingBuffers

\* When a view draws with a texture, its upload has completed or runs before the view.
UploadsPrecedeDraws ==
    \A n \in DOMAIN gpu :
        gpu[n].draws \subseteq uploaded \cup UNION {gpu[m].uploads : m \in 1..(n - 1)}

\* Between two calls the copy buffer is recording, and what it has recorded is what
\* staging buffers are kept for: an upload can be added at any time.
UploadsCanBeRecorded ==
    MayCall => copyCmdBuffer = "Recording" /\ recordedUploads = stagingBuffers

\* What a list renders to, and what its call owns, is freed in flight only when a
\* wait has given up.
FreedInFlightOnlyAfterTimeout ==
    \A list \in InFlight :
        \/ timedOut
        \/ /\ list.target # Null => list.target \in targets
           /\ list.ownedByCall => vkCall = "wait"

\* What a list in flight uses is there and unchanged: its command buffer, its staging
\* buffers, the textures it draws with and, while no wait has given up, its targets.
ListsIntact ==
    /\ BuffersIntact /\ StagingKept /\ FreedInFlightOnlyAfterTimeout
    /\ UploadsPrecedeDraws /\ UploadsCanBeRecorded

\* After a wait has given up nothing is submitted to this device any more.
RefusesAfterTimeout ==
    [][timedOut /\ timedOut' => Len(gpu') <= Len(gpu)]_vulkanVars

\* Every call that draws returns, even when the GPU never completes anything.
CallsReturn == vkCall # "idle" ~> vkCall = "idle"
=============================================================================
