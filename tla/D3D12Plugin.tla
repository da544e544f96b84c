----------------------------- MODULE D3D12Plugin -----------------------------
(***************************************************************************)
(* The Direct3D 12 graphics plugin of the tests: one CPU thread records     *)
(* command lists, submits them through D3D12QueueWrapper and sometimes      *)
(* waits; the GPU executes them in order at its own pace.  What a list uses *)
(* (the memory of its command allocator, constant buffers, upload buffers)  *)
(* is owned by the CPU side and must be left alone until the list is done.  *)
(*                                                                         *)
(* Everything one InitializeDevice creates is called a device; ShutdownDevice *)
(* ends it, and the plugin object lives on.                                *)
(***************************************************************************)
EXTENDS Naturals, Sequences

CONSTANTS
    Swapchains,        \* swapchains whose image data the plugin has adopted
    Null,
    MaxDevices,        \* bound on the devices created
    MaxLists,          \* bound on the fence value of a device
    MaxMeshes,         \* bound on the meshes of a device
    MaxObjects         \* bound on the objects drawn in one view

\* Initializing a device uploads the cube and the look-up table of the renderer.
InitialLists == 2

ASSUME ConstantsAssumption ==
    /\ Null \notin Swapchains
    /\ MaxDevices \in Nat /\ MaxLists \in Nat /\ MaxMeshes \in Nat /\ MaxObjects \in Nat
    /\ InitialLists <= MaxLists

VARIABLES
    \* The GPU.
    gpu,               \* the command lists submitted and not completed
    completed,         \* the completed value of the fence
    \* D3D12QueueWrapper.
    device,            \* number of the device, counted from 1
    queueWrapper,      \* is there one?
    fenceValue, cpuWaited,
    \* D3D12GraphicsPlugin.
    graphicsBinding,   \* is there a device a session may be made with?
    recorded,          \* per swapchain: the lists in its command allocator
    constants,         \* per swapchain: the list its constants are written for
    modelSize,         \* per swapchain: objects that fit its model buffer
    commandAllocatorQueue, resourceQueue,    \* the destruction queues
    meshes, generation, cubeMesh,
    \* The test and its call in progress.
    handles,           \* the mesh handles it has been given
    slice,             \* the swapchain of the slice it cleared last
    drawn,             \* has it rendered to that slice?
    failed,            \* has an exception ended it?
    pc                 \* where its call stands

gpuVars == <<gpu, completed>>
queueVars == <<fenceValue, cpuWaited>>
deviceVars == <<device, queueWrapper, graphicsBinding>>
swapchainVars == <<recorded, constants, modelSize>>
destructionVars == <<commandAllocatorQueue, resourceQueue>>
meshVars == <<meshes, generation, cubeMesh, handles>>
testVars == <<slice, drawn, failed>>
vars == <<gpu, completed, fenceValue, cpuWaited, device, queueWrapper,
          graphicsBinding, recorded, constants, modelSize, commandAllocatorQueue,
          resourceQueue, meshes, generation, cubeMesh, handles, slice, drawn,
          failed, pc>>

\* A list: the fence value that is signaled after it, the swapchain whose command
\* allocator holds it, the size of the model buffer it reads, whether the call that
\* submitted it owns what else it uses, and the model upload it carries out.
Lists == [value : 1..MaxLists, allocator : Swapchains \cup {Null},
          model : 0..MaxObjects, ownedByCall : BOOLEAN, upload : BOOLEAN]
Uploads == (1..MaxDevices) \X (1..MaxLists)
Entries == [fenceValue : 0..MaxLists, upload : Uploads]
Handles == [generation : Nat, index : 1..MaxMeshes, device : 1..MaxDevices]

TypeOK ==
    /\ gpu \in Seq(Lists)
    /\ completed \in 0..fenceValue /\ fenceValue \in 0..MaxLists
    /\ device \in 0..MaxDevices
    /\ queueWrapper \in BOOLEAN /\ graphicsBinding \in BOOLEAN /\ cpuWaited \in BOOLEAN
    /\ drawn \in BOOLEAN /\ failed \in BOOLEAN
    /\ recorded \in [Swapchains -> SUBSET (1..MaxLists)]
    /\ constants \in [Swapchains -> 0..MaxLists + 1]
    /\ modelSize \in [Swapchains -> 0..MaxObjects]
    /\ commandAllocatorQueue \subseteq Entries /\ resourceQueue \subseteq Entries
    /\ meshes \in Seq(1..MaxDevices) /\ generation \in Nat \ {0}
    /\ cubeMesh \in Handles \cup {Null} /\ handles \subseteq Handles
    /\ slice \in Swapchains \cup {Null}
    /\ pc \in {"idle", "releaseAllocators", "releaseResources", "wait"}

NoImageData == [s \in Swapchains |-> {}]
Zero == [s \in Swapchains |-> 0]

Init ==
    /\ gpu = <<>> /\ completed = 0
    /\ device = 0 /\ queueWrapper = FALSE /\ graphicsBinding = FALSE
    /\ fenceValue = 0 /\ cpuWaited = TRUE
    /\ recorded = NoImageData /\ constants = Zero /\ modelSize = Zero
    /\ commandAllocatorQueue = {} /\ resourceQueue = {}
    /\ meshes = <<>> /\ generation = 1 /\ cubeMesh = Null /\ handles = {}
    /\ slice = Null /\ drawn = TRUE /\ failed = FALSE
    /\ pc = "idle"

-----------------------------------------------------------------------------
(* The queue and its fence.                                                *)

\* The GPU completes the oldest list and signals the value that follows it.
Complete ==
    /\ gpu # <<>>
    /\ completed' = Head(gpu).value
    /\ gpu' = Tail(gpu)
    /\ UNCHANGED <<queueVars, deviceVars, swapchainVars, destructionVars, meshVars,
                   testVars, pc>>

List(allocator, model, ownedByCall, upload) ==
    [value |-> fenceValue + 1, allocator |-> allocator, model |-> model,
     ownedByCall |-> ownedByCall, upload |-> upload]

ExecuteCommandList(list) ==
    /\ fenceValue < MaxLists
    /\ gpu' = Append(gpu, list)
    /\ fenceValue' = fenceValue + 1
    /\ cpuWaited' = FALSE
    /\ UNCHANGED completed

\* A submission that raises an exception runs nothing, but signals all the same.
ExecuteFails ==
    /\ ExecuteCommandList(List(Null, 0, FALSE, FALSE))
    /\ failed' = TRUE

\* A queue whose fence has passed its last value has nothing to wait for.
CPUWaited == cpuWaited \/ completed >= fenceValue

\* Asking again and again whether a value beyond the last one has been completed.
CPUWaitOnFence_Spins ==
    /\ pc = "wait"
    /\ IF completed > fenceValue THEN cpuWaited' = TRUE /\ pc' = "idle"
       ELSE UNCHANGED <<cpuWaited, pc>>
    /\ UNCHANGED <<gpuVars, fenceValue, deviceVars, swapchainVars, destructionVars,
                   meshVars, testVars>>

CPUWaitOnFence ==
    /\ pc = "wait" /\ CPUWaited
    /\ cpuWaited' = TRUE
    /\ pc' = "idle"
    /\ UNCHANGED <<gpuVars, fenceValue, deviceVars, swapchainVars, destructionVars,
                   meshVars, testVars>>

\* The test calls the plugin as long as nothing has failed.
MayCall == pc = "idle" /\ graphicsBinding /\ ~failed

-----------------------------------------------------------------------------
(* Meshes, kept in a vector with generation-counted handles.               *)

NewHandle(elements) == [generation |-> generation, index |-> Len(elements) + 1,
                        device |-> device]

\* The device is the ghost of the object the handle was made for; the code has
\* the generation and the index to go by.
Contains(h) == h.generation = generation /\ h.index <= Len(meshes)

ClearMeshes == meshes' = <<>> /\ generation' = generation + 1

MakeSimpleMesh ==
    /\ MayCall /\ Len(meshes) < MaxMeshes
    /\ \/ /\ ExecuteCommandList(List(Null, 0, TRUE, FALSE))
          /\ meshes' = Append(meshes, device)
          /\ handles' = handles \cup {NewHandle(meshes)}
          /\ pc' = "wait"
          /\ UNCHANGED failed
       \/ ExecuteFails /\ UNCHANGED <<meshes, handles, pc>>
    /\ UNCHANGED <<deviceVars, swapchainVars, destructionVars, generation, cubeMesh,
                   slice, drawn>>

-----------------------------------------------------------------------------
(* The device.                                                             *)

\* The fence of the old queue is used on.
StartQueue_SameFence(lists) ==
    /\ device' = device + 1
    /\ queueWrapper' = TRUE
    /\ fenceValue' = lists /\ cpuWaited' = TRUE
    /\ gpu' = <<>>
    /\ UNCHANGED completed

\* A new queue: the initial lists are submitted and waited for one at a time.
StartQueue(lists) ==
    /\ device' = device + 1
    /\ queueWrapper' = TRUE
    /\ fenceValue' = lists /\ completed' = lists
    /\ cpuWaited' = TRUE
    /\ gpu' = <<>>

\* Some tests initialize another device without shutting down the one before, which
\* they have not used; replacing its queue waits for it.
MayInitialize ==
    /\ pc = "idle" /\ device < MaxDevices /\ CPUWaited
    /\ graphicsBinding => fenceValue = InitialLists /\ ~failed

InitializeDevice ==
    /\ MayInitialize /\ Len(meshes) < MaxMeshes
    /\ StartQueue(InitialLists)
    /\ meshes' = Append(meshes, device + 1)
    /\ cubeMesh' = [NewHandle(meshes) EXCEPT !.device = device + 1]
    /\ graphicsBinding' = TRUE
    /\ failed' = FALSE
    /\ UNCHANGED <<swapchainVars, destructionVars, generation, handles, slice, drawn, pc>>

\* An exception half-way is caught, and what has been made stays.
InitializeDeviceFails ==
    /\ MayInitialize /\ Len(meshes) < MaxMeshes
    /\ \E lists \in 0..InitialLists :
          /\ StartQueue(lists)
          /\ IF lists = 0 THEN UNCHANGED <<meshes, cubeMesh>>
             ELSE /\ meshes' = Append(meshes, device + 1)
                  /\ cubeMesh' = [NewHandle(meshes) EXCEPT !.device = device + 1]
    /\ failed' = TRUE
    /\ UNCHANGED <<graphicsBinding, swapchainVars, destructionVars, generation,
                   handles, slice, drawn, pc>>

ForgetImageData ==
    /\ recorded' = NoImageData /\ constants' = Zero /\ modelSize' = Zero
    /\ slice' = Null /\ drawn' = TRUE

\* Destroying the queue waits for it; the destruction queues are left as they are.
ShutdownDevice ==
    /\ pc = "idle" /\ queueWrapper /\ CPUWaited
    /\ queueWrapper' = FALSE /\ graphicsBinding' = FALSE
    /\ cubeMesh' = Null
    /\ ClearMeshes
    /\ ForgetImageData
    /\ failed' = FALSE
    /\ UNCHANGED <<gpuVars, queueVars, device, destructionVars, handles, pc>>

\* Tests clear the cache when they have rendered what they had cleared.
ClearSwapchainCache ==
    /\ MayCall /\ drawn
    /\ ForgetImageData
    /\ UNCHANGED <<gpuVars, queueVars, deviceVars, destructionVars, meshVars, failed, pc>>

Flush ==
    /\ pc = "idle"
    /\ IF queueWrapper THEN pc' = "wait" ELSE UNCHANGED pc
    /\ UNCHANGED <<gpuVars, queueVars, deviceVars, swapchainVars, destructionVars,
                   meshVars, testVars>>

-----------------------------------------------------------------------------
(* Images of a swapchain.                                                  *)

\* A list is recorded with the allocator of a swapchain.
Record(s) == recorded' = [recorded EXCEPT ![s] = @ \cup {fenceValue + 1}]

\* Clearing resets the allocator, and nobody waits for the list.  The callers
\* render to a slice before they clear another one.
ClearImageSlice(s) ==
    /\ MayCall /\ drawn
    /\ slice' = s /\ drawn' = FALSE
    /\ \/ /\ recorded' = [recorded EXCEPT ![s] = {fenceValue + 1}]
          /\ ExecuteCommandList(List(s, 0, FALSE, FALSE))
          /\ UNCHANGED failed
       \/ /\ recorded' = [recorded EXCEPT ![s] = {}]
          /\ ExecuteFails
    /\ UNCHANGED <<deviceVars, constants, modelSize, destructionVars, meshVars, pc>>

CopyRGBAImage(s) ==
    /\ MayCall /\ drawn
    /\ \/ /\ Record(s)
          /\ ExecuteCommandList(List(s, 0, TRUE, FALSE))
          /\ pc' = "wait"
          /\ UNCHANGED failed
       \/ ExecuteFails /\ UNCHANGED <<recorded, pc>>
    /\ UNCHANGED <<deviceVars, constants, modelSize, destructionVars, meshVars, slice, drawn>>

\* Transitions of an image on an allocator of the call's own; the call waits
\* whether or not the submission raised an exception.
ValidateSwapchainImageState ==
    /\ MayCall
    /\ \E runs \in BOOLEAN : ExecuteCommandList(List(Null, 0, runs, FALSE))
    /\ pc' = "wait"
    /\ UNCHANGED <<deviceVars, swapchainVars, destructionVars, meshVars, testVars>>

\* Without anything to draw the call only waits, also for the clearing list.
AfterEmptyView == pc' = "wait"

RenderEmptyView(s) ==
    /\ MayCall /\ slice = s
    /\ drawn' = TRUE
    /\ AfterEmptyView
    /\ UNCHANGED <<gpuVars, queueVars, deviceVars, swapchainVars, destructionVars,
                   meshVars, slice, failed>>

\* The constants are written while the list is recorded, and the model buffer is
\* replaced by a larger one when it is too small.
WriteConstants(s, objects) ==
    /\ constants' = [constants EXCEPT ![s] = fenceValue + 1]
    /\ modelSize' = [modelSize EXCEPT ![s] = IF objects > @ THEN objects ELSE @]

AfterDrawing_Returns == pc' = "idle"
AfterDrawing == pc' = "releaseAllocators"

RenderView(s, h, objects) ==
    /\ MayCall /\ slice = s
    /\ WriteConstants(s, objects)
    /\ IF Contains(h)
       THEN \/ /\ Record(s)
               /\ ExecuteCommandList(List(s, modelSize'[s], FALSE, FALSE))
               /\ drawn' = TRUE
               /\ AfterDrawing
               /\ UNCHANGED failed
            \/ ExecuteFails /\ UNCHANGED <<recorded, drawn, pc>>
       ELSE failed' = TRUE /\ UNCHANGED <<gpuVars, queueVars, recorded, drawn, pc>>
    /\ UNCHANGED <<deviceVars, destructionVars, meshVars, slice>>

-----------------------------------------------------------------------------
(* Uploads of models, freed through the destruction queues.                *)

Staged == [fenceValue |-> fenceValue, upload |-> <<device, fenceValue + 1>>]

\* The entries carry the value signaled last, not the one about to be signaled.
LoadGLTF ==
    /\ MayCall
    /\ commandAllocatorQueue' = commandAllocatorQueue \cup {Staged}
    /\ resourceQueue' = resourceQueue \cup {Staged}
    /\ \/ ExecuteCommandList(List(Null, 0, FALSE, TRUE)) /\ UNCHANGED failed
       \/ ExecuteFails
    /\ UNCHANGED <<deviceVars, swapchainVars, meshVars, slice, drawn, pc>>

\* The order of the priority queue: true if lhs will be ready later than rhs.
Later_Reversed(lhs, rhs) == lhs.fenceValue < rhs.fenceValue
Later(lhs, rhs) == lhs.fenceValue > rhs.fenceValue

\* Entries are popped from the top until one is not ready.
Popped(queue, value) ==
    {e \in queue : \A f \in queue : f = e \/ Later(e, f) => f.fenceValue <= value}

\* The value up to which resources may go.
ReleasableValue == completed

ReleaseAllocators ==
    /\ pc = "releaseAllocators"
    /\ commandAllocatorQueue' =
          commandAllocatorQueue \ Popped(commandAllocatorQueue, ReleasableValue)
    /\ pc' = "releaseResources"
    /\ UNCHANGED <<gpuVars, queueVars, deviceVars, swapchainVars, resourceQueue,
                   meshVars, testVars>>

\* Then the view waits, which the code's comment cannot explain.
ReleaseResources ==
    /\ pc = "releaseResources"
    /\ resourceQueue' = resourceQueue \ Popped(resourceQueue, ReleasableValue)
    /\ pc' = "wait"
    /\ UNCHANGED <<gpuVars, queueVars, deviceVars, swapchainVars,
                   commandAllocatorQueue, meshVars, testVars>>

-----------------------------------------------------------------------------

\* A step of the call in progress.
Continue == ReleaseAllocators \/ ReleaseResources \/ CPUWaitOnFence

Next ==
    \/ Complete \/ Continue
    \/ InitializeDevice \/ InitializeDeviceFails \/ ShutdownDevice
    \/ ClearSwapchainCache \/ Flush
    \/ MakeSimpleMesh \/ ValidateSwapchainImageState \/ LoadGLTF
    \/ \E s \in Swapchains :
          \/ ClearImageSlice(s) \/ CopyRGBAImage(s) \/ RenderEmptyView(s)
          \/ \E h \in handles \cup {cubeMesh}, objects \in 1..MaxObjects :
                RenderView(s, h, objects)

\* The GPU executes what is submitted to it, and a thread inside a call runs on.
Fairness == WF_vars(Complete) /\ WF_vars(Continue)

Spec == Init /\ [][Next]_vars /\ Fairness

-----------------------------------------------------------------------------
(* Correctness.                                                            *)

InFlight == {gpu[n] : n \in DOMAIN gpu}

\* The commands of a list in flight are still in the allocator they were recorded
\* with: ClearImageSlice never resets, and ClearSwapchainCache and ShutdownDevice
\* never free, an allocator the GPU reads from.
AllocatorsIntact ==
    \A list \in InFlight : list.allocator # Null => list.value \in recorded[list.allocator]

\* A list that draws finds the constants of its own view, although the views of a
\* swapchain share one set of buffers: the wait at the end of RenderView sees to it.
ConstantsIntact ==
    \A list \in InFlight : list.model > 0 =>
        /\ constants[list.allocator] = list.value
        /\ modelSize[list.allocator] = list.model

\* Upload buffers and allocators on the stack of a call outlive the list.
CallOutlivesItsList ==
    \A list \in InFlight : list.ownedByCall => pc = "wait" /\ ~cpuWaited

Awaited(queue) == {e.upload : e \in queue}

\* What an upload uses is freed only after its list has completed.
NoReleaseInFlight ==
    \A list \in InFlight : list.upload =>
        <<device, list.value>> \in Awaited(commandAllocatorQueue) \cap Awaited(resourceQueue)

\* What an upload uses is freed only after everything submitted before its list has
\* completed: what the entries of LoadGLTF, one value too low, do guarantee.
NoReleaseBeforePredecessor ==
    \A n \in DOMAIN gpu : gpu[n].upload =>
        \/ n = 1
        \/ <<device, gpu[n].value>> \in Awaited(commandAllocatorQueue) \cap Awaited(resourceQueue)

\* What a list in flight reads is left alone until it has completed, by every call of
\* the plugin and of D3D12QueueWrapper; the buffers of an upload until its turn comes.
GpuReadsIntact ==
    AllocatorsIntact /\ ConstantsIntact /\ CallOutlivesItsList /\ NoReleaseBeforePredecessor

\* A view frees everything whose value had completed when the view was submitted,
\* whatever the order of the uploads and the devices they were made for.
NothingOverdue ==
    [][/\ ReleaseAllocators => \A e \in commandAllocatorQueue' : e.fenceValue > completed
       /\ ReleaseResources => \A e \in resourceQueue' : e.fenceValue > completed]_vars

\* Every call returns: a fence value that is waited for is signaled at last.
CallsReturn == pc # "idle" ~> pc = "idle"
=============================================================================
