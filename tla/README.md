# OpenXR-CTS verification

TLA+ models of the parts of the OpenXR conformance test suite and loader that
keep state across calls, TLC configurations that check them on small instances,
and TLAPS proofs about all of them: the four records of the conformance layer, the
loader's instance with its API layers and its labels, the framework that runs the tests, and
the Direct3D 12, Vulkan and OpenGL plugins. Source paths below are
relative to the repository; `CL` stands for `src/conformance/conformance_layer`, `FW` for
`src/conformance/framework`, `UT` for `src/conformance/utilities` and `LD` for `src/loader`.

## 1. The system

The repository holds three programs that meet in the calls of the OpenXR API:

* the **conformance tests** (`src/conformance`), a test library over a framework
  of session, swapchain, event and graphics helpers;
* the **conformance API layer** (`CL`), inserted between the application and
  the runtime, which forwards every call and compares what the runtime does with
  a record of its own; the layer reports a runtime, it must not be wrong itself;
* the **loader** (`LD`), which finds a runtime and API layers, builds the chain
  of calls through them and keeps the one `XrInstance` of the process.

An application thread's call enters the loader's trampoline, passes the layers
(the conformance layer among them) and ends in the loader's terminator or the
runtime. On the way back every layer updates its record. The application may
make most calls on several threads at once, so every record is shared state. The
layer's generated ABI code catches exceptions; an unknown handle becomes
`XR_ERROR_HANDLE_INVALID` and anything else aborts the process. What the layer
finds wrong leaves it as a debug message, goes through the loader's logger to the
messenger that the framework has chained to its instance, and fails the test there.
The tests draw with one of several graphics plugins; there the other actor is the
GPU, which executes command lists long after the call that submitted them.

### Components

| Component | State | Operations | Hard behaviour | Module |
|---|---|---|---|---|
| Handle registry: `CL/HandleState.*`, `CL/Negotiate.cpp`, `src/scripts/template_gen_dispatch.cpp` | a map of handles, a tree of heap objects with parent and child pointers, custom state | lookup, clone for child, register, set custom state, recursive unregister, the walk of `xrPollEvent` | any interleaving of calls between critical sections, a runtime call between two of them, failures | `HandleRegistry` (proved) |
| Session record: `CL/Session.cpp`, `Instance.cpp` | session state, begun, exit requested, frame begun, frame count, last display time | begin, end, exit, frames, state change event | events handled on another thread than the calls; the runtime acts before the record | `SessionConformance` (proved) |
| Actions: `CL/ActionSet.cpp`, `Session.cpp`, `Instance.cpp` | the atomic `syncActionsState`, the last result of each action set | sync, profile change event, exhausted queue | a lock-free flag between two calls on two threads | `SyncActions` (proved) |
| Swapchain record: `CL/Swapchain.cpp`, `GraphicsValidator.cpp` | state per image, queue of acquired images | enumerate, acquire, wait, release | order of records, failure inside a hook, static swapchains | `SwapchainConformance` (proved) |
| Loader instance, runtime, logger: `LD/loader_core.cpp`, `loader_instance.cpp`, `runtime_interface.cpp`, `loader_logger.cpp` | active instance, runtime interface, dispatch tables, messenger map, recorders | create, destroy, enumerate extensions, messengers | early returns that skip clean-up, calls under different locks, layers that fail | `LoaderInstance` (proved) |
| API layers and their manifests: `LD/api_layer_interface.cpp`, `manifest_file.cpp` | list of layers, libraries | search, enable, load, report and filter extensions | one of several fails; lists of directories with odd entries | `ManifestFiles`, `ApiLayers` (proved) |
| Names, labels, messages: `src/common/object_info.*`, `LD/loader_logger.cpp` | names, a list of labels per session, messengers | begin, end, insert, name, submit, report | labels end by other calls, narrow counts, lossy conversions | `DebugLabels` (proved) |
| Direct3D 12 plugin: `FW/graphics_plugin_d3d12.cpp`, `UT/d3d12_utils.*`, `UT/destruction_queue.h` | allocators, constants, destruction queues, fence | device, clear, upload, view | the GPU reads what the CPU reuses and frees | `D3D12Plugin` (proved) |
| Vulkan plugin: `FW/graphics_plugin_vulkan.cpp`, `UT/vulkan_utils.*`, `FW/pbr/Vulkan` | two command buffers, recorded uploads, staging buffers | device, clear, copy, upload, view | waits that give up, calls that throw half-way | `VulkanPlugin` (proved) |
| OpenGL and OpenGL ES plugins: `FW/graphics_plugin_opengl*.cpp`, `src/common/gfxwrapper_opengl.c` | window, context, names, handle containers | device, context, objects, cached images | steps of making a window fail; names outlive contexts | `GpuWindow`, `OpenGLPlugin` (proved) |
| Sessions, frames, events of the framework: `FW/conformance_utils.*`, `FW/composition_utils.*`, `FW/action_utils.*`, `UT/event_reader.*` | the believed session state, events and readers | create, await, begin, run, sync, exit, end, tear down | the runtime moves between any two calls and may stop moving | `FrameworkSession` (proved) |
| Tests with threads: `test_FrameSubmission.cpp`, `test_multithreading.cpp` in `src/conformance/conformance_test` | a frame queue; workers, their objects and mutexes | start, queue, dequeue, exercise, join | exceptions that leave threads, calls that must not overlap, names and handles of other threads | `FrameworkSession`, `ThreadExercises` (proved) |
| Space, value and struct checks, D3D11 validator | none | check one answer | none: pure | not modelled |
| Test bodies, hosts, generators, data, Metal and D3D11 plugins | - | - | rendering, I/O, tables | not modelled |

`PROJECT.json` lists all components with their sources, the reason for each one
that is left out, the hazards at their lines, and which lines every definition of
the modules stands for.

Components interact through three kinds of steps: a *call forwarded* to the
runtime or *submitted* to the GPU (after it the other side acts when it likes),
a *critical section* under one of the mutexes, and an *event* queued by the runtime
at one time and polled, perhaps on another thread, at a later one. Every model is
written in these steps, so that TLC interleaves exactly what the program can
interleave.

## 2. The modules

### HandleRegistry, HandleTree (the core)

`HandleRegistry.tla` models the map of handles and the tree of `HandleState`
objects. State and code:

| Variable | Code |
|---|---|
| `runtime`, `owner`, `app` | the runtime's living handles, what each was created from, those whose creating call has returned |
| `handleStates`, `mutex` | `g_handleStates`, `g_handleStatesMutex` when held over several steps |
| `heap`, `stateKey`, `stateParent`, `children`, `customState` | the `HandleState` objects and their fields |
| `pc`, `arg`, `new`, `ptr`, `doomed` | each thread's place in a call and its locals |
| `faults`, `churned` | what went wrong; whether a session came or went during a poll |

| Actions | Code |
|---|---|
| `CreateInstance`, `RegisterHandleState` | `ConformanceLayer_RegisterInstance` and `RegisterHandleState` |
| `BeginCreate`, `RuntimeCreate(Fails)`, `FindParent`, `CloneForChild`, `RegisterHandleState`, `SetCustomState` | the generated `xrCreate*`: lookup, forwarded call, second lookup, clone, register, custom state in the hook |
| `BeginDestroy`, `RuntimeDestroy(Fails)`, `UnregisterHandleState`, `UnregisterChild`, `EraseSelf` | the generated `xrDestroy*` and the recursive unregistration; one step per level, under the mutex |
| `BeginPoll`, `PollUnavailable`, `PollSessionEvent`, `FindEventSession`, `CheckEventPayload` | `xrPollEvent` and the look-up and use of an event's session |

The recursion's stack needs no variable: it is the chain of parents of `ptr[t]`.
`CloneForChild` appends to the parent's children under the parent's mutex, not
under the map's, and so may run between the steps of an unregistration.
The application keeps the external synchronisation of the API (`Usable`,
`Quiet`): a handle is not in use, and its children are not in use, while it is
destroyed. The constant `EagerReuse` says whether the runtime may give out a freed
handle value again before the destroy that freed it has returned to the application.

`HandleTree.tla` is the abstract specification: a set of registered handles with
parents, where one handle at a time is inserted under a registered parent and
one at a time, without children, is removed. `ImplementsTree` states that the
map and objects implement it under the mapping `treeBar`.

### SessionConformance, SessionLifecycle

One session: a runtime that conforms to the session life cycle, next to
`CustomSessionState`. Each call is the runtime's step followed by the step of the
hook under the session's lock; `xrEndFrame` takes the lock before it forwards,
as the code does. Reports of the layer are the set `reports`; since the runtime
conforms, each *error* is a false one, and each of the three *warnings* (a suspicion of
the layer, "possibly nonconformant") needs an excuse, which `NoFalseReport` names:

* `synchronizedNoFrame`: a runtime that ends sessions before their first frame
  (`endsEarly`, the third exception of the comment at `CL/Session.cpp:82`);
* `stoppingNotEnded`: an end refused in STOPPING because the session is being lost, with
  LOSS_PENDING in the queue; it does occur in the run, and the code calls it a suspicion
  for this reason;
* `endNotStopping`: a runtime that `AcceptsEarly`.

`MayOverlap` is the set of pairs of
calls that the application makes concurrently, `Races` those pairs among them whose
records can overtake each other, and `AcceptsEarly` whether the
runtime accepts a begin or end before the application polled the state that
allows it. `SessionLifecycle.tla` is the life cycle as the layer understands it;
`ImplementsLifecycle` maps the layer's record to it.

### SyncActions

The atomic `syncActionsState` (`ONGOING` while `xrSyncActions` is in the runtime,
`CALLED_SINCE_QUEUE_EXHAUST` after it, lowered by the compare-exchange of an
exhausted `xrPollEvent`), the recorded result of an action set, and the check of
the runtime's answer against the last session state seen. The exhausted answer of
the runtime and the compare-exchange are two steps. A `Rogue` runtime may also
queue a profile change outside of any sync. Four variables (`calledSince`,
`rtLastSync`, `queuedDuring`, `endedInPoll`) are history for the properties and
no guard reads them.

### SwapchainConformance, SwapchainImages

One swapchain, static or not: the states and the queue of images of
`CustomSwapchainState` next to the runtime. Whether the runtime keeps the rules
(`Rule`) is chosen at the start from `Conformance`; one that need not may break any
of them, and `misbehaved` remembers that it did. The first acquire without an
enumeration runs the enumeration inside the hook, under the mutex, and may fail. An
index out of the bounds of `imageStates` sets `corrupted`, and the model says nothing
after it; a wait that succeeds with `XR_SESSION_LOSS_PENDING` is not recorded by the
hook, and `unrecorded` remembers it. `SwapchainImages.tla` is the abstract
swapchain, a queue with its head waited on or not.

### ManifestFiles, ApiLayers, LoaderInstance

`ManifestFiles.tla` is the search for manifests of API layers on Linux: the lists of
directories in the environment and how `CopyIncludedPaths` cuts them up, the order
of the search path, which files in it are read, which are enabled by environment
variables. `ApiLayers.tla` adds what `ApiLayerInterface` makes of the files:
implicit ones, then those named in `XR_ENABLE_API_LAYERS` and in the create info,
each name once; loading with its three ways to fail and their different consequences;
the libraries that stay open; the extensions reported and those taken out of the
create info again. Both are operators on sequences, without state.

`LoaderInstance.tla` is the state machine over them: `xrCreateInstance`,
`xrDestroyInstance` and the enumeration of extensions under
`GetGlobalLoaderMutex`, and messengers, which the application creates and destroys
without it. Every creation picks a `request` (environment, names, extensions) and how
each library behaves. A layer may fail on the way down or after the terminator has
succeeded. The terminators of the loader, the logger's two maps and the runtime
interface's maps are explicit. The messenger chained to the create info is the
loader's own (`defaultMessenger`).

### DebugLabels, SessionLabels

`DebugLabels.tla` has the label lists per session handle and the names of objects of
`DebugUtilsData`, the messengers with their severities and types, and the three
ways a message comes about: from the application (`xrSubmitDebugUtilsMessageEXT`),
from the loader (`LogErrorMessage` and its kin), and from the conformance layer, whose
errors fail the test through the framework's messenger. `message` is the last one:
its text, whom it reached, whether it failed the test. The widths of the
counts in a message are modulo `CountWidth`. `SessionLabels.tla` is the promise of
the extension: nested regions and at most one individual label after them; the one
list of the code is mapped to it by `ImplementsLabels`: what is not an individual label is
a region at its place in the list, so that a region behind an individual label fits no
state of `SessionLabels`.

### D3D12Plugin

One CPU thread of a test and the GPU. The GPU's lists complete in order, each
signaling its fence value. Ghost fields of a list say what it reads (the allocator it
was recorded with, the size of the model buffer, whether its call owns the rest);
`recorded`, `constants`, `modelSize` say what the CPU has since put there. The two
destruction queues are priority queues of entries with the fence value that
`LoadGLTF` gave them. Devices are numbered; the plugin object, its queues and its
mesh container live on from one to the next, as in the code. The calls of a test
follow the order its callers keep: a slice is cleared before it is rendered to.

### VulkanPlugin

The five states of a `CmdBuffer` for each of the two buffers, the uploads recorded into the
copy buffer, the staging buffers kept for them, and the GPU. The GPU completes a list
or hangs for ever. Each wait ends when the fence is signaled or after its timeout, and
the code looks at the result in neither case. Any Vulkan call may fail, which leaves
a buffer in the state it had got to (`ExecuteFails`, `RenderViewFails`).

### GpuWindow, OpenGLPlugin

`GpuWindow.tla` has for each platform the steps of `ksGpuWindow_Create`, what
each takes from the system and what its failure does, and what `ksGpuWindow_Destroy`
gives back. `OpenGLPlugin.tla` is the life of the plugin object over such windows:
`InitializeDevice` with all its places to throw or reject, the names it makes, the
containers of meshes and models whose generation invalidates handles, depth textures
and the current context, for OpenGL on Windows and Xlib and OpenGL ES on Android.
Each object is the number of the window whose context it was made in.

### FrameworkSession

The framework's session helpers as an interpreter of scripts: each of the eight tests
is a sequence of the helper operations that real tests use (two ways of
`AutoBasicSession`, the frame iterator, `CompositionHelper` with and before its
`ActionLayerManager`, the test of all session states, the pipelined test, the test of
many threads), and each operation is its
sequence of runtime calls with every early exit, deadline and failure. The runtime
changes state (following `SessionLifecycle`), raises events, refuses calls that are out of
order and loses the session between any two calls. The event queue with its readers
is part of the state, and tearing down includes the cases where no destructor runs.
`Timed_Pipelined_Frame_Submission` adds a thread, `appThread`, that waits for frames and
queues them for the main thread, which begins, draws and ends them; the step `render`
interleaves the two in the order of their critical sections and runtime calls. Whatever
the main thread throws before the join destroys a joinable `std::thread`: the outcome
is then `"terminated"`, the end of the whole program.

`ThreadExercises` is the test of many threads: each worker picks functions at random
and calls them on the instance and the session that all share and on objects of its
own. A function is the sequence of its calls (make, ask, drop, take a mutex), which the
workers interleave; making an object may fail at a limit of the runtime or because its
name is taken, any call may fail once, and an exception is counted and judged after
the join. The functions of a single call stand behind one of them
(`Exercise_xrPollEvent`). Two workers inside
`SwapchainImageDataMap::Adopt` are a data race, whose outcome `"crashed"` is one that the
program may have.

### Modules for TLC and for the proofs

`MC*.tla` give symmetry sets and the values of definitions such as `MayOverlap`,
`Requests` and `CreateInfos`; the plugins and the framework run without one.
`HandleRegistryInv.tla` states the inductive invariant (checked by TLC too),
`HandleRegistryProofs.tla` proves it and, from it, the safety invariants, the action
property, the refinement and the conditional absence of faults. The other `*Proofs.tla` state the inductive invariant of
one module each and prove its theorems: `SyncActionsProofs`, `SessionConformanceProofs`,
`SwapchainConformanceProofs`, `LoaderInstanceProofs` with a last part about `DebugLabels`,
`D3D12PluginProofs`, `OpenGLPluginProofs`, and `FrameworkProofs` over `FrameworkInv` for the
framework, with a last part about `VulkanPlugin`.

## 3. The runs

| Run | States | What it shows |
|---|---|---|
| `registry` | 88,971 | 3 threads. The objects stay a tree that agrees with the map, a usable handle always resolves to a complete object, an unregistration removes exactly what was destroyed, between calls map and runtime agree and nothing leaked; no fault at all unless a session comes or goes during a poll; the tree of handles is implemented; the invariant of the proofs holds |
| `registry_nullderef` (violation) | - | `xrPollEvent` reaches a session whose custom state is not set yet |
| `session` | 382,696 | 3 threads, which make any calls at the same time but those that race, with runtimes that do and do not end sessions before a frame. No false error, no suspicion but the two that are excused (a session ended early, a session being lost), the record agrees with the runtime between calls, the life cycle is implemented |
| `sync` | 31,404 | 2 threads, poll beside sync, rogue runtime. The flag tells rogue profile changes from legal ones unless a sync ended inside a poll; suspicions are explained; the action set holds the last answer that did not fail |
| `swapchain` | 23,851 | 3 threads, conforming runtimes with every overlap that is no race, and runtimes that answer anything. No false report but those of a failed enumeration or an ignored wait; each broken rule is reported by the time the call returns; record and queue agree; the abstract swapchain is implemented |
| `loader` | 299,015 | 3 threads, every request in every environment, libraries that fail in every way. Nothing is used after it is gone, maps and libraries agree between calls, a chain consists of the layers asked for, in the directories listed, and accepts the extensions that were reported |
| `labels` | 45,396 | 2 session handles, 2 messengers. The list of a handle is nested regions with one individual label; each message carries the names and labels it should or lacks the labels for one of two reasons, reaches who asked for it, and fails the test exactly if it is an error about conformance |
| `d3d12` | 89,433 | What a list in flight reads is not reset, overwritten or freed (the buffers of an upload until its turn comes), the destruction queues keep nothing too long, every call returns |
| `d3d12_release` (violation) | - | a view frees the staging buffers of an upload in flight |
| `vulkan` | 2,244 | Whatever hangs, times out or throws, no buffer in flight is touched and no texture is drawn with before its upload; nothing is submitted after a wait gave up; every call returns |
| `opengl` | 962,736 | What a window took is given back unless `InitializeDevice` gave the window up; no object, name or handle of one device is used or deleted in the next |
| `framework` | 1,023,746 | 8 tests, with and without graphics, two of them with threads of their own. Calls in order and exclusive where they must be, failures explained, readers miss nothing, resources and objects given back, every test ends |

A property that is a conjunction has named parts, each with a comment of its own:
`NoFault` and `NoFalseReport`, `VerdictExact`, `ReportsExplained`, `NothingUsedGone`,
`LayersAgree`, `MessagesExplained`, `GpuReadsIntact`, `ListsIntact`,
`ObjectsStayWithTheirDevice`, `FailuresExplained`, `ReadersSeeAll`, `GivenBack`.

A violation run checks one property that a comment of the repository states;
`PROJECT.json` quotes it under `findings`.

### Bounds, and why they are enough

* `registry`: three threads let a third one poll or create while one destroys and
  another creates; two sessions with two leaves give siblings, a tree of the full
  depth three and a subtree that must stay when its sibling goes; five objects
  are one per handle, so a leaked object would block every later creation and
  also break `QuiescentAgreement`. The violation run has a sixth object,
  because it needs a handle value with two objects. The theorems remove these
  bounds.
* `session`: two frames distinguish the first frame from a later one and allow a
  second frame to be begun while the first is still open (a discard). The bound
  on time lets both be predicted and one more be waited for. Two queued events are
  a state change followed by another before the first is polled.
* `sync`: three events allow two profile changes of one sync with a state change
  between them. The theorems remove the bound.
* `swapchain`: three images and up to three held make oldest, middle and youngest
  different, so that a queue taken at the wrong end is seen; one number beyond the
  last image covers indices out of range, and `MaxHeld` lets a runtime hand out an
  image twice. A runtime that does not conform is called by one thread at a
  time, because the question is the judgement of one answer.
* `loader`: two handle values let a destroyed value be replaced or reused, three
  messengers let the default one and two others live together. Of the eight manifests
  one name is implicit and explicit, one is found in several directories, one needs a
  variable, one is invalid and one lies where only an odd list leads; the requests
  combine variables, names and extensions in one home, and fewer of them with five
  odd environments (`MCLoaderInstance.tla`). Every library fails in every way.
* `labels`: three labels are two regions and an individual label, or one more than
  `CountWidth` can count; two sessions tell whose labels a message carries. Messages
  name one or two objects (`MaxObjects`), sessions or not.
* `d3d12`: fence values up to 5 are the two of an initialization and three lists more, so
  that an upload, its predecessor and its successor are in flight together; the second
  device starts the values over while entries of the first are queued; a view
  with more objects than fit (`MaxObjects`) replaces the model buffer.
* `vulkan`: two models are one upload in flight and one recorded. The states are few because
  each call waits for its list, so that work does not accumulate.
* `opengl`: three windows and two shutdowns are a device, a rejected or replaced one, and
  one after both; two objects of a kind make an index in bounds for a stale handle.
* `framework`: ten events are one full cycle of a session with its profile change.
  After the bound the runtime falls silent, which it may do anyway at any time.
  `FrameCount` is 3 where the code has 380: one frame is being drawn, the next is waited
  for or queued, and a third shows the throttle of `xrWaitFrame` releasing the thread again.
  The test of many threads sees five events (`FewEvents`), those up to FOCUSED. The
  two workers are the code's `threadCount`; each calls two functions where the code
  calls 100: a second function meets what the first one left, and the conflicts (a mutex, a
  name, a handle, a container) are between two workers. One failing call stands for
  any number.

`SYMMETRY` is used in `registry`, `session`, `sync`, `swapchain`, `loader` and
`labels`, whose properties are invariants and refinements (safety); no run that checks
liveness has symmetry. `CHECK_DEADLOCK FALSE` is set where the system may really
stop: after an abort or bad access (`registry`), in a lost or exited session or at
the bound on frames and times (`session`), when all images of a static swapchain have
been used or `corrupted` is set (`swapchain`).

### Fairness

The layer and the loader have no threads, no queues they serve and no retries of
their own, and every call's progress is the progress of the thread that makes it; their
specifications are `Init /\ [][Next]_vars` and their properties safety properties.
Three modules state fairness:

* `D3D12Plugin`: `WF(Complete)`, the GPU executes what was submitted to it, and
  `WF(Continue)`, a thread inside a call runs on. `CPUWaitOnFence` has no timeout, so that
  `CallsReturn` needs both.
* `VulkanPlugin`: `WF(Resume)` alone. Waits of drawing calls have a timeout, so that
  `CallsReturn` holds even when the GPU hangs. (`VulkanShutdownDevice` waits without one and is
  one step here, enabled when the GPU is done.)
* `FrameworkSession`: `WF(Framework)`, `WF(AppThread)` and `WF(Worker)`, the runtime's calls
  return and the threads of the test go on, and `WF(DeadlinePasses)`, the clock runs. The runtime is under no obligation to move the
  session, and `EveryTestEnds` holds nevertheless.

### Overlaps that the passing runs leave out

`MayOverlap`, `AcceptsEarly`, `EagerReuse` and `~churned` name the cases in which
the code is *not* right, or admits a race in its own comments. For sessions and
swapchains the set `Races` is the exact border: the runs let every other pair overlap
(`Harmless` in the MC modules), the theorems assume no more than that no race overlaps,
and with any one pair of `Races` added, or with `AcceptsEarly`, TLC finds an invariant
of the run violated. They are not
assumptions that the API grants; each is a hazard in `PROJECT.json`:

* a runtime that hands out a freed handle value at once (`EagerReuse`): with
  `EagerReuse = TRUE` TLC finds that a creation on another thread meets the old entry
  (`template_gen_dispatch.cpp:109`) and the layer aborts;
* polling beside `xrBeginSession`, `xrEndSession` or `xrRequestExitSession`, two of
  these three beside each other, two threads that poll, begin or end, and beginning
  beside `xrEndFrame`: the record of the session lags behind the runtime. With the
  pair of polling and ending allowed, IDLE is reported as illegal although the session had
  ended (`CL/Session.cpp:323` records the end after the runtime has acted);
* a sync that ends while another thread is inside `xrPollEvent`: the comment at
  `CL/Instance.cpp:97` describes the window between exhausting the queue and
  lowering the flag, and the model shows it is open during the whole poll
  (`endedInPoll` in `FlagAgrees` and `FalseReportExplained`);
* parallel `xrSyncActions` (admitted at `CL/Session.cpp:228`);
* two acquires, an acquire next to a wait or a release, or a wait next to a release,
  whose records overtake each other (`Races` in `SwapchainConformance`);
* sessions that come or go while another thread polls: an event may name
  a session that is not registered yet or has just been freed, and the walk over
  sessions may meet one without custom state (`registry_nullderef`).

### Other disagreements that the models make explicit

Each of these is a branch of a model and an exception named in a property, with no run of
its own:

* A wait that succeeds with `XR_SESSION_LOSS_PENDING` is not recorded
  (`CL/Swapchain.cpp:149`), and the release after it is reported (`unrecorded`).
* A chained messenger that fails after the instance is active leaves an instance that
  nobody can destroy (`LD/loader_core.cpp:297`); `QuiescentAgreement` asks for
  `app \in {current, Null}` and no more.
* `LoadApiLayers` means to "clear all errors" when any layer has loaded
  (`LD/api_layer_interface.cpp:332`), but a later layer without a negotiation function
  fails the creation all the same, and the order of failing and loading decides
  (`LoadLayer`).
* `CopyIncludedPaths` (`LD/manifest_file.cpp:146`) turns an empty entry into the
  root although line 131 means to skip it, and skips a list of a single character;
  a directory listed twice loads its implicit layers twice (`SearchExplained`,
  `Listed` in `LayersExplained`). A list that starts with a separator reads the character
  before the list and is left out. The search for the runtime reads
  `XDG_CONFIG_DIRS` by another loop (lines 311–352) that skips empty entries.
* Labels belong to the value of a handle and outlive the session: nothing calls
  `DeleteSessionLabels` (`src/common/object_info.h:202`).
* The type of messages about conformance is lost in both conversions of the logger
  (`LD/loader_logger.cpp:76`), so that the comment at line 218 does not hold
  (`ReachesWhoAsked`).
* `LoadGLTF` of the Direct3D 12 plugin queues what its list uses with the value of the
  list before (`d3d12_release`); what does hold is `NoReleaseBeforePredecessor`.
* The Vulkan plugin goes on after a wait has timed out: render targets and the call's own
  buffers may then be freed in flight (`FreedInFlightOnlyAfterTimeout`).
* `InitializeDevice` of the OpenGL plugins leaves the window of a device it rejects, although
  `FW/graphics_plugin.h:267` wants the plugin as if never initialized; names of a
  replaced OpenGL device are later deleted in another context (`WindowsAccounted`,
  `ForeignDeletesExplained`).
* The test of all session states calls `xrWaitFrame` after `xrEndSession` unless IDLE
  is there at once (`test_SessionState.cpp:92`); `CallsInOrder` excepts it.
* A session lost while the pipelined test draws terminates the program, since nothing joins
  the thread before the exception leaves the function (`test_FrameSubmission.cpp:317`); one
  lost while the other thread waits may pass, because `XR_SESSION_LOSS_PENDING` ends
  that thread (line 334) and is a success at line 414 (`PipelineExplained`).
* In `test_multithreading.cpp`, `Exercise_xrCreateActionSpace` destroys a handle that was
  never written when the runtime is at its limit (lines 578–581), and
  `Exercise_xrCreateAction` tolerates no limit for the set it makes (`ErrorsExplained`).
  `Exercise_xrCreateSession` (line 507) takes no mutex, although the comment at line
  202 lists its calls among those that must not overlap (`CallsExclusive`).
* `SwapchainImageDataMap::Adopt` (`FW/swapchain_image_data.h:338`) has no mutex, and the
  test of many threads calls it on several threads unless the API is OpenGL
  (`ThreadsExplained`).

## 4. The proofs

| Module | Theorem | Property |
|---|---|---|
| `HandleRegistryProofs` | `Inductive`, `TypeCorrect` | `IInv`, `TypeOK` |
| | `AbortFree` | `NoAbort` |
| | `WellFormed` | `RegistryWellFormed` |
| | `Resolve` | `UsableHandlesResolve` |
| | `Agreement` | `QuiescentAgreement` |
| | `ExactDestroy` | `DestroyIsExact` |
| | `Refinement` | `ImplementsTree` |
| | `FaultFree` | `NoFault` |
| `SyncActionsProofs` | `Invariance`, `TypeCorrect` | `IInv`, `TypeOK` |
| | `FlagCorrect` | `FlagAgrees` |
| | `ResultCorrect` | `SyncResultAgrees` |
| | `ReportsTrue` | `ReportsExplained` |
| `SessionConformanceProofs` | `TypeCorrect` | `TypeOK` |
| | `Verdict` | `NoFalseReport` |
| | `Record` | `RecordAgrees` |
| | `LifecycleImplemented` | `ImplementsLifecycle` |
| `SwapchainConformanceProofs` | `TypeCorrect` | `TypeOK` |
| | `VerdictIsExact` | `VerdictExact` |
| | `RecordIsExact` | `RecordAgrees` |
| | `SwapchainImplemented` | `ImplementsSwapchain` |
| `LoaderInstanceProofs` | `NothingIsUsedGone` | `NothingUsedGone` |
| | `Agreement` | `QuiescentAgreement` |
| | `LayersHaveAnOwner` | `LayersOwned` (a part of `LayersAgree`) |
| | `LibrariesAreClosed` | `LibrariesAgree` (a part of `LayersAgree`) |
| | `LayersAgreement` | `LayersAgree` |
| | `ReportedExtensionsAreAccepted` | `ReportedIsAccepted` |
| | `TypeCorrect` | `TypeOK` |
| | `LabelsImplemented` | `ImplementsLabels` of `DebugLabels` |
| | `MessagesAreExplained` | `MessagesExplained` of `DebugLabels` |
| `D3D12PluginProofs` | `TypeCorrect` | `TypeOK` |
| | `ReadsStayIntact` | `GpuReadsIntact` |
| | `NothingIsOverdue` | `NothingOverdue` |
| `FrameworkProofs` | `ReadersReadAll` | `ReadersSeeAll` |
| | `AllGivenBack` | `GivenBack` |
| | `CalledInOrder` | `CallsInOrder` |
| | `FailedWithReason` | `FailuresExplained` |
| | `WorkersInOrder` | the parts of these two about workers: `CallsExclusive`, `ThreadsExplained` |
| | `Main`, `CallsFit` | `MainInv`, `CallInv`: the inductive invariants of the framework |
| | `VulkanTypeCorrect` | `TypeOK` of `VulkanPlugin` |
| | `ListsStayIntact` | `ListsIntact` |
| | `NothingSubmittedAfterTimeout` | `RefusesAfterTimeout` |
| `OpenGLPluginProofs` | `TypeCorrect` | `TypeOK` |
| | `Accounting` | `WindowsAccounted` |
| | `Separation` | `ObjectsStayWithTheirDevice` |

Each inductive invariant below was checked by TLC, as an invariant of the run, before it was
proved. Every theorem is for any value of the constants that satisfies the module's
`ConstantsAssumption` (`LabelsAssumption` in `DebugLabels`), which says what kind of value a constant is and no more. In
the framework this is split by module: any set of workers without `"nobody"`, any of the
eight tests, any bound on events, and at least one invocation and one frame
(`WorkersAssumption`, `TestsAssumption`, `GraphicsAssumption`, `FrameAssumption`). The
theorems about layers use two further ones of that kind: `RequestsAssumption` (a request has
lists of names and an environment) and `FilesAssumption` (lists of directories, and a list of
manifest files in which a record stands for one file and so occurs once).

### The registry

For any sets of threads, sessions, leaves and objects, from `ConstantsAssumption` (the
kinds of handles are disjoint and `Null` is none of the values) and, in each theorem,
`~EagerReuse`, which is needed (see above).

*The invariant.* None of the safety properties is inductive alone. That no
registration meets an old entry depends on who may hold an entry for a handle that
the runtime considers free; that an unregistration finds every descendant depends
on every living or doomed handle being reachable through parents that nobody
else may erase. `IInv` says, besides types:

* `CallInv`: the locals of each call fit its place: what a creating call got
  from the runtime is alive, unknown to the application and not in the map until
  this call registers it; an unregistration holds the mutex and stands on an
  object of a handle it has destroyed;
* `Isolation`: no call in progress is on a handle within one being destroyed, and
  no two creating calls have the same new handle;
* `DoomInv`: what a call has destroyed in the runtime is a whole subtree, all of
  it still in the map when the unregistration starts;
* `Tracking`: the owners form the instance, session, leaf order (`OwnerInv`), the
  map lacks a living handle only while its creating call is on the way
  (`MapInv`), each object hangs below the object of its owner (`HeapInv`), the
  pointers are mutual (`RegistryWellFormed`), the application's handles are
  complete (`CustomInv`);
* `FaultInv`: no abort and no false `HANDLE_INVALID` so far.

*The argument.* `LocalStep` deals once with the steps that touch no shared state;
the six steps that do (creation in the runtime, clone, register, custom state,
destruction in the runtime, erase) have a lemma each, with one step per conjunct.
The crucial ones are `RuntimeCreateStep`, where `~EagerReuse` makes the new value
unknown to the map, and `EraseSelfStep`, where the absence of children means that
no object is left with a pointer to the erased one.

*Refinement.* Under `IInv` the tree that the objects stand for is that of the
owners (`TreeByOwners`); registering inserts a leaf, erasing removes one, and all
else stutters. *Faults.* Without churn a session that a poll meets is one that the
application has, so its object is complete and stays; `FaultFree` carries this as
a second invariant on top of `IInv`.

### The sync flag

For any number of threads, any bound on the queue, and a runtime that is a rogue or
not, from `ConstantsAssumption` and, in each theorem, `OneAtATime`: two syncs, and two
polls, do not overlap (a poll and a sync may). Without it the flag is defeated, as
`CL/Session.cpp:228` says. None of the properties is inductive: whether the flag is
right when an event is examined depends on who is inside which call and on what is still
queued. `IInv` adds to the types:

* `OneOfEach`: one thread synchronises and one polls, and only they have a result and an
  event in hand;
* `FlagInv`: the flag is `ONGOING` exactly during a sync; outside, and unless a sync has
  ended inside a poll, it agrees with what has been called since the queue was empty,
  late only between the runtime's exhausted answer and the compare-exchange;
* `ChangeInv`: while a profile change is queued or in hand, the flag stays raised. That is
  why it may not be lowered when an event is examined, only when the queue is empty;
* `StateInv`: the last session state in flight is the runtime's, and without any the
  one observed is;
* `AnswerInv`, `ResultInv`: an answer after which no state was in flight fits the
  runtime's state; the action set lags behind by the answer still to be recorded.

Each action has a lemma with a step per part; `PollEvent`, where the queue
shifts by one, and `InteractionProfileChanged` are worked out further.

### The session record

Types and results are right whatever overlaps (`TypeCorrect` has no hypothesis). The
other theorems assume `Serialised`: no pair of `Races` is in `MayOverlap`, and the runtime
does not begin or end a session before the application knows its state. The hypothesis is
as weak as it can be: with any one race, TLC finds a violation. `IInv` adds to the types:

* `NoRace`: of the calls in progress no two race (kept because a call is made only when
  those in progress allow it, `Admitted`);
* `RunningInv`, `ExitInv`, `FrameInv`, `TimeInv`: each part of the record is the runtime's,
  or exactly one call has changed it there and its hook has not recorded it yet
  (`Unrecorded`). This is what makes the record exact although it lags;
* `StateInv`: from the state that the layer has observed, through the one being examined
  and those in the queue, the changes form a path of the life cycle to the runtime's state
  (`Leads`). The layer therefore judges a change long after the runtime made it as if it
  were made now: the session cannot have begun or ended in between;
* `SynchronizedInv`: a SYNCHRONIZED that is queued had a frame or a request to exit
  before it. The lock that `xrEndFrame` holds over the runtime's call makes the layer see
  that frame first;
* `LossInv`: a session whose LOSS_PENDING is queued, or whose end was refused although the
  layer knows it to be STOPPING, is being lost. STOPPING can only be followed by
  LOSS_PENDING while the session runs, so the queue that hides the reason begins with it.

`NoFalseReport` is part of `IInv`; `RecordAgrees` is what `IInv` says when no call is in
progress; for the refinement every change that the hook of `xrPollEvent` records is one of
the life cycle, by `StateInv`.

### The swapchain record

Again `TypeCorrect` is unconditional and the others assume `Serialised`. The theorems
cover a runtime that conforms and one that answers anything. `IInv` says that the
queue of the layer is the runtime's but for the call in progress (`QueueInv`), that the
state of each image follows from its place in the queue (`StatesInv`), that the oldest
image is waited on for the layer exactly if it is for the runtime, or a wait has been
ignored (`WaitInv`), which counts have been announced (`CountInv`), and that a rule that is
broken is reported or about to be (part of `VerdictExact`). The hooks of acquire (three
cases), wait and release have a lemma each for both directions of the verdict.

### The loader's instance

For any threads, instances, messengers, manifests and requests. What the mutex protects
is simple: one thread holds it (`MutexInv`), and each step of a call knows which instance,
runtime and tables there are (`CallInv`, `InstanceInv`). Messengers are made and destroyed
*without* it, while an instance is being enumerated or refused under it. There the proof
rests on ownership: each messenger of the runtime belongs to the application, to the
instance, or to exactly one call in progress (`OwnerInv`); `TrackedInv`, `RecorderInv` and
`ByInstanceInv` say which of the loader's maps have it at which step of that call. A layer
that fails after the runtime has succeeded leaves things over but nothing dangling; the
parts that need it say `~layerFailed`. None of this needs a fact about the layers.

About the layers `LayersHaveAnOwner` proves what does not depend on which they are: they
belong to a creation from its load to its return, then to the active instance, and each
early return of `xrCreateInstance`, as the end of `xrDestroyInstance`, drops them.

The rest of `LayersAgree` is about *which* layers these are, for any manifests, environments
and requests. The loader finds and loads them in loops over directories, names and files,
which the model writes as folds. What a fold computes is proved by induction stated about
sets (`Induction`: a set with 0 that is closed under successor holds every natural number),
since the provers cannot use the theorems that are parameterised by a predicate. The measure
that goes through all the loops is how *often* a file occurs (`Times`), not whether it does:

* `FoundTimes`: a search finds a file as often as its directory is in the search path;
* `FoundLayers`: `FindLayers` yields an implicit layer as often as it was found, and an
  explicit one so if its name is asked for and no implicit file has it (`Chosen`), however
  often it is asked for;
* `LoadedLayers`: `LoadApiLayers` keeps the files whose library loads and whose negotiation
  succeeds, opens the library once per layer kept, and closes every library when a layer that was
  asked for is missing or fails.

From these the invariant of the layers follows: each library is open as often as its layer is
in the chain (`LibrariesInv`), and while a creation works with the chain this is exactly what
its request chooses and can load (`RequestInv`). `ChainExplained` then reads the request
and the environment out of `Chosen`, `SearchRight` shows that a search goes through the entries of a list that name a
directory, in their order, but for the root (`SearchExplained`), and `Accepted` shows that an extension which
`xrEnumerateInstanceExtensionProperties` reports for a layer is accepted by a creation
with that layer. Types need the layers too, so that `TypeCorrect` comes last.

### The labels

The invariant is small: no label of a list but its last one is an individual label
(`LabelLists`), and the framework creates its messenger in one way (`LabelsInv`). It is
needed for both theorems. With it the regions of a list are its first labels
(`RegionsFirst`), and each call changes regions and individual label as `SessionLabels` says
(`StoredLabel`, `EndedRegion`): that is the refinement. The text of a message is a fold over
its objects, which `LabelsTold` shows to be the individual label and the reversed regions of
one session after the other, by the induction that the loader's folds use. The filter of the
messengers loses the type of conformance messages on both sides, so that it lets through
what it should and, of these messages, more (`ReachIsRight`); that no other message fails a
test follows since the framework's messenger asks for this type alone.

### The plugins

*Direct3D 12.* The code never asks what is in flight: it relies on who waited. `CallInv`
states what the next call may find: between calls of a test that has not failed, no list
in flight draws (`RenderView` waits), and after a slice has been rendered none uses an
image's allocator. `FenceInv` ties the lists to the fence values, `StagedInv` the
uploads to the entries of the two queues: the entry of a list carries the value before it,
which is safe only because the list before completes first. `ReadsStayIntact` proves that
and not more; that an entry may be freed while its own list runs is `d3d12_release`.

*Vulkan.* Any call may fail half-way and any wait give up. The states of the two
command buffers decide what can happen next (`DeviceInv`), and `TimeoutInv` says that a wait
that gave up leaves a buffer no call can use: `CmdBuffer::Clear` refuses it. What is in
flight when a call starts recording is therefore nothing.

*OpenGL.* Which objects a deletion may meet depends on the context bound to the thread, so
the invariant is about that one first: it is the device's, that of the window being
checked, or one InitializeDevice gave up (`CurrentInv`). From this follows whose objects the
plugin has between devices (`ObjectsInv`: none but of windows given up, except the two
names it never forgets) and that a handle of the current generation is that of an object
there is (`HandlesInv`). `Created` and `Destroyed` are the facts about the windows of the
three platforms: the failure of any set of steps leaves nothing, or the display.

### The framework

*The workers.* For any number of them and of invocations. A worker inside a function is before
one of its calls, and `Balances` says for each function how many objects of which kinds it
holds there at least and at most: a range, since making an object may have failed. `WorkerInv`
says so of every worker, that what it made it made itself and one at a time (`MadeInOrder`),
and that without an error it still has at hand whatever it has in the runtime (`AtHand`);
`FlawInv`, that a runtime without a flaw fails no call. The mutexes of a function are held
from `Lock` to the end (`Before`), hence `CallsExclusive`, and a crash needs two workers
in `Adopt`, which under OpenGL only the holder of the mutex enters. A step of one worker
disturbs the others through `held` and `alive` only, so each kind of call has one lemma.

*Where a test stands.* `MainInv` relates the place in the script to everything else: the
places an operation can be at (`PlaceInv`), whether session and device are there
(`SessionInv`), how raised, queued and polled events belong together (`EventInv`,
`ReaderInv`), where the session runs and what has been raised by then (`PhaseInv`). It takes
all of these at once: the session runs after the step that begins it *because* no step
moves on without READY, and the readers follow the events *because* only the steps before
their birth poll without them. `ReadersSeeAll` follows from `ReaderInv` and from `FocusInv`:
FOCUSED comes after the session has begun, and the reader that waits for it is there before.
`GivenBack` follows from `SessionInv` and, for the workers' objects, from `AtHand`.

*What it knows when it calls.* `CallInv`, proved on top of `MainInv`:

* `ReadyInv`, `PollInv`: what a test believes was once raised and read, so that READY was raised before
  xrBeginSession and STOPPING before xrEndSession. What a test polled by itself is a prefix of
  what was raised (`Unpolled`); that says nothing about the runtime's state *now*, which may
  have moved.
* `FrameInv`: frame and image follow from the place alone, except with two threads, where
  `PipeFlows` says who has the frame: the thread that is about to queue it, the queue, or
  the main thread, and exactly one of them. It is the heart of the pipelined test, and it holds until
  the session is lost.
* `RefusedInv`: a refused call ends the test, and it is xrBeginSession. The test has
  read READY and the session does not run. By `RaisedInv` it is then READY, so that the call
  is accepted, or lost, or the runtime has gone from READY back to IDLE in between:
  the one exception of `CallsInOrder` (`BeginKnows`). This needs the
  sequence of all events and not the last one.
* `ReasonInv`: which events were raised when a test gave up. A helper that reads IDLE behind
  READY has proof that READY was taken back (`PollFinds`); the main thread of the pipelined test
  dies with its thread joinable only after a loss (`TerminatedBy`, `PipelineExplained`); a
  frame or image stays open only where the wait for the image failed or the session was lost
  (`FrameEnds`), and no other step ends a test inside a frame (`OtherEnds`).

`CallsInOrder` and `FailuresExplained` are then `CallInv` and the part about the workers. The
test of all session states, `cycle`, is the exception that both properties name: after
xrEndSession it calls xrWaitFrame unless IDLE is there at once.

### What stays with TLC

Every safety property that a passing run checks is a theorem. Out of the prover's reach are:

* liveness under fairness (`CallsReturn`, `EveryTestEnds`) and `ENABLED`;
* what a RECURSIVE definition computes for every input; none of the models that are proved
  about has one. The loops of the loader are folds, whose lemmas are proved (see above).

## 5. What is not modelled, and why

* Arguments of calls that no record depends on; results that a hook forwards
  without looking at them (a call the runtime rejects changes nothing).
* Other types of handles: an action set or a debug messenger below the instance,
  or a swapchain or space below a session, behaves in the registry as a session
  or leaf does, except that the walk of `xrPollEvent` concerns sessions only.
  An action, a child of an action set, is as deep as a leaf.
* Handles created by events: a failed `XrEventDataSpatialAnchorCreateCompleteFB`
  registers a null space (`template_gen_dispatch.cpp:142`), a second one aborts.
* `CloneForChild` followed by a rejected registration leaves the parent with a
  pointer to the freed child; it happens only on the abort path.
* The wrap of the 32-bit `frameCount` (`CL/Session.cpp:405`) after 2^32 frames of one run:
  only whether it is zero matters, once, when the session synchronizes.
* Three checks of `CL/Session.cpp` that compare an answer with the record and are sequential
  in themselves: `xrLocateViews` succeeds only in a session that was begun (line 249; its
  races are those of the record, listed under `Races` for the calls modelled), and
  reference spaces (443–451) and swapchain formats (482–493) are enumerated as they were
  the first time, a value cached once under the lock and never changed.
* The checks without state: `CL/Space.cpp` (lines 62 and 65 test velocity bits in
  `locationFlags`), values, struct chains, formats, the comparison of
  `xrGetActionState*` with its last value.
* `LoaderLogger::data_` is used without the logger's mutex (`LD/loader_logger.cpp:203`):
  `DebugLabels` takes its calls one at a time. Likewise
  `UT/event_reader.cpp:32` polls outside the lock and stores under it; the framework
  reads events on one thread.
* The loader on other systems: the registry of Windows, the assets and the broker of
  Android, initialization data. The fields of a manifest are a valid or an invalid file.
  The search for the runtime and the negotiation with it end in one runtime or none, which
  is a choice. The lists read empty in a process with raised privileges.
* `gfxwrapper_opengl.c` on XCB, Wayland, macOS and iOS, for which
  `graphics_plugin_opengl.cpp` does not build; the Metal and Direct3D 11 plugins,
  whose calls are serialised by their drivers (reference counts and immediate
  contexts); what any plugin draws, shaders, glTF parsing and materials.
* The two-call idiom, tables of formats, extensions and interaction profiles, images and
  math: pure functions which the repository's own self-tests reach.
* The bodies of the tests, but for those whose scripts are `cycle`, `pipelined` and `threads`, and the drawing of the
  composition helpers; reports, options, hosts and generators: file, table and
  process code without a protocol of its own. The code that
  `template_gen_dispatch.cpp` generates is modelled; the generator is not.

Most of the repository's lines are of these last kinds: long rendering and window-system
functions, tables, and test bodies that are a straight sequence of checks. The
models stand for the parts that keep state over several calls, and these are a small share of
all lines.

## 6. Plan

Done: all models and runs; proofs about the registry, the sync flag, sessions, swapchains, the
loader's instance with its layers and labels, the framework with its tests, and the three
graphics plugins: every safety property of a passing run is a theorem. Next, in this order:

1. The values of actions after a sync, and spatial anchors in the registry.
2. The input devices of the tests (`FW/input_testinputdevice.cpp`) as further
   operations of the framework's scripts.
3. The search for the runtime (`RuntimeManifestFile::FindManifestFiles`) beside the
   search for layers, whose lists it reads differently.
