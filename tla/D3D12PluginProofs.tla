--------------------------- MODULE D3D12PluginProofs ---------------------------
(***************************************************************************)
(* Proofs about D3D12Plugin, for any swapchains and any bounds: what a      *)
(* command list in flight reads is left alone, and a view frees whatever is *)
(* due.  They rest on what can be in flight when the test calls the plugin. *)
(***************************************************************************)
EXTENDS D3D12Plugin, SequenceTheorems, TLAPS

\* The lists in flight follow the completed value, up to the last one signaled; a queue
\* that has been waited for has none.
FenceInv ==
    /\ Len(gpu) = fenceValue - completed
    /\ \A n \in DOMAIN gpu : gpu[n].value = completed + n
    /\ cpuWaited => completed = fenceValue

\* Between calls only the lists of uploads and of the last clear, or of a call that
\* failed, are in flight.
CallInv ==
    /\ graphicsBinding => device > 0
    /\ pc = "idle" /\ ~failed => \A list \in InFlight : list.model = 0
    /\ pc = "idle" /\ ~failed /\ drawn => \A list \in InFlight : list.allocator = Null

\* The staged resources of an upload wait for the value before its own, which is
\* not reached before the upload is the first list in flight.
StagedInv ==
    \A n \in DOMAIN gpu : gpu[n].upload /\ n # 1 =>
        [fenceValue |-> gpu[n].value - 1, upload |-> <<device, gpu[n].value>>]
            \in commandAllocatorQueue \cap resourceQueue

IInv ==
    /\ TypeOK /\ FenceInv /\ CallInv /\ StagedInv
    /\ AllocatorsIntact /\ ConstantsIntact /\ CallOutlivesItsList

\* The lists in flight, and the values of the fence.
LEMMA QueueTypes ==
    ASSUME TypeOK, FenceInv
    PROVE  /\ completed \in Nat /\ fenceValue \in Nat /\ completed <= fenceValue
           /\ Len(gpu) \in Nat /\ DOMAIN gpu = 1..Len(gpu)
           /\ \A n \in DOMAIN gpu : gpu[n] \in Lists
           /\ gpu = <<>> <=> completed = fenceValue
           /\ InFlight \subseteq Lists
<1>1. gpu \in Seq(Lists) /\ completed \in Nat /\ fenceValue \in Nat /\ completed <= fenceValue
  BY ConstantsAssumption DEF TypeOK
<1>2. Len(gpu) \in Nat /\ DOMAIN gpu = 1..Len(gpu) /\ \A n \in 1..Len(gpu) : gpu[n] \in Lists
  BY <1>1, LenProperties, ElementOfSeq
<1>3. gpu = <<>> <=> Len(gpu) = 0
  BY <1>1, EmptySeq, Zenon
<1> QED  BY <1>1, <1>2, <1>3 DEF FenceInv, InFlight

\* A queue that has nothing to wait for has nothing in flight.
LEMMA Waited ==
    ASSUME TypeOK, FenceInv, CPUWaited
    PROVE  gpu = <<>> /\ InFlight = {} /\ completed = fenceValue
<1>1. completed = fenceValue
  BY QueueTypes DEF CPUWaited, FenceInv
<1> QED  BY <1>1, QueueTypes DEF InFlight

\* What a call records is a command list, as long as there is a value left for it.
LEMMA ListIsList ==
    ASSUME TypeOK, fenceValue < MaxLists, NEW s \in Swapchains \cup {Null},
           NEW m \in 0..MaxObjects,
           NEW o \in BOOLEAN, NEW u \in BOOLEAN
    PROVE  List(s, m, o, u) \in Lists
<1>1. fenceValue + 1 \in 1..MaxLists
  BY ConstantsAssumption DEF TypeOK
<1> QED  BY <1>1 DEF List, Lists

\* A list that is submitted is in flight beside the others.
LEMMA Executed ==
    ASSUME TypeOK, FenceInv, NEW list \in Lists, list.value = fenceValue + 1,
           ExecuteCommandList(list)
    PROVE  /\ gpu' \in Seq(Lists) /\ FenceInv'
           /\ completed' \in 0..fenceValue' /\ fenceValue' \in 0..MaxLists /\ ~cpuWaited'
           /\ cpuWaited' \in BOOLEAN
           /\ InFlight' = InFlight \cup {list}
           /\ DOMAIN gpu' = DOMAIN gpu \cup {Len(gpu) + 1}
           /\ \A n \in DOMAIN gpu : gpu'[n] = gpu[n]
           /\ gpu'[Len(gpu) + 1] = list
<1>1. /\ gpu' = Append(gpu, list) /\ gpu \in Seq(Lists) /\ fenceValue' = fenceValue + 1
      /\ completed' = completed /\ fenceValue < MaxLists
  BY DEF ExecuteCommandList, TypeOK
<1>2. /\ gpu' \in Seq(Lists) /\ Len(gpu') = Len(gpu) + 1
      /\ \A n \in 1..Len(gpu) : gpu'[n] = gpu[n]
      /\ gpu'[Len(gpu) + 1] = list
  BY <1>1, AppendProperties
<1>3. DOMAIN gpu = 1..Len(gpu) /\ DOMAIN gpu' = 1..(Len(gpu) + 1) /\ Len(gpu) \in Nat
  BY <1>1, <1>2, LenProperties
<1>4. DOMAIN gpu' = DOMAIN gpu \cup {Len(gpu) + 1}
  BY <1>3
<1>5. InFlight' = InFlight \cup {list}
  BY <1>2, <1>3, <1>4 DEF InFlight
<1>8. ~cpuWaited' /\ cpuWaited' \in BOOLEAN
  BY Zenon DEF ExecuteCommandList
<1>6. FenceInv'
  BY <1>1, <1>2, <1>3, <1>8, QueueTypes DEF FenceInv
<1>7. completed' \in 0..fenceValue' /\ fenceValue' \in 0..MaxLists
  BY <1>1, QueueTypes, ConstantsAssumption
<1> QED  BY <1>1, <1>2, <1>3, <1>4, <1>5, <1>6, <1>7, <1>8

\* What is staged stays staged while a list that uploads nothing is submitted.
LEMMA StagedKept ==
    ASSUME TypeOK, FenceInv, StagedInv, NEW list \in Lists, list.value = fenceValue + 1,
           ~list.upload,
           ExecuteCommandList(list),
           commandAllocatorQueue \subseteq commandAllocatorQueue',
           resourceQueue \subseteq resourceQueue', UNCHANGED device
    PROVE  StagedInv'
BY Executed DEF StagedInv

\* A new queue has nothing in flight.
LEMMA Started ==
    ASSUME TypeOK, NEW lists \in 0..InitialLists, MayInitialize, StartQueue(lists)
    PROVE  /\ gpu' = <<>> /\ gpu' \in Seq(Lists) /\ InFlight' = {} /\ FenceInv' /\ StagedInv'
           /\ completed' \in 0..fenceValue' /\ fenceValue' \in 0..MaxLists
           /\ cpuWaited' \in BOOLEAN /\ queueWrapper' \in BOOLEAN
           /\ device' \in 1..MaxDevices
<1>1. gpu' = <<>> /\ fenceValue' = lists /\ completed' = lists /\ device' = device + 1
  BY DEF StartQueue
<1>2. gpu' \in Seq(Lists) /\ Len(gpu') = 0 /\ DOMAIN gpu' = {}
  BY <1>1, EmptySeq
<1>3. lists \in 0..MaxLists /\ lists \in Nat
  BY ConstantsAssumption DEF InitialLists
<1>4. device' \in 1..MaxDevices
  BY <1>1, ConstantsAssumption DEF TypeOK, MayInitialize
<1>5. cpuWaited' \in BOOLEAN /\ queueWrapper' \in BOOLEAN
  BY Zenon DEF StartQueue
<1>6. FenceInv' /\ StagedInv' /\ InFlight' = {}
  BY <1>1, <1>2, <1>3 DEF FenceInv, StagedInv, InFlight
<1> QED  BY <1>1, <1>2, <1>3, <1>4, <1>5, <1>6

\* With nothing in flight there is nothing to leave alone.
LEMMA NothingInFlight ==
    ASSUME gpu = <<>>
    PROVE  /\ InFlight = {} /\ AllocatorsIntact /\ ConstantsIntact /\ CallOutlivesItsList
           /\ StagedInv
<1>1. DOMAIN gpu = {}
  OBVIOUS
<1> QED  BY <1>1 DEF InFlight, AllocatorsIntact, ConstantsIntact, CallOutlivesItsList, StagedInv

\* A list that draws nothing is submitted by a call that leaves in order what is in flight.
LEMMA Submitted ==
    ASSUME IInv, MayCall, NEW list \in Lists, list.value = fenceValue + 1, list.model = 0,
           ExecuteCommandList(list), UNCHANGED <<device, graphicsBinding>>,
           list.ownedByCall => pc' = "wait",
           pc' = "idle" /\ ~failed' /\ drawn' => drawn /\ list.allocator = Null
    PROVE  FenceInv' /\ CallInv' /\ ConstantsIntact' /\ CallOutlivesItsList'
<1>1. FenceInv' /\ InFlight' = InFlight \cup {list} /\ ~cpuWaited'
  BY Executed DEF IInv
<1>2. /\ pc = "idle" /\ ~failed
      /\ \A l \in InFlight : l.model = 0 /\ ~l.ownedByCall
      /\ drawn => \A l \in InFlight : l.allocator = Null
  BY DEF IInv, MayCall, CallInv, CallOutlivesItsList
<1>3. 0 \in Nat /\ \A l \in InFlight' : l.model = 0
  BY <1>1, <1>2
<1>4. ConstantsIntact'
  BY <1>3 DEF ConstantsIntact
<1>5. CallInv'
  BY <1>1, <1>2, <1>3 DEF IInv, CallInv
<1>6. CallOutlivesItsList'
  BY <1>1, <1>2 DEF CallOutlivesItsList
<1> QED  BY <1>1, <1>4, <1>5, <1>6

\* A submission that raises an exception leaves in order what is in flight.
LEMMA SignaledOnly ==
    ASSUME IInv, MayCall, ExecuteFails, UNCHANGED <<device, graphicsBinding>>, pc' = pc
    PROVE  /\ gpu' \in Seq(Lists) /\ completed' \in 0..fenceValue' /\ fenceValue' \in 0..MaxLists
           /\ cpuWaited' \in BOOLEAN /\ failed' \in BOOLEAN
           /\ FenceInv' /\ CallInv' /\ ConstantsIntact' /\ CallOutlivesItsList'
           /\ \A list \in InFlight' : list.allocator # Null => list \in InFlight
           /\ ( /\ commandAllocatorQueue \subseteq commandAllocatorQueue'
                /\ resourceQueue \subseteq resourceQueue' )
                  => StagedInv'
<1> DEFINE signal == List(Null, 0, FALSE, FALSE)
<1>1. ExecuteCommandList(signal) /\ failed' = TRUE /\ fenceValue < MaxLists
  BY DEF ExecuteFails, ExecuteCommandList
<1>2. signal \in Lists
  <2>1. Null \in Swapchains \cup {Null} /\ 0 \in 0..MaxObjects /\ FALSE \in BOOLEAN
    BY ConstantsAssumption
  <2> QED
    BY <1>1, <2>1, ListIsList, Zenon DEF IInv
<1>3. /\ signal.value = fenceValue + 1 /\ signal.allocator = Null /\ signal.model = 0
      /\ ~signal.ownedByCall /\ ~signal.upload
  BY DEF List
<1> HIDE DEF signal
<1>4. /\ gpu' \in Seq(Lists) /\ completed' \in 0..fenceValue' /\ fenceValue' \in 0..MaxLists
      /\ cpuWaited' \in BOOLEAN /\ InFlight' = InFlight \cup {signal}
  BY <1>1, <1>2, <1>3, Executed DEF IInv
<1>5. failed' \in BOOLEAN /\ failed'
  BY <1>1, Zenon
<1>6. FenceInv' /\ CallInv' /\ ConstantsIntact' /\ CallOutlivesItsList'
  BY <1>1, <1>2, <1>3, <1>5, Submitted
<1>7. ( /\ commandAllocatorQueue \subseteq commandAllocatorQueue'
        /\ resourceQueue \subseteq resourceQueue' )
        => StagedInv'
  BY <1>1, <1>2, <1>3, StagedKept DEF IInv
<1> QED
  BY <1>3, <1>4, <1>5, <1>6, <1>7

\* The GPU completes the first list in flight: what remains stays in order.
LEMMA CompleteInv ==
    ASSUME IInv, Complete
    PROVE  IInv'
<1> USE DEF IInv
<1>1. /\ gpu # <<>> /\ completed' = Head(gpu).value /\ gpu' = Tail(gpu)
      /\ UNCHANGED <<queueVars, deviceVars, swapchainVars, destructionVars, meshVars, testVars,
                     pc>>
  BY DEF Complete
<1>2. /\ UNCHANGED <<fenceValue, cpuWaited, device, queueWrapper, graphicsBinding,
                     recorded, constants, modelSize, commandAllocatorQueue, resourceQueue,
                     meshes, generation, cubeMesh, handles, slice, drawn, failed, pc>>
  BY <1>1 DEF queueVars, deviceVars, swapchainVars, destructionVars, meshVars, testVars
<1>3. /\ gpu' \in Seq(Lists) /\ Len(gpu') = Len(gpu) - 1 /\ Head(gpu) = gpu[1]
      /\ \A n \in 1..Len(gpu') : gpu'[n] = gpu[n + 1]
  BY <1>1, HeadTailProperties, EmptySeq DEF TypeOK
<1>4. DOMAIN gpu' = 1..Len(gpu') /\ Len(gpu) \in Nat /\ Len(gpu) # 0 /\ DOMAIN gpu = 1..Len(gpu)
  BY <1>1, <1>3, QueueTypes, LenProperties, EmptySeq DEF FenceInv
<1>5. completed' = completed + 1 /\ completed < fenceValue
  BY <1>1, <1>3, <1>4, QueueTypes DEF FenceInv
<1>6. TypeOK'
  <2>1. completed' \in 0..fenceValue'
    BY <1>2, <1>5, QueueTypes
  <2> QED
    BY <1>2, <1>3, <2>1 DEF TypeOK
<1>7. FenceInv'
  <2>1. ~cpuWaited'
    BY <1>2, <1>5, QueueTypes DEF FenceInv
  <2>2. \A n \in DOMAIN gpu' : gpu'[n].value = completed' + n
    <3> SUFFICES ASSUME NEW n \in DOMAIN gpu' PROVE gpu'[n].value = completed' + n
      OBVIOUS
    <3>1. n \in Nat /\ n + 1 \in DOMAIN gpu /\ gpu'[n] = gpu[n + 1]
      BY <1>3, <1>4
    <3>2. gpu[n + 1].value = completed + (n + 1) /\ completed \in Nat
      BY <3>1, QueueTypes DEF FenceInv
    <3> QED
      BY <1>5, <3>1, <3>2
  <2> QED
    BY <1>2, <1>3, <1>5, <2>1, <2>2, QueueTypes DEF FenceInv
<1>8. InFlight' \subseteq InFlight
  BY <1>3, <1>4 DEF InFlight
<1>9. CallInv' /\ AllocatorsIntact' /\ ConstantsIntact' /\ CallOutlivesItsList'
  BY <1>2, <1>8 DEF CallInv, AllocatorsIntact, ConstantsIntact, CallOutlivesItsList
<1>10. StagedInv'
  <2> SUFFICES ASSUME NEW n \in DOMAIN gpu', gpu'[n].upload, n # 1
               PROVE  [fenceValue |-> gpu'[n].value - 1, upload |-> <<device', gpu'[n].value>>]
                          \in commandAllocatorQueue' \cap resourceQueue'
    BY DEF StagedInv
  <2>1. n + 1 \in DOMAIN gpu /\ n + 1 # 1 /\ gpu'[n] = gpu[n + 1]
    BY <1>3, <1>4
  <2> QED
    BY <1>2, <2>1 DEF StagedInv
<1> QED
  BY <1>6, <1>7, <1>9, <1>10

\* CpuWaitForCompletion leaves nothing in flight.
LEMMA WaitInv ==
    ASSUME IInv, CPUWaitOnFence
    PROVE  IInv'
<1> USE DEF IInv
<1>1. gpu = <<>> /\ completed = fenceValue
  BY Waited DEF CPUWaitOnFence
<1>2. /\ UNCHANGED <<gpu, completed, fenceValue, device, queueWrapper, graphicsBinding,
                     recorded, constants, modelSize, commandAllocatorQueue, resourceQueue,
                     meshes, generation, cubeMesh, handles, slice, drawn, failed>>
      /\ pc' = "idle"
  BY DEF CPUWaitOnFence, gpuVars, deviceVars, swapchainVars, destructionVars, meshVars,
         testVars
<1>3. cpuWaited' \in BOOLEAN
  BY Zenon DEF CPUWaitOnFence
<1>4. TypeOK'
  BY <1>2, <1>3 DEF TypeOK
<1>5. FenceInv'
  BY <1>1, <1>2 DEF FenceInv
<1>6. CallInv' /\ AllocatorsIntact' /\ ConstantsIntact' /\ CallOutlivesItsList' /\ StagedInv'
  <2>1. gpu' = <<>> /\ InFlight' = {}
    BY <1>1, <1>2 DEF InFlight
  <2> QED
    BY <1>2, <2>1
       DEF CallInv, AllocatorsIntact, ConstantsIntact, CallOutlivesItsList, StagedInv
<1> QED
  BY <1>4, <1>5, <1>6

\* MakeSimpleMesh keeps the invariant: it runs between calls, and the buffers it writes are new.
LEMMA SimpleMeshInv ==
    ASSUME IInv, MakeSimpleMesh
    PROVE  IInv'
<1> USE DEF IInv
<1> DEFINE list == List(Null, 0, TRUE, FALSE)
<1>1. /\ MayCall /\ pc = "idle" /\ graphicsBinding
      /\ UNCHANGED <<device, queueWrapper, graphicsBinding, recorded, constants, modelSize,
                     commandAllocatorQueue, resourceQueue, generation, cubeMesh, slice, drawn>>
  BY DEF MakeSimpleMesh, MayCall, deviceVars, swapchainVars, destructionVars
<1>2. CASE /\ ExecuteCommandList(list) /\ meshes' = Append(meshes, device)
           /\ handles' = handles \cup {NewHandle(meshes)} /\ pc' = "wait" /\ UNCHANGED failed
  <2>1. list \in Lists
    <3>1. /\ Null \in Swapchains \cup {Null} /\ 0 \in 0..MaxObjects
          /\ TRUE \in BOOLEAN /\ FALSE \in BOOLEAN /\ fenceValue < MaxLists
      BY <1>2, ConstantsAssumption DEF ExecuteCommandList
    <3> QED
      BY <3>1, ListIsList, Zenon
  <2>2. list.value = fenceValue + 1 /\ list.allocator = Null /\ list.model = 0 /\ ~list.upload
    BY DEF List
  <2> HIDE DEF list
  <2>3. meshes' \in Seq(1..MaxDevices) /\ handles' \subseteq Handles
    BY <1>1, <1>2, AppendProperties, LenProperties, ConstantsAssumption
       DEF MakeSimpleMesh, CallInv, TypeOK, NewHandle, Handles
  <2>4. TypeOK'
    BY <1>1, <1>2, <2>1, <2>2, <2>3, Executed DEF TypeOK
  <2>5. FenceInv' /\ CallInv' /\ ConstantsIntact' /\ CallOutlivesItsList'
    BY <1>1, <1>2, <2>1, <2>2, Submitted
  <2>6. AllocatorsIntact'
    BY <1>1, <1>2, <2>1, <2>2, Executed DEF AllocatorsIntact
  <2>7. StagedInv'
    BY <1>1, <1>2, <2>1, <2>2, StagedKept
  <2> QED  BY <2>4, <2>5, <2>6, <2>7
<1>3. CASE ExecuteFails /\ UNCHANGED <<meshes, handles, pc>>
  <2>1. TypeOK'
    BY <1>1, <1>3, SignaledOnly DEF TypeOK
  <2> QED  BY <1>1, <1>3, <2>1, SignaledOnly DEF AllocatorsIntact
<1> QED
  BY <1>2, <1>3 DEF MakeSimpleMesh

\* ClearImageSlice keeps the invariant: the list it leaves in flight draws no model.
LEMMA ClearImageInv ==
    ASSUME IInv, NEW s \in Swapchains, ClearImageSlice(s)
    PROVE  IInv'
<1> USE DEF IInv
<1> DEFINE list == List(s, 0, FALSE, FALSE)
<1>1. /\ MayCall /\ drawn /\ pc = "idle" /\ pc' = pc /\ slice' = s
      /\ UNCHANGED <<device, queueWrapper, graphicsBinding, constants, modelSize,
                     commandAllocatorQueue, resourceQueue, meshes, generation, cubeMesh, handles>>
  BY DEF ClearImageSlice, MayCall, deviceVars, destructionVars, meshVars
<1>2. \A l \in InFlight : l.allocator = Null
  BY <1>1 DEF MayCall, CallInv
<1>3. drawn' \in BOOLEAN /\ ~drawn'
  BY Zenon DEF ClearImageSlice
<1>4. CASE /\ recorded' = [recorded EXCEPT ![s] = {fenceValue + 1}] /\ ExecuteCommandList(list)
           /\ UNCHANGED failed
  <2>1. fenceValue < MaxLists /\ fenceValue + 1 \in 1..MaxLists
    BY <1>4, ConstantsAssumption DEF ExecuteCommandList, TypeOK
  <2>2. list \in Lists
    <3>1. s \in Swapchains \cup {Null} /\ 0 \in 0..MaxObjects /\ FALSE \in BOOLEAN
      BY ConstantsAssumption
    <3> QED
      BY <2>1, <3>1, ListIsList, Zenon
  <2>3. /\ list.value = fenceValue + 1 /\ list.allocator = s /\ list.model = 0 /\ ~list.upload
        /\ ~list.ownedByCall
    BY DEF List
  <2> HIDE DEF list
  <2>4. TypeOK'
    BY <1>1, <1>3, <1>4, <2>1, <2>2, <2>3, Executed DEF TypeOK
  <2>5. FenceInv' /\ CallInv' /\ ConstantsIntact' /\ CallOutlivesItsList'
    BY <1>1, <1>3, <1>4, <2>2, <2>3, Submitted
  <2>6. AllocatorsIntact'
    <3>1. InFlight' = InFlight \cup {list}
      BY <1>4, <2>2, <2>3, Executed
    <3>2. recorded'[s] = {fenceValue + 1}
      BY <1>4 DEF TypeOK
    <3> QED  BY <1>2, <2>3, <3>1, <3>2 DEF AllocatorsIntact
  <2>7. StagedInv'
    BY <1>1, <1>4, <2>2, <2>3, StagedKept
  <2> QED  BY <2>4, <2>5, <2>6, <2>7
<1>5. CASE recorded' = [recorded EXCEPT ![s] = {}] /\ ExecuteFails
  <2>1. TypeOK'
    BY <1>1, <1>3, <1>5, SignaledOnly DEF TypeOK
  <2> QED  BY <1>1, <1>2, <1>5, <2>1, SignaledOnly DEF AllocatorsIntact
<1> QED
  BY <1>4, <1>5 DEF ClearImageSlice

\* CopyRGBAImage keeps the invariant: it ends with a wait for its list.
LEMMA CopyImageInv ==
    ASSUME IInv, NEW s \in Swapchains, CopyRGBAImage(s)
    PROVE  IInv'
<1> USE DEF IInv
<1> DEFINE list == List(s, 0, TRUE, FALSE)
<1>1. /\ MayCall /\ drawn /\ pc = "idle"
      /\ UNCHANGED <<device, queueWrapper, graphicsBinding, constants, modelSize,
                     commandAllocatorQueue, resourceQueue, meshes, generation, cubeMesh, handles,
                     slice, drawn>>
  BY DEF CopyRGBAImage, MayCall, deviceVars, destructionVars, meshVars
<1>4. CASE Record(s) /\ ExecuteCommandList(list) /\ pc' = "wait" /\ UNCHANGED failed
  <2>1. fenceValue < MaxLists /\ fenceValue + 1 \in 1..MaxLists
    BY <1>4, ConstantsAssumption DEF ExecuteCommandList, TypeOK
  <2>2. list \in Lists
    <3>1. /\ s \in Swapchains \cup {Null} /\ 0 \in 0..MaxObjects /\ FALSE \in BOOLEAN
          /\ TRUE \in BOOLEAN
      BY ConstantsAssumption
    <3> QED
      BY <2>1, <3>1, ListIsList, Zenon
  <2>3. list.value = fenceValue + 1 /\ list.allocator = s /\ list.model = 0 /\ ~list.upload
    BY DEF List
  <2> HIDE DEF list
  <2>4. TypeOK'
    <3>1. /\ gpu' \in Seq(Lists) /\ completed' \in 0..fenceValue' /\ fenceValue' \in 0..MaxLists
          /\ cpuWaited' \in BOOLEAN
      BY <1>4, <2>2, <2>3, Executed
    <3>2. recorded' \in [Swapchains -> SUBSET (1..MaxLists)]
      BY <1>4, <2>1 DEF TypeOK, Record
    <3>3. pc' = "wait" /\ failed' = failed
      BY <1>4
    <3> QED
      BY <1>1, <3>1, <3>2, <3>3 DEF TypeOK
  <2>5. FenceInv' /\ CallInv' /\ ConstantsIntact' /\ CallOutlivesItsList'
    BY <1>1, <1>4, <2>2, <2>3, Submitted
  <2>6. AllocatorsIntact'
    <3>1. InFlight' = InFlight \cup {list}
      BY <1>4, <2>2, <2>3, Executed
    <3>2. /\ fenceValue + 1 \in recorded'[s]
          /\ \A r \in Swapchains : recorded[r] \subseteq recorded'[r]
      BY <1>4 DEF TypeOK, Record
    <3>3. \A l \in InFlight : l.allocator \in Swapchains \cup {Null}
      BY QueueTypes DEF Lists
    <3> QED  BY <2>3, <3>1, <3>2, <3>3 DEF AllocatorsIntact
  <2>7. StagedInv'
    BY <1>1, <1>4, <2>2, <2>3, StagedKept
  <2> QED  BY <2>4, <2>5, <2>6, <2>7
<1>5. CASE ExecuteFails /\ UNCHANGED <<recorded, pc>>
  <2>1. TypeOK'
    BY <1>1, <1>5, SignaledOnly DEF TypeOK
  <2> QED  BY <1>1, <1>5, <2>1, SignaledOnly DEF AllocatorsIntact
<1> QED
  BY <1>4, <1>5 DEF CopyRGBAImage

\* ValidateSwapchainImages keeps the invariant.
LEMMA ValidateInv ==
    ASSUME IInv, ValidateSwapchainImageState
    PROVE  IInv'
<1> USE DEF IInv
<1>1. /\ MayCall /\ pc = "idle" /\ pc' = "wait"
      /\ UNCHANGED <<device, queueWrapper, graphicsBinding, recorded, constants, modelSize,
                     commandAllocatorQueue, resourceQueue, meshes, generation, cubeMesh, handles,
                     slice, drawn, failed>>
  BY DEF ValidateSwapchainImageState, MayCall, deviceVars, swapchainVars, destructionVars,
         meshVars, testVars
<1>2. PICK runs \in BOOLEAN : ExecuteCommandList(List(Null, 0, runs, FALSE))
  BY DEF ValidateSwapchainImageState
<1> DEFINE list == List(Null, 0, runs, FALSE)
<1>3. list \in Lists
  <2>1. /\ Null \in Swapchains \cup {Null} /\ 0 \in 0..MaxObjects /\ FALSE \in BOOLEAN
        /\ fenceValue < MaxLists
    BY <1>2, ConstantsAssumption DEF ExecuteCommandList
  <2> QED
    BY <2>1, ListIsList, Zenon
<1>4. list.value = fenceValue + 1 /\ list.allocator = Null /\ list.model = 0 /\ ~list.upload
  BY DEF List
<1>5. ExecuteCommandList(list)
  BY <1>2
<1> HIDE DEF list
<1>6. TypeOK'
  BY <1>1, <1>3, <1>4, <1>5, Executed DEF TypeOK
<1>7. FenceInv' /\ CallInv' /\ ConstantsIntact' /\ CallOutlivesItsList'
  BY <1>1, <1>3, <1>4, <1>5, Submitted
<1>8. AllocatorsIntact'
  BY <1>1, <1>3, <1>4, <1>5, Executed DEF AllocatorsIntact
<1>9. StagedInv'
  BY <1>1, <1>3, <1>4, <1>5, StagedKept
<1> QED  BY <1>6, <1>7, <1>8, <1>9

\* RenderView without a mesh or a model keeps the invariant.
LEMMA EmptyViewInv ==
    ASSUME IInv, NEW s \in Swapchains, RenderEmptyView(s)
    PROVE  IInv'
<1> USE DEF IInv
<1>1. /\ pc = "idle" /\ pc' = "wait" /\ \A l \in InFlight : ~l.ownedByCall
      /\ UNCHANGED <<gpu, completed, fenceValue, cpuWaited, device, queueWrapper, graphicsBinding,
                     recorded, constants, modelSize, commandAllocatorQueue, resourceQueue,
                     meshes, generation, cubeMesh, handles, slice, failed>>
  BY DEF RenderEmptyView, AfterEmptyView, MayCall, gpuVars, queueVars, deviceVars,
         swapchainVars,
         destructionVars, meshVars, CallOutlivesItsList
<1>2. drawn' \in BOOLEAN
  BY Zenon DEF RenderEmptyView
<1>3. TypeOK'
  BY <1>1, <1>2 DEF TypeOK
<1>4. InFlight' = InFlight
  BY <1>1 DEF InFlight
<1> QED
  BY <1>1, <1>3, <1>4
     DEF FenceInv, CallInv, AllocatorsIntact, ConstantsIntact, CallOutlivesItsList, StagedInv

\* Flush keeps the invariant: the wait ends with nothing in flight.
LEMMA FlushInv ==
    ASSUME IInv, Flush
    PROVE  IInv'
<1> USE DEF IInv
<1>1. /\ pc = "idle" /\ pc' \in {"idle", "wait"} /\ \A l \in InFlight : ~l.ownedByCall
      /\ UNCHANGED <<gpu, completed, fenceValue, cpuWaited, device, queueWrapper, graphicsBinding,
                     recorded, constants, modelSize, commandAllocatorQueue, resourceQueue,
                     meshes, generation, cubeMesh, handles, slice, drawn, failed>>
  BY DEF Flush, gpuVars, queueVars, deviceVars, swapchainVars, destructionVars, meshVars,
         testVars,
         CallOutlivesItsList
<1>2. TypeOK'
  BY <1>1 DEF TypeOK
<1>3. InFlight' = InFlight
  BY <1>1 DEF InFlight
<1> QED
  BY <1>1, <1>2, <1>3
     DEF FenceInv, CallInv, AllocatorsIntact, ConstantsIntact, CallOutlivesItsList, StagedInv

\* ClearSwapchainCache keeps the invariant: it is called once the queue is idle.
LEMMA ClearCacheInv ==
    ASSUME IInv, ClearSwapchainCache
    PROVE  IInv'
<1> USE DEF IInv
<1>1. /\ pc = "idle" /\ MayCall /\ drawn /\ recorded' = NoImageData /\ constants' = Zero
      /\ modelSize' = Zero /\ slice' = Null
      /\ UNCHANGED <<gpu, completed, fenceValue, cpuWaited, device, queueWrapper, graphicsBinding,
                     commandAllocatorQueue, resourceQueue, meshes, generation, cubeMesh, handles,
                     failed, pc>>
  BY DEF ClearSwapchainCache, ForgetImageData, MayCall, gpuVars, queueVars, deviceVars,
         destructionVars, meshVars
<1>2. drawn' \in BOOLEAN
  BY Zenon DEF ClearSwapchainCache, ForgetImageData
<1>3. TypeOK'
  BY <1>1, <1>2, ConstantsAssumption DEF TypeOK, NoImageData, Zero
<1>4. InFlight' = InFlight /\ \A l \in InFlight : l.allocator = Null /\ l.model = 0
  BY <1>1 DEF InFlight, CallInv, MayCall
<1>5. AllocatorsIntact' /\ ConstantsIntact'
  BY <1>4 DEF AllocatorsIntact, ConstantsIntact
<1> QED
  BY <1>1, <1>3, <1>4, <1>5 DEF FenceInv, CallInv, CallOutlivesItsList, StagedInv

\* ShutdownDevice keeps the invariant: it waits before it releases anything.
LEMMA ShutdownInv ==
    ASSUME IInv, ShutdownDevice
    PROVE  IInv'
<1> USE DEF IInv
<1>1. /\ pc = "idle" /\ recorded' = NoImageData /\ constants' = Zero
      /\ modelSize' = Zero /\ slice' = Null /\ cubeMesh' = Null /\ meshes' = <<>>
      /\ generation' = generation + 1
      /\ UNCHANGED <<gpu, completed, fenceValue, cpuWaited, device,
                     commandAllocatorQueue, resourceQueue, handles, pc>>
  BY DEF ShutdownDevice, ClearMeshes, ForgetImageData, gpuVars, queueVars, destructionVars
<1>2. /\ drawn' \in BOOLEAN /\ failed' \in BOOLEAN /\ queueWrapper' \in BOOLEAN
      /\ graphicsBinding' \in BOOLEAN /\ ~graphicsBinding'
  BY Zenon DEF ShutdownDevice, ForgetImageData
<1>3. TypeOK'
  BY <1>1, <1>2, EmptySeq, ConstantsAssumption DEF TypeOK, NoImageData, Zero
<1>4. gpu' = <<>>
  BY <1>1, Waited DEF ShutdownDevice
<1>5. InFlight' = {} /\ DOMAIN gpu' = {}
  BY <1>4 DEF InFlight
<1> QED
  BY <1>1, <1>2, <1>3, <1>5
     DEF FenceInv, CallInv, AllocatorsIntact, ConstantsIntact, CallOutlivesItsList, StagedInv

\* The first mesh of a device is staged for the value before that of its upload.
LEMMA FirstMesh ==
    ASSUME TypeOK, Len(meshes) < MaxMeshes, device + 1 \in 1..MaxDevices
    PROVE  /\ Append(meshes, device + 1) \in Seq(1..MaxDevices)
           /\ [NewHandle(meshes) EXCEPT !.device = device + 1] \in Handles
<1>1. meshes \in Seq(1..MaxDevices) /\ Len(meshes) \in Nat /\ generation \in Nat
  BY LenProperties DEF TypeOK
<1>2. Len(meshes) + 1 \in 1..MaxMeshes
  BY <1>1, ConstantsAssumption
<1>3. [NewHandle(meshes) EXCEPT !.device = device + 1]
        = [generation |-> generation, index |-> Len(meshes) + 1, device |-> device + 1]
  BY DEF NewHandle
<1>4. Append(meshes, device + 1) \in Seq(1..MaxDevices)
  BY <1>1, AppendProperties
<1> QED  BY <1>1, <1>2, <1>3, <1>4 DEF Handles

\* InitializeDevice keeps the invariant: a new device starts with an upload in flight.
LEMMA InitializeInv ==
    ASSUME IInv, InitializeDevice
    PROVE  IInv'
<1> USE DEF IInv
<1>1. /\ MayInitialize /\ StartQueue(InitialLists) /\ Len(meshes) < MaxMeshes
      /\ meshes' = Append(meshes, device + 1)
      /\ cubeMesh' = [NewHandle(meshes) EXCEPT !.device = device + 1]
      /\ UNCHANGED <<recorded, constants, modelSize, commandAllocatorQueue, resourceQueue,
                     generation, handles, slice, drawn, pc>>
  BY DEF InitializeDevice, swapchainVars, destructionVars
<1>2. device + 1 \in 1..MaxDevices /\ device' = device + 1
  BY <1>1, ConstantsAssumption DEF MayInitialize, StartQueue, TypeOK
<1>3. meshes' \in Seq(1..MaxDevices) /\ cubeMesh' \in Handles
  BY <1>1, <1>2, FirstMesh
<1>4. graphicsBinding' \in BOOLEAN /\ failed' \in BOOLEAN
  BY Zenon DEF InitializeDevice
<1>5. InitialLists \in 0..InitialLists
  BY DEF InitialLists
<1>6. TypeOK'
  BY <1>1, <1>3, <1>4, <1>5, Started, SMTT(15) DEF TypeOK
<1>7. /\ FenceInv' /\ StagedInv' /\ InFlight' = {} /\ device' > 0
  BY <1>1, <1>5, Started
<1> QED
  BY <1>6, <1>7 DEF CallInv, AllocatorsIntact, ConstantsIntact, CallOutlivesItsList

\* An InitializeDevice that raises an exception keeps the invariant.
LEMMA InitializeFailsInv ==
    ASSUME IInv, InitializeDeviceFails
    PROVE  IInv'
<1> USE DEF IInv
<1>1. /\ MayInitialize /\ Len(meshes) < MaxMeshes
      /\ UNCHANGED <<graphicsBinding, recorded, constants, modelSize, commandAllocatorQueue,
                     resourceQueue,
                     generation, handles, slice, drawn, pc>>
  BY DEF InitializeDeviceFails, swapchainVars, destructionVars
<1>2. PICK lists \in 0..InitialLists :
         /\ StartQueue(lists)
         /\ IF lists = 0 THEN UNCHANGED <<meshes, cubeMesh>>
            ELSE /\ meshes' = Append(meshes, device + 1)
                 /\ cubeMesh' = [NewHandle(meshes) EXCEPT !.device = device + 1]
  BY DEF InitializeDeviceFails
<1>3. device + 1 \in 1..MaxDevices /\ device' = device + 1
  BY <1>1, <1>2, ConstantsAssumption DEF MayInitialize, StartQueue, TypeOK
<1>4. meshes' \in Seq(1..MaxDevices) /\ cubeMesh' \in Handles \cup {Null}
  BY <1>1, <1>2, <1>3, FirstMesh DEF TypeOK
<1>5. failed' \in BOOLEAN
  BY Zenon DEF InitializeDeviceFails
<1>6. TypeOK'
  BY <1>1, <1>2, <1>4, <1>5, Started DEF TypeOK
<1>7. /\ FenceInv' /\ StagedInv' /\ InFlight' = {} /\ device' > 0
  BY <1>1, <1>2, Started
<1> QED
  BY <1>6, <1>7 DEF CallInv, AllocatorsIntact, ConstantsIntact, CallOutlivesItsList

\* What is popped is what is due.
LEMMA PoppedIsDue ==
    ASSUME NEW queue \in SUBSET Entries, NEW value \in Nat
    PROVE  Popped(queue, value) = {e \in queue : e.fenceValue <= value}
<1>1. \A e \in queue : e.fenceValue \in Nat
  BY ConstantsAssumption DEF Entries
<1> QED  BY <1>1 DEF Popped, Later

\* The release of the allocators that are due keeps the invariant: what is in flight
\* waits for a later value.
LEMMA ReleaseAllocatorsInv ==
    ASSUME IInv, ReleaseAllocators
    PROVE  IInv'
<1> USE DEF IInv
<1>1. /\ pc = "releaseAllocators" /\ pc' = "releaseResources"
      /\ UNCHANGED <<gpu, completed, fenceValue, cpuWaited, device, queueWrapper, graphicsBinding,
                     recorded, constants, modelSize, resourceQueue,
                     meshes, generation, cubeMesh, handles, slice, drawn, failed>>
  BY DEF ReleaseAllocators, gpuVars, queueVars, deviceVars, swapchainVars, meshVars,
         testVars
<1>2. commandAllocatorQueue' = {e \in commandAllocatorQueue : ~(e.fenceValue <= completed)}
  BY PoppedIsDue, QueueTypes DEF ReleaseAllocators, ReleasableValue, TypeOK
<1>3. TypeOK'
  BY <1>1, <1>2 DEF TypeOK
<1>4. InFlight' = InFlight
  BY <1>1 DEF InFlight
<1>5. StagedInv'
  <2> SUFFICES ASSUME NEW n \in DOMAIN gpu, gpu[n].upload, n # 1
               PROVE  [fenceValue |-> gpu[n].value - 1, upload |-> <<device, gpu[n].value>>]
                          \in commandAllocatorQueue' \cap resourceQueue'
    BY <1>1 DEF StagedInv
  <2>1. ~(gpu[n].value - 1 <= completed)
    BY QueueTypes DEF FenceInv
  <2> QED
    BY <1>1, <1>2, <2>1 DEF StagedInv
<1> QED
  BY <1>1, <1>3, <1>4, <1>5
     DEF FenceInv, CallInv, AllocatorsIntact, ConstantsIntact, CallOutlivesItsList

\* The release of the staged resources that are due keeps the invariant.
LEMMA ReleaseResourcesInv ==
    ASSUME IInv, ReleaseResources
    PROVE  IInv'
<1> USE DEF IInv
<1>1. /\ pc = "releaseResources" /\ pc' = "wait"
      /\ UNCHANGED <<gpu, completed, fenceValue, cpuWaited, device, queueWrapper, graphicsBinding,
                     recorded, constants, modelSize, commandAllocatorQueue,
                     meshes, generation, cubeMesh, handles, slice, drawn, failed>>
  BY DEF ReleaseResources, gpuVars, queueVars, deviceVars, swapchainVars, meshVars,
         testVars
<1>2. resourceQueue' = {e \in resourceQueue : ~(e.fenceValue <= completed)}
  BY PoppedIsDue, QueueTypes DEF ReleaseResources, ReleasableValue, TypeOK
<1>3. TypeOK'
  BY <1>1, <1>2 DEF TypeOK
<1>4. InFlight' = InFlight
  BY <1>1 DEF InFlight
<1>5. StagedInv'
  <2> SUFFICES ASSUME NEW n \in DOMAIN gpu, gpu[n].upload, n # 1
               PROVE  [fenceValue |-> gpu[n].value - 1, upload |-> <<device, gpu[n].value>>]
                          \in commandAllocatorQueue' \cap resourceQueue'
    BY <1>1 DEF StagedInv
  <2>1. ~(gpu[n].value - 1 <= completed)
    BY QueueTypes DEF FenceInv
  <2> QED
    BY <1>1, <1>2, <2>1 DEF StagedInv
<1>6. CallOutlivesItsList'
  BY <1>1, <1>4 DEF CallOutlivesItsList
<1> QED
  BY <1>1, <1>3, <1>4, <1>5, <1>6 DEF FenceInv, CallInv, AllocatorsIntact, ConstantsIntact

\* Loading a model keeps the invariant: its upload is staged before it is submitted.
LEMMA LoadInv ==
    ASSUME IInv, LoadGLTF
    PROVE  IInv'
<1> USE DEF IInv
<1> DEFINE list == List(Null, 0, FALSE, TRUE)
<1>1. /\ MayCall /\ pc = "idle" /\ graphicsBinding /\ fenceValue < MaxLists
      /\ commandAllocatorQueue' = commandAllocatorQueue \cup {Staged}
      /\ resourceQueue' = resourceQueue \cup {Staged}
      /\ UNCHANGED <<device, queueWrapper, graphicsBinding, recorded, constants, modelSize,
                     meshes, generation, cubeMesh, handles, slice, drawn, pc>>
  BY DEF LoadGLTF, MayCall, ExecuteFails, ExecuteCommandList, deviceVars, swapchainVars,
         meshVars
<1>2. Staged \in Entries
  BY <1>1, ConstantsAssumption DEF Staged, Entries, Uploads, TypeOK, CallInv
<1>3. Staged = [fenceValue |-> fenceValue, upload |-> <<device, fenceValue + 1>>]
  BY DEF Staged
<1>4. CASE ExecuteCommandList(list) /\ UNCHANGED failed
  <2>1. list \in Lists
    <3>1. /\ Null \in Swapchains \cup {Null} /\ 0 \in 0..MaxObjects
          /\ TRUE \in BOOLEAN /\ FALSE \in BOOLEAN
      BY ConstantsAssumption
    <3> QED
      BY <1>1, <3>1, ListIsList, Zenon
  <2>2. /\ list.value = fenceValue + 1 /\ list.allocator = Null /\ list.model = 0
        /\ ~list.ownedByCall
    BY DEF List
  <2> HIDE DEF list
  <2>3. TypeOK'
    BY <1>1, <1>2, <1>4, <2>1, <2>2, Executed DEF TypeOK
  <2>4. FenceInv' /\ CallInv' /\ ConstantsIntact' /\ CallOutlivesItsList'
    BY <1>1, <1>4, <2>1, <2>2, Submitted
  <2>5. AllocatorsIntact'
    BY <1>1, <1>4, <2>1, <2>2, Executed DEF AllocatorsIntact
  <2>6. StagedInv'
    <3>1. /\ DOMAIN gpu' = DOMAIN gpu \cup {Len(gpu) + 1}
          /\ \A n \in DOMAIN gpu : gpu'[n] = gpu[n]
          /\ gpu'[Len(gpu) + 1] = list
      BY <1>4, <2>1, <2>2, Executed
    <3>2. Staged = [fenceValue |-> list.value - 1, upload |-> <<device, list.value>>]
      BY <1>3, <2>2, QueueTypes
    <3> QED
      BY <1>1, <3>1, <3>2 DEF StagedInv
  <2> QED  BY <2>3, <2>4, <2>5, <2>6
<1>5. CASE ExecuteFails
  <2>1. TypeOK'
    BY <1>1, <1>2, <1>5, SignaledOnly DEF TypeOK
  <2>2. AllocatorsIntact'
    BY <1>1, <1>5, SignaledOnly DEF AllocatorsIntact
  <2>3. StagedInv'
    BY <1>1, <1>5, SignaledOnly
  <2> QED  BY <1>1, <1>5, <2>1, <2>2, <2>3, SignaledOnly
<1> QED
  BY <1>4, <1>5 DEF LoadGLTF

\* RenderView keeps the invariant: nothing in flight reads the constants it writes, and the
\* list it submits is the only one that does.
LEMMA RenderInv ==
    ASSUME IInv, NEW s \in Swapchains, NEW h, NEW objects \in 1..MaxObjects,
           RenderView(s, h, objects)
    PROVE  IInv'
<1> USE DEF IInv
<1> DEFINE list == List(s, modelSize'[s], FALSE, FALSE)
<1>1. /\ MayCall /\ pc = "idle" /\ ~failed
      /\ \A l \in InFlight :
            l.model = 0 /\ ~l.ownedByCall /\ l.allocator \in Swapchains \cup {Null}
      /\ UNCHANGED <<device, queueWrapper, graphicsBinding, commandAllocatorQueue, resourceQueue,
                     meshes, generation, cubeMesh, handles, slice>>
  BY QueueTypes
     DEF RenderView, MayCall, CallInv, CallOutlivesItsList, Lists, deviceVars,
         destructionVars, meshVars
<1>2. /\ constants' = [constants EXCEPT ![s] = fenceValue + 1]
      /\ modelSize' = [modelSize EXCEPT ![s] = IF objects > @ THEN objects ELSE @]
  BY DEF RenderView, WriteConstants
<1>3. modelSize' \in [Swapchains -> 0..MaxObjects] /\ modelSize'[s] \in 0..MaxObjects
  BY <1>2, ConstantsAssumption DEF TypeOK
<1>4. constants' \in [Swapchains -> 0..MaxLists + 1] /\ constants'[s] = fenceValue + 1
  BY <1>2, ConstantsAssumption DEF TypeOK
<1>5. CASE /\ Record(s) /\ ExecuteCommandList(list)
           /\ drawn' = TRUE /\ pc' = "releaseAllocators" /\ UNCHANGED failed
  <2>1. fenceValue < MaxLists /\ fenceValue + 1 \in 1..MaxLists
    BY <1>5, ConstantsAssumption DEF ExecuteCommandList, TypeOK
  <2>2. list \in Lists
    <3>1. s \in Swapchains \cup {Null} /\ FALSE \in BOOLEAN
      OBVIOUS
    <3> QED
      BY <1>3, <2>1, <3>1, ListIsList, Zenon
  <2>3. /\ list.value = fenceValue + 1 /\ list.allocator = s /\ list.model = modelSize'[s]
        /\ ~list.ownedByCall /\ ~list.upload
    BY DEF List
  <2> HIDE DEF list
  <2>4. InFlight' = InFlight \cup {list}
    BY <1>5, <2>2, <2>3, Executed
  <2>5. drawn' \in BOOLEAN
    BY <1>5, Zenon
  <2>6. TypeOK'
    <3>1. /\ gpu' \in Seq(Lists) /\ completed' \in 0..fenceValue' /\ fenceValue' \in 0..MaxLists
          /\ cpuWaited' \in BOOLEAN
      BY <1>5, <2>2, <2>3, Executed
    <3>2. recorded' \in [Swapchains -> SUBSET (1..MaxLists)]
      BY <1>5, <2>1 DEF TypeOK, Record
    <3>3. pc' = "releaseAllocators" /\ failed' = failed
      BY <1>5
    <3> QED
      BY <1>1, <1>3, <1>4, <2>5, <3>1, <3>2, <3>3 DEF TypeOK
  <2>7. FenceInv' /\ StagedInv'
    BY <1>1, <1>5, <2>2, <2>3, Executed, StagedKept
  <2>8. AllocatorsIntact'
    <3>1. /\ fenceValue + 1 \in recorded'[s]
          /\ \A r \in Swapchains : recorded[r] \subseteq recorded'[r]
      BY <1>5 DEF TypeOK, Record
    <3> QED  BY <1>1, <2>3, <2>4, <3>1 DEF AllocatorsIntact
  <2>9. ConstantsIntact'
    BY <1>1, <1>4, <2>3, <2>4 DEF ConstantsIntact
  <2>10. CallInv' /\ CallOutlivesItsList'
    BY <1>1, <1>5, <2>3, <2>4 DEF CallInv, CallOutlivesItsList
  <2> QED  BY <2>6, <2>7, <2>8, <2>9, <2>10
<1>6. CASE ExecuteFails /\ UNCHANGED <<recorded, drawn, pc>>
  <2>1. TypeOK'
    BY <1>1, <1>3, <1>4, <1>6, SignaledOnly DEF TypeOK
  <2> QED  BY <1>1, <1>6, <2>1, SignaledOnly DEF AllocatorsIntact
<1>7. CASE failed' = TRUE /\ UNCHANGED <<gpuVars, queueVars, recorded, drawn, pc>>
  <2>1. /\ failed' \in BOOLEAN /\ failed'
        /\ UNCHANGED <<gpu, completed, fenceValue, cpuWaited, recorded, drawn, pc>>
    BY <1>7, Zenon DEF gpuVars, queueVars
  <2>2. TypeOK'
    BY <1>1, <1>3, <1>4, <2>1 DEF TypeOK
  <2>3. InFlight' = InFlight
    BY <2>1 DEF InFlight
  <2>4. ConstantsIntact'
    BY <1>1, <2>3 DEF ConstantsIntact
  <2> QED
    BY <1>1, <2>1, <2>2, <2>3, <2>4
       DEF FenceInv, CallInv, AllocatorsIntact, CallOutlivesItsList, StagedInv
<1> QED
  BY <1>5, <1>6, <1>7 DEF RenderView, AfterDrawing

\* The invariant holds before the first device.
LEMMA InitInvariant == Init => IInv
<1> SUFFICES ASSUME Init PROVE IInv
  OBVIOUS
<1>1. /\ queueWrapper \in BOOLEAN /\ graphicsBinding \in BOOLEAN /\ cpuWaited \in BOOLEAN
      /\ drawn \in BOOLEAN /\ failed \in BOOLEAN /\ ~graphicsBinding
  BY Zenon DEF Init
<1>2. TypeOK
  BY <1>1, EmptySeq, ConstantsAssumption DEF Init, TypeOK, NoImageData, Zero
<1>3. FenceInv /\ CallInv
  BY <1>1, EmptySeq DEF Init, FenceInv, CallInv, InFlight
<1> QED
  BY <1>2, <1>3, NothingInFlight DEF Init, IInv

\* The invariant is about the state only.
LEMMA StutterInvariant ==
    ASSUME IInv, UNCHANGED vars
    PROVE  IInv'
<1>1. InFlight' = InFlight
  BY DEF vars, InFlight
<1>2. TypeOK' /\ FenceInv' /\ StagedInv'
  BY DEF vars, IInv, TypeOK, FenceInv, StagedInv
<1>3. CallInv' /\ AllocatorsIntact' /\ ConstantsIntact' /\ CallOutlivesItsList'
  BY <1>1 DEF vars, IInv, CallInv, AllocatorsIntact, ConstantsIntact, CallOutlivesItsList
<1> QED
  BY <1>2, <1>3 DEF IInv

\* Every step keeps the invariant.
LEMMA StepInvariant ==
    ASSUME IInv, [Next]_vars
    PROVE  IInv'
<1>1. CASE Complete
  BY <1>1, CompleteInv
<1>2. CASE Continue
  BY <1>2, ReleaseAllocatorsInv, ReleaseResourcesInv, WaitInv DEF Continue
<1>3. CASE InitializeDevice \/ InitializeDeviceFails \/ ShutdownDevice
  BY <1>3, InitializeInv, InitializeFailsInv, ShutdownInv
<1>4. CASE ClearSwapchainCache \/ Flush
  BY <1>4, ClearCacheInv, FlushInv
<1>5. CASE MakeSimpleMesh \/ ValidateSwapchainImageState \/ LoadGLTF
  BY <1>5, SimpleMeshInv, ValidateInv, LoadInv
<1>6. ASSUME NEW s \in Swapchains, ClearImageSlice(s) \/ CopyRGBAImage(s) \/ RenderEmptyView(s)
      PROVE  IInv'
  BY <1>6, ClearImageInv, CopyImageInv, EmptyViewInv
<1>7. ASSUME NEW s \in Swapchains, NEW h \in handles \cup {cubeMesh},
             NEW objects \in 1..MaxObjects,
             RenderView(s, h, objects)
      PROVE  IInv'
  BY <1>7, RenderInv
<1>8. CASE UNCHANGED vars
  BY <1>8, StutterInvariant
<1> QED
  BY <1>1, <1>2, <1>3, <1>4, <1>5, <1>6, <1>7, <1>8 DEF Next

\* While the invariant holds, what a list in flight reads is intact.
LEMMA Reads ==
    ASSUME IInv
    PROVE  GpuReadsIntact
<1>1. NoReleaseBeforePredecessor
  <2> SUFFICES ASSUME NEW n \in DOMAIN gpu, gpu[n].upload, n # 1
               PROVE  <<device, gpu[n].value>>
                          \in Awaited(commandAllocatorQueue) \cap Awaited(resourceQueue)
    BY DEF NoReleaseBeforePredecessor
  <2> DEFINE e == [fenceValue |-> gpu[n].value - 1, upload |-> <<device, gpu[n].value>>]
  <2>1. e \in commandAllocatorQueue /\ e \in resourceQueue
    BY DEF IInv, StagedInv
  <2>2. e.upload = <<device, gpu[n].value>>
    OBVIOUS
  <2> QED
    BY <2>1, <2>2 DEF Awaited
<1> QED
  BY <1>1 DEF IInv, GpuReadsIntact

\* A view that is drawn frees what is due.
LEMMA DueIsFreed ==
    ASSUME IInv, [Next]_vars
    PROVE  [/\ ReleaseAllocators => \A e \in commandAllocatorQueue' : e.fenceValue > completed
            /\ ReleaseResources => \A e \in resourceQueue' : e.fenceValue > completed]_vars
<1>1. \A e \in Entries : e.fenceValue \in Nat
  BY ConstantsAssumption DEF Entries
<1>2. /\ commandAllocatorQueue \subseteq Entries /\ resourceQueue \subseteq Entries
      /\ completed \in Nat
  BY QueueTypes DEF IInv, TypeOK
<1>3. ASSUME ReleaseAllocators
      PROVE  \A e \in commandAllocatorQueue' : e.fenceValue > completed
  BY <1>1, <1>2, <1>3, PoppedIsDue DEF ReleaseAllocators, ReleasableValue
<1>4. ASSUME ReleaseResources
      PROVE  \A e \in resourceQueue' : e.fenceValue > completed
  BY <1>1, <1>2, <1>4, PoppedIsDue DEF ReleaseResources, ReleasableValue
<1> QED
  BY <1>3, <1>4

\* What is in flight when the test calls the plugin: the invariant holds throughout.
THEOREM Invariant == Spec => []IInv
<1>1. IInv /\ [Next]_vars => IInv'
  BY StepInvariant
<1> QED
  BY <1>1, InitInvariant, PTL DEF Spec

\* Every variable of the plugin keeps its type: no value of the fence, no list of a model's
\* buffers and no destruction queue leaves its range.
THEOREM TypeCorrect == Spec => []TypeOK
<1>1. IInv => TypeOK
  BY DEF IInv
<1> QED
  BY <1>1, Invariant, PTL

\* The GPU never reads what the plugin has rewritten or freed: the allocators of the swapchain
\* images, the constant buffer of the cubes, the staged resources and the objects of a call
\* outlive every command list in flight that uses them (d3d12_utils.cpp, RenderView).
THEOREM ReadsStayIntact == Spec => []GpuReadsIntact
<1>1. IInv => GpuReadsIntact
  BY Reads
<1> QED
  BY <1>1, Invariant, PTL

\* A view that is drawn leaves nothing in the destruction queues that is due: the allocators
\* and the resources whose fence value is reached are freed (D3D12GraphicsPlugin::RenderView).
THEOREM NothingIsOverdue == Spec => NothingOverdue
<1>1. IInv /\ [Next]_vars =>
        [/\ ReleaseAllocators => \A e \in commandAllocatorQueue' : e.fenceValue > completed
         /\ ReleaseResources => \A e \in resourceQueue' : e.fenceValue > completed]_vars
  BY DueIsFreed
<1> QED
  BY <1>1, Invariant, PTL DEF Spec, NothingOverdue
===============================================================================
