---------------------------- MODULE FrameworkProofs ----------------------------
(***************************************************************************)
(* Proofs about the framework that runs the tests and about its Vulkan       *)
(* plugin.  First the worker threads of the test "multithreading", one step  *)
(* at a time; then the scripts of the tests, one invariant after the other,  *)
(* over the steps of the framework and of the runtime; last the plugin.      *)
(***************************************************************************)
EXTENDS FrameworkInv, VulkanPlugin, SequenceTheorems, NaturalsInduction, WellFoundedInduction, TLAPS

\* The range of how many objects a worker can hold before a call goes over into the next.
GoesOver(x, i, n, d) == IF i = Len(x.calls) THEN n + d = 0 ELSE n + d \in x.low[i + 1]..x.high[i + 1]

\* What call i of x does to what the worker has made, and the mutexes before it.
InRange(x, i) ==
    /\ x.calls[i][1] \in {"lock", "make", "drop", "dropUnwritten", "ask", "adopt"}
    /\ x.low[i] \in Nat /\ x.high[i] \in 0..2
    /\ x.calls[i][1] \in {"lock", "make"} => i # Len(x.calls)
    /\ x.calls[i][1] = "dropUnwritten" => i = Len(x.calls)
    /\ x.calls[i][1] = "lock" => x.calls[i][2] \in Mutexes
    /\ x.calls[i][1] = "adopt" => x.calls[i][2] = "imageData"
    /\ x.calls[i][1] \in {"lock", "ask", "adopt"} => \A n \in x.low[i]..x.high[i] : GoesOver(x, i, n, 0)
Makes(x, i) ==
    x.calls[i][1] = "make" =>
        /\ x.calls[i][2] \in Kinds /\ x.calls[i][3] \in Limits
        /\ \A n \in x.low[i]..x.high[i] : GoesOver(x, i, n, 1) /\ x.kinds[n + 1] = x.calls[i][2]
        /\ x.calls[i][3] = "return" => x.high[i] = 0
        /\ x.calls[i][3] = "proceed" => \A n \in x.low[i]..x.high[i] : GoesOver(x, i, n, 0)
Drops(x, i) ==
    x.calls[i][1] \in {"drop", "dropUnwritten"} =>
        \A n \in x.low[i]..x.high[i] :
           /\ \A j \in 1..n :
                 x.kinds[j] = x.calls[i][2] /\ (\A l \in 1..n : x.kinds[l] = x.calls[i][2] => j <= l) =>
                    GoesOver(x, i, n, 0 - 1) /\ \A l \in j..(n - 1) : x.kinds[l + 1] = x.kinds[l]
           /\ (\A j \in 1..n : x.kinds[j] # x.calls[i][2]) => GoesOver(x, i, n, 0)
Guarded(x, i) ==
    /\ x.calls[i][1] # "lock" /\ x.calls[i][2] \in {"swapchain", "images", "imageData", "acquire", "wait", "release"} =>
          \E j \in 1..(i - 1) : x.calls[j] = Lock("openGlContextMutex")
    /\ x.calls[i][1] # "lock" /\ x.calls[i][2] \in {"acquire", "release"} =>
          \E j \in 1..(i - 1) : x.calls[j] = Lock("vulkanQueueMutex")
Balanced(x, i) == InRange(x, i) /\ Makes(x, i) /\ Drops(x, i) /\ Guarded(x, i)

\* Each function is a tuple of one to seven calls, and its balance holds call by call.
LEMMA BalancesAre ==
    \A x \in Balances :
        /\ Len(x.calls) \in 1..7 /\ x.calls = [j \in 1..Len(x.calls) |-> x.calls[j]]
        /\ x.low[1] = 0 /\ x.high[1] = 0 /\ \A i \in 1..Len(x.calls) : Balanced(x, i)
<1> SUFFICES ASSUME NEW x \in Balances
             PROVE  /\ Len(x.calls) \in 1..7 /\ x.calls = [j \in 1..Len(x.calls) |-> x.calls[j]]
                    /\ x.low[1] = 0 /\ x.high[1] = 0 /\ \A i \in 1..Len(x.calls) : Balanced(x, i)
  OBVIOUS
<1>1. CASE x = [calls |-> Exercise_xrCreateInstance, kinds |-> <<"instance">>,
              low |-> <<0, 1>>, high |-> <<0, 1>>]
  <2>a. x.calls = Exercise_xrCreateInstance /\ x.kinds = <<"instance">> /\ x.low = <<0, 1>> /\ x.high = <<0, 1>>
    BY <1>1
  <2>b. x.calls = Exercise_xrCreateInstance
    BY <2>a
  <2>1. x.calls = <<<<"make", "instance", "return">>, <<"drop", "instance">>>>
    BY ONLY <2>b DEF Exercise_xrCreateInstance, Make, Drop, Ask, Lock
  <2>0. x.calls = [j \in 1..2 |-> x.calls[j]] /\ x.low[1] = 0 /\ x.high[1] = 0
    BY <2>a, <2>1
  <2>2. Len(x.calls) = 2
    BY <2>1
  <2>3. Balanced(x, 1)
    <3>1. x.calls[1][1] = "make" /\ x.calls[1][2] = "instance" /\ x.calls[1][3] = "return" /\ x.low[1] = 0 /\ x.high[1] = 0 /\ x.low[1 + 1] = 1 /\ x.high[1 + 1] = 1 /\ x.kinds[1] = "instance"
      BY <2>a, <2>1
    <3> QED  BY ONLY <2>2, <3>1 DEF Balanced, InRange, Makes, Drops, Guarded, GoesOver, Mutexes, Kinds, Limits
  <2>4. Balanced(x, 2)
    <3>1. x.calls[2][1] = "drop" /\ x.calls[2][2] = "instance" /\ x.low[2] = 1 /\ x.high[2] = 1 /\ x.kinds[1] = "instance"
      BY <2>a, <2>1
    <3> QED  BY ONLY <2>2, <3>1 DEF Balanced, InRange, Makes, Drops, Guarded, GoesOver, Mutexes, Kinds, Limits
  <2> QED
    <3>1. \A i \in 1..2 : i = 1 \/ i = 2
      OBVIOUS
    <3>2. \A i \in 1..2 : Balanced(x, i)
      BY <3>1, <2>3, <2>4, Zenon
    <3> QED  BY <2>0, <2>2, <3>2
<1>2. CASE x = [calls |-> Exercise_xrPollEvent, kinds |-> <<>>,
              low |-> <<0>>, high |-> <<0>>]
  <2>a. x.calls = Exercise_xrPollEvent /\ x.kinds = <<>> /\ x.low = <<0>> /\ x.high = <<0>>
    BY <1>2
  <2>b. x.calls = Exercise_xrPollEvent
    BY <2>a
  <2>1. x.calls = <<<<"ask", "event">>>>
    BY ONLY <2>b DEF Exercise_xrPollEvent, Make, Drop, Ask, Lock
  <2>0. x.calls = [j \in 1..1 |-> x.calls[j]] /\ x.low[1] = 0 /\ x.high[1] = 0
    BY <2>a, <2>1
  <2>2. Len(x.calls) = 1
    BY <2>1
  <2>3. Balanced(x, 1)
    <3>1. x.calls[1][1] = "ask" /\ x.calls[1][2] = "event" /\ x.low[1] = 0 /\ x.high[1] = 0
      BY <2>a, <2>1
    <3> QED  BY ONLY <2>2, <3>1 DEF Balanced, InRange, Makes, Drops, Guarded, GoesOver, Mutexes, Kinds, Limits
  <2> QED
    <3>1. \A i \in 1..1 : i = 1
      OBVIOUS
    <3>2. \A i \in 1..1 : Balanced(x, i)
      BY <3>1, <2>3, Zenon
    <3> QED  BY <2>0, <2>2, <3>2
<1>3. CASE x = [calls |-> Exercise_xrCreateSession, kinds |-> <<"session">>,
              low |-> <<0, 1>>, high |-> <<0, 1>>]
  <2>a. x.calls = Exercise_xrCreateSession /\ x.kinds = <<"session">> /\ x.low = <<0, 1>> /\ x.high = <<0, 1>>
    BY <1>3
  <2>b. x.calls = Exercise_xrCreateSession
    BY <2>a
  <2>1. x.calls = <<<<"make", "session", "return">>, <<"drop", "session">>>>
    BY ONLY <2>b DEF Exercise_xrCreateSession, Make, Drop, Ask, Lock
  <2>0. x.calls = [j \in 1..2 |-> x.calls[j]] /\ x.low[1] = 0 /\ x.high[1] = 0
    BY <2>a, <2>1
  <2>2. Len(x.calls) = 2
    BY <2>1
  <2>3. Balanced(x, 1)
    <3>1. x.calls[1][1] = "make" /\ x.calls[1][2] = "session" /\ x.calls[1][3] = "return" /\ x.low[1] = 0 /\ x.high[1] = 0 /\ x.low[1 + 1] = 1 /\ x.high[1 + 1] = 1 /\ x.kinds[1] = "session"
      BY <2>a, <2>1
    <3> QED  BY ONLY <2>2, <3>1 DEF Balanced, InRange, Makes, Drops, Guarded, GoesOver, Mutexes, Kinds, Limits
  <2>4. Balanced(x, 2)
    <3>1. x.calls[2][1] = "drop" /\ x.calls[2][2] = "session" /\ x.low[2] = 1 /\ x.high[2] = 1 /\ x.kinds[1] = "session"
      BY <2>a, <2>1
    <3> QED  BY ONLY <2>2, <3>1 DEF Balanced, InRange, Makes, Drops, Guarded, GoesOver, Mutexes, Kinds, Limits
  <2> QED
    <3>1. \A i \in 1..2 : i = 1 \/ i = 2
      OBVIOUS
    <3>2. \A i \in 1..2 : Balanced(x, i)
      BY <3>1, <2>3, <2>4, Zenon
    <3> QED  BY <2>0, <2>2, <3>2
<1>4. CASE x = [calls |-> Exercise_xrCreateReferenceSpace, kinds |-> <<"space">>,
              low |-> <<0, 1>>, high |-> <<0, 1>>]
  <2>a. x.calls = Exercise_xrCreateReferenceSpace /\ x.kinds = <<"space">> /\ x.low = <<0, 1>> /\ x.high = <<0, 1>>
    BY <1>4
  <2>b. x.calls = Exercise_xrCreateReferenceSpace
    BY <2>a
  <2>1. x.calls = <<<<"make", "space", "return">>, <<"drop", "space">>>>
    BY ONLY <2>b DEF Exercise_xrCreateReferenceSpace, Make, Drop, Ask, Lock
  <2>0. x.calls = [j \in 1..2 |-> x.calls[j]] /\ x.low[1] = 0 /\ x.high[1] = 0
    BY <2>a, <2>1
  <2>2. Len(x.calls) = 2
    BY <2>1
  <2>3. Balanced(x, 1)
    <3>1. x.calls[1][1] = "make" /\ x.calls[1][2] = "space" /\ x.calls[1][3] = "return" /\ x.low[1] = 0 /\ x.high[1] = 0 /\ x.low[1 + 1] = 1 /\ x.high[1 + 1] = 1 /\ x.kinds[1] = "space"
      BY <2>a, <2>1
    <3> QED  BY ONLY <2>2, <3>1 DEF Balanced, InRange, Makes, Drops, Guarded, GoesOver, Mutexes, Kinds, Limits
  <2>4. Balanced(x, 2)
    <3>1. x.calls[2][1] = "drop" /\ x.calls[2][2] = "space" /\ x.low[2] = 1 /\ x.high[2] = 1 /\ x.kinds[1] = "space"
      BY <2>a, <2>1
    <3> QED  BY ONLY <2>2, <3>1 DEF Balanced, InRange, Makes, Drops, Guarded, GoesOver, Mutexes, Kinds, Limits
  <2> QED
    <3>1. \A i \in 1..2 : i = 1 \/ i = 2
      OBVIOUS
    <3>2. \A i \in 1..2 : Balanced(x, i)
      BY <3>1, <2>3, <2>4, Zenon
    <3> QED  BY <2>0, <2>2, <3>2
<1>5. CASE x = [calls |-> Exercise_xrCreateActionSpace, kinds |-> <<"space">>,
              low |-> <<0, 0>>, high |-> <<0, 1>>]
  <2>a. x.calls = Exercise_xrCreateActionSpace /\ x.kinds = <<"space">> /\ x.low = <<0, 0>> /\ x.high = <<0, 1>>
    BY <1>5
  <2>b. x.calls = Exercise_xrCreateActionSpace
    BY <2>a
  <2>1. x.calls = <<<<"make", "space", "proceed">>, <<"dropUnwritten", "space">>>>
    BY ONLY <2>b DEF Exercise_xrCreateActionSpace, Make, Drop, Ask, Lock
  <2>0. x.calls = [j \in 1..2 |-> x.calls[j]] /\ x.low[1] = 0 /\ x.high[1] = 0
    BY <2>a, <2>1
  <2>2. Len(x.calls) = 2
    BY <2>1
  <2>3. Balanced(x, 1)
    <3>1. x.calls[1][1] = "make" /\ x.calls[1][2] = "space" /\ x.calls[1][3] = "proceed" /\ x.low[1] = 0 /\ x.high[1] = 0 /\ x.low[1 + 1] = 0 /\ x.high[1 + 1] = 1 /\ x.kinds[1] = "space"
      BY <2>a, <2>1
    <3> QED  BY ONLY <2>2, <3>1 DEF Balanced, InRange, Makes, Drops, Guarded, GoesOver, Mutexes, Kinds, Limits
  <2>4. Balanced(x, 2)
    <3>1. x.calls[2][1] = "dropUnwritten" /\ x.calls[2][2] = "space" /\ x.low[2] = 0 /\ x.high[2] = 1 /\ x.kinds[1] = "space"
      BY <2>a, <2>1
    <3> QED  BY ONLY <2>2, <3>1 DEF Balanced, InRange, Makes, Drops, Guarded, GoesOver, Mutexes, Kinds, Limits
  <2> QED
    <3>1. \A i \in 1..2 : i = 1 \/ i = 2
      OBVIOUS
    <3>2. \A i \in 1..2 : Balanced(x, i)
      BY <3>1, <2>3, <2>4, Zenon
    <3> QED  BY <2>0, <2>2, <3>2
<1>6. CASE x = [calls |-> Exercise_xrCreateSwapchain, kinds |-> <<"swapchain">>,
              low |-> <<0, 0, 1>>, high |-> <<0, 0, 1>>]
  <2>a. x.calls = Exercise_xrCreateSwapchain /\ x.kinds = <<"swapchain">> /\ x.low = <<0, 0, 1>> /\ x.high = <<0, 0, 1>>
    BY <1>6
  <2>b. x.calls = Exercise_xrCreateSwapchain
    BY <2>a
  <2>1. x.calls = <<<<"lock", "openGlContextMutex">>, <<"make", "swapchain", "return">>, <<"drop", "swapchain">>>>
    BY ONLY <2>b DEF Exercise_xrCreateSwapchain, Make, Drop, Ask, Lock
  <2>0. x.calls = [j \in 1..3 |-> x.calls[j]] /\ x.low[1] = 0 /\ x.high[1] = 0
    BY <2>a, <2>1
  <2>2. Len(x.calls) = 3
    BY <2>1
  <2>3. Balanced(x, 1)
    <3>1. x.calls[1][1] = "lock" /\ x.calls[1][2] = "openGlContextMutex" /\ x.low[1] = 0 /\ x.high[1] = 0 /\ x.low[1 + 1] = 0 /\ x.high[1 + 1] = 0 /\ x.kinds[1] = "swapchain"
      BY <2>a, <2>1
    <3> QED  BY ONLY <2>2, <3>1 DEF Balanced, InRange, Makes, Drops, Guarded, GoesOver, Mutexes, Kinds, Limits
  <2>4. Balanced(x, 2)
    <3>1. x.calls[2][1] = "make" /\ x.calls[2][2] = "swapchain" /\ x.calls[2][3] = "return" /\ x.low[2] = 0 /\ x.high[2] = 0 /\ x.low[2 + 1] = 1 /\ x.high[2 + 1] = 1 /\ x.kinds[1] = "swapchain"
      BY <2>a, <2>1
    <3>2. x.calls[1] = Lock("openGlContextMutex") /\ 1 \in 1..(2 - 1)
      BY <2>1 DEF Lock
    <3>3. InRange(x, 2) /\ Makes(x, 2) /\ Drops(x, 2)
      BY ONLY <2>2, <3>1 DEF InRange, Makes, Drops, GoesOver, Mutexes, Kinds, Limits
    <3>4. Guarded(x, 2)  BY ONLY <2>2, <3>1, <3>2 DEF Guarded
    <3> QED  BY <3>3, <3>4 DEF Balanced
  <2>5. Balanced(x, 3)
    <3>1. x.calls[3][1] = "drop" /\ x.calls[3][2] = "swapchain" /\ x.low[3] = 1 /\ x.high[3] = 1 /\ x.kinds[1] = "swapchain"
      BY <2>a, <2>1
    <3>2. x.calls[1] = Lock("openGlContextMutex") /\ 1 \in 1..(3 - 1)
      BY <2>1 DEF Lock
    <3>3. InRange(x, 3) /\ Makes(x, 3) /\ Drops(x, 3)
      BY ONLY <2>2, <3>1 DEF InRange, Makes, Drops, GoesOver, Mutexes, Kinds, Limits
    <3>4. Guarded(x, 3)  BY ONLY <2>2, <3>1, <3>2 DEF Guarded
    <3> QED  BY <3>3, <3>4 DEF Balanced
  <2> QED
    <3>1. \A i \in 1..3 : i = 1 \/ i = 2 \/ i = 3
      OBVIOUS
    <3>2. \A i \in 1..3 : Balanced(x, i)
      BY <3>1, <2>3, <2>4, <2>5, Zenon
    <3> QED  BY <2>0, <2>2, <3>2
<1>7. CASE x = [calls |-> Exercise_xrEnumerateSwapchainImages, kinds |-> <<"swapchain">>,
              low |-> <<0, 0, 1, 1, 1, 1>>, high |-> <<0, 0, 1, 1, 1, 1>>]
  <2>a. x.calls = Exercise_xrEnumerateSwapchainImages /\ x.kinds = <<"swapchain">> /\ x.low = <<0, 0, 1, 1, 1, 1>> /\ x.high = <<0, 0, 1, 1, 1, 1>>
    BY <1>7
  <2>b. x.calls = Exercise_xrEnumerateSwapchainImages
    BY <2>a
  <2>1. x.calls = <<<<"lock", "openGlContextMutex">>, <<"make", "swapchain", "return">>, <<"ask", "images">>, <<"adopt", "imageData">>, <<"ask", "images">>, <<"drop", "swapchain">>>>
    BY ONLY <2>b DEF Exercise_xrEnumerateSwapchainImages, Make, Drop, Ask, Lock
  <2>0. x.calls = [j \in 1..6 |-> x.calls[j]] /\ x.low[1] = 0 /\ x.high[1] = 0
    BY <2>a, <2>1
  <2>2. Len(x.calls) = 6
    BY <2>1
  <2>3. Balanced(x, 1)
    <3>1. x.calls[1][1] = "lock" /\ x.calls[1][2] = "openGlContextMutex" /\ x.low[1] = 0 /\ x.high[1] = 0 /\ x.low[1 + 1] = 0 /\ x.high[1 + 1] = 0 /\ x.kinds[1] = "swapchain"
      BY <2>a, <2>1
    <3> QED  BY ONLY <2>2, <3>1 DEF Balanced, InRange, Makes, Drops, Guarded, GoesOver, Mutexes, Kinds, Limits
  <2>4. Balanced(x, 2)
    <3>1. x.calls[2][1] = "make" /\ x.calls[2][2] = "swapchain" /\ x.calls[2][3] = "return" /\ x.low[2] = 0 /\ x.high[2] = 0 /\ x.low[2 + 1] = 1 /\ x.high[2 + 1] = 1 /\ x.kinds[1] = "swapchain"
      BY <2>a, <2>1
    <3>2. x.calls[1] = Lock("openGlContextMutex") /\ 1 \in 1..(2 - 1)
      BY <2>1 DEF Lock
    <3>3. InRange(x, 2) /\ Makes(x, 2) /\ Drops(x, 2)
      BY ONLY <2>2, <3>1 DEF InRange, Makes, Drops, GoesOver, Mutexes, Kinds, Limits
    <3>4. Guarded(x, 2)  BY ONLY <2>2, <3>1, <3>2 DEF Guarded
    <3> QED  BY <3>3, <3>4 DEF Balanced
  <2>5. Balanced(x, 3)
    <3>1. x.calls[3][1] = "ask" /\ x.calls[3][2] = "images" /\ x.low[3] = 1 /\ x.high[3] = 1 /\ x.low[3 + 1] = 1 /\ x.high[3 + 1] = 1 /\ x.kinds[1] = "swapchain"
      BY <2>a, <2>1
    <3>2. x.calls[1] = Lock("openGlContextMutex") /\ 1 \in 1..(3 - 1)
      BY <2>1 DEF Lock
    <3>3. InRange(x, 3) /\ Makes(x, 3) /\ Drops(x, 3)
      BY ONLY <2>2, <3>1 DEF InRange, Makes, Drops, GoesOver, Mutexes, Kinds, Limits
    <3>4. Guarded(x, 3)  BY ONLY <2>2, <3>1, <3>2 DEF Guarded
    <3> QED  BY <3>3, <3>4 DEF Balanced
  <2>6. Balanced(x, 4)
    <3>1. x.calls[4][1] = "adopt" /\ x.calls[4][2] = "imageData" /\ x.low[4] = 1 /\ x.high[4] = 1 /\ x.low[4 + 1] = 1 /\ x.high[4 + 1] = 1 /\ x.kinds[1] = "swapchain"
      BY <2>a, <2>1
    <3>2. x.calls[1] = Lock("openGlContextMutex") /\ 1 \in 1..(4 - 1)
      BY <2>1 DEF Lock
    <3>3. InRange(x, 4) /\ Makes(x, 4) /\ Drops(x, 4)
      BY ONLY <2>2, <3>1 DEF InRange, Makes, Drops, GoesOver, Mutexes, Kinds, Limits
    <3>4. Guarded(x, 4)  BY ONLY <2>2, <3>1, <3>2 DEF Guarded
    <3> QED  BY <3>3, <3>4 DEF Balanced
  <2>7. Balanced(x, 5)
    <3>1. x.calls[5][1] = "ask" /\ x.calls[5][2] = "images" /\ x.low[5] = 1 /\ x.high[5] = 1 /\ x.low[5 + 1] = 1 /\ x.high[5 + 1] = 1 /\ x.kinds[1] = "swapchain"
      BY <2>a, <2>1
    <3>2. x.calls[1] = Lock("openGlContextMutex") /\ 1 \in 1..(5 - 1)
      BY <2>1 DEF Lock
    <3>3. InRange(x, 5) /\ Makes(x, 5) /\ Drops(x, 5)
      BY ONLY <2>2, <3>1 DEF InRange, Makes, Drops, GoesOver, Mutexes, Kinds, Limits
    <3>4. Guarded(x, 5)  BY ONLY <2>2, <3>1, <3>2 DEF Guarded
    <3> QED  BY <3>3, <3>4 DEF Balanced
  <2>8. Balanced(x, 6)
    <3>1. x.calls[6][1] = "drop" /\ x.calls[6][2] = "swapchain" /\ x.low[6] = 1 /\ x.high[6] = 1 /\ x.kinds[1] = "swapchain"
      BY <2>a, <2>1
    <3>2. x.calls[1] = Lock("openGlContextMutex") /\ 1 \in 1..(6 - 1)
      BY <2>1 DEF Lock
    <3>3. InRange(x, 6) /\ Makes(x, 6) /\ Drops(x, 6)
      BY ONLY <2>2, <3>1 DEF InRange, Makes, Drops, GoesOver, Mutexes, Kinds, Limits
    <3>4. Guarded(x, 6)  BY ONLY <2>2, <3>1, <3>2 DEF Guarded
    <3> QED  BY <3>3, <3>4 DEF Balanced
  <2> QED
    <3>1. \A i \in 1..6 : i = 1 \/ i = 2 \/ i = 3 \/ i = 4 \/ i = 5 \/ i = 6
      OBVIOUS
    <3>2. \A i \in 1..6 : Balanced(x, i)
      BY <3>1, <2>3, <2>4, <2>5, <2>6, <2>7, <2>8, Zenon
    <3> QED  BY <2>0, <2>2, <3>2
<1>8. CASE x = [calls |-> Exercise_xrAcquireSwapchainImage, kinds |-> <<"swapchain">>,
              low |-> <<0, 0, 0, 1, 1, 1, 1>>, high |-> <<0, 0, 0, 1, 1, 1, 1>>]
  <2>a. x.calls = Exercise_xrAcquireSwapchainImage /\ x.kinds = <<"swapchain">> /\ x.low = <<0, 0, 0, 1, 1, 1, 1>> /\ x.high = <<0, 0, 0, 1, 1, 1, 1>>
    BY <1>8
  <2>b. x.calls = Exercise_xrAcquireSwapchainImage
    BY <2>a
  <2>1. x.calls = <<<<"lock", "vulkanQueueMutex">>, <<"lock", "openGlContextMutex">>, <<"make", "swapchain", "return">>, <<"ask", "acquire">>, <<"ask", "wait">>, <<"ask", "release">>, <<"drop", "swapchain">>>>
    BY ONLY <2>b DEF Exercise_xrAcquireSwapchainImage, Make, Drop, Ask, Lock
  <2>0. x.calls = [j \in 1..7 |-> x.calls[j]] /\ x.low[1] = 0 /\ x.high[1] = 0
    BY <2>a, <2>1
  <2>2. Len(x.calls) = 7
    BY <2>1
  <2>3. Balanced(x, 1)
    <3>1. x.calls[1][1] = "lock" /\ x.calls[1][2] = "vulkanQueueMutex" /\ x.low[1] = 0 /\ x.high[1] = 0 /\ x.low[1 + 1] = 0 /\ x.high[1 + 1] = 0 /\ x.kinds[1] = "swapchain"
      BY <2>a, <2>1
    <3> QED  BY ONLY <2>2, <3>1 DEF Balanced, InRange, Makes, Drops, Guarded, GoesOver, Mutexes, Kinds, Limits
  <2>4. Balanced(x, 2)
    <3>1. x.calls[2][1] = "lock" /\ x.calls[2][2] = "openGlContextMutex" /\ x.low[2] = 0 /\ x.high[2] = 0 /\ x.low[2 + 1] = 0 /\ x.high[2 + 1] = 0 /\ x.kinds[1] = "swapchain"
      BY <2>a, <2>1
    <3>2. x.calls[1] = Lock("vulkanQueueMutex") /\ 1 \in 1..(2 - 1)
      BY <2>1 DEF Lock
    <3>3. InRange(x, 2) /\ Makes(x, 2) /\ Drops(x, 2)
      BY ONLY <2>2, <3>1 DEF InRange, Makes, Drops, GoesOver, Mutexes, Kinds, Limits
    <3>4. Guarded(x, 2)  BY ONLY <2>2, <3>1, <3>2 DEF Guarded
    <3> QED  BY <3>3, <3>4 DEF Balanced
  <2>5. Balanced(x, 3)
    <3>1. x.calls[3][1] = "make" /\ x.calls[3][2] = "swapchain" /\ x.calls[3][3] = "return" /\ x.low[3] = 0 /\ x.high[3] = 0 /\ x.low[3 + 1] = 1 /\ x.high[3 + 1] = 1 /\ x.kinds[1] = "swapchain"
      BY <2>a, <2>1
    <3>2. x.calls[1] = Lock("vulkanQueueMutex") /\ 1 \in 1..(3 - 1) /\ x.calls[2] = Lock("openGlContextMutex") /\ 2 \in 1..(3 - 1)
      BY <2>1 DEF Lock
    <3>3. InRange(x, 3) /\ Makes(x, 3) /\ Drops(x, 3)
      BY ONLY <2>2, <3>1 DEF InRange, Makes, Drops, GoesOver, Mutexes, Kinds, Limits
    <3>4. Guarded(x, 3)  BY ONLY <2>2, <3>1, <3>2 DEF Guarded
    <3> QED  BY <3>3, <3>4 DEF Balanced
  <2>6. Balanced(x, 4)
    <3>1. x.calls[4][1] = "ask" /\ x.calls[4][2] = "acquire" /\ x.low[4] = 1 /\ x.high[4] = 1 /\ x.low[4 + 1] = 1 /\ x.high[4 + 1] = 1 /\ x.kinds[1] = "swapchain"
      BY <2>a, <2>1
    <3>2. x.calls[1] = Lock("vulkanQueueMutex") /\ 1 \in 1..(4 - 1) /\ x.calls[2] = Lock("openGlContextMutex") /\ 2 \in 1..(4 - 1)
      BY <2>1 DEF Lock
    <3>3. InRange(x, 4) /\ Makes(x, 4) /\ Drops(x, 4)
      BY ONLY <2>2, <3>1 DEF InRange, Makes, Drops, GoesOver, Mutexes, Kinds, Limits
    <3>4. Guarded(x, 4)  BY ONLY <2>2, <3>1, <3>2 DEF Guarded
    <3> QED  BY <3>3, <3>4 DEF Balanced
  <2>7. Balanced(x, 5)
    <3>1. x.calls[5][1] = "ask" /\ x.calls[5][2] = "wait" /\ x.low[5] = 1 /\ x.high[5] = 1 /\ x.low[5 + 1] = 1 /\ x.high[5 + 1] = 1 /\ x.kinds[1] = "swapchain"
      BY <2>a, <2>1
    <3>2. x.calls[1] = Lock("vulkanQueueMutex") /\ 1 \in 1..(5 - 1) /\ x.calls[2] = Lock("openGlContextMutex") /\ 2 \in 1..(5 - 1)
      BY <2>1 DEF Lock
    <3>3. InRange(x, 5) /\ Makes(x, 5) /\ Drops(x, 5)
      BY ONLY <2>2, <3>1 DEF InRange, Makes, Drops, GoesOver, Mutexes, Kinds, Limits
    <3>4. Guarded(x, 5)  BY ONLY <2>2, <3>1, <3>2 DEF Guarded
    <3> QED  BY <3>3, <3>4 DEF Balanced
  <2>8. Balanced(x, 6)
    <3>1. x.calls[6][1] = "ask" /\ x.calls[6][2] = "release" /\ x.low[6] = 1 /\ x.high[6] = 1 /\ x.low[6 + 1] = 1 /\ x.high[6 + 1] = 1 /\ x.kinds[1] = "swapchain"
      BY <2>a, <2>1
    <3>2. x.calls[1] = Lock("vulkanQueueMutex") /\ 1 \in 1..(6 - 1) /\ x.calls[2] = Lock("openGlContextMutex") /\ 2 \in 1..(6 - 1)
      BY <2>1 DEF Lock
    <3>3. InRange(x, 6) /\ Makes(x, 6) /\ Drops(x, 6)
      BY ONLY <2>2, <3>1 DEF InRange, Makes, Drops, GoesOver, Mutexes, Kinds, Limits
    <3>4. Guarded(x, 6)  BY ONLY <2>2, <3>1, <3>2 DEF Guarded
    <3> QED  BY <3>3, <3>4 DEF Balanced
  <2>9. Balanced(x, 7)
    <3>1. x.calls[7][1] = "drop" /\ x.calls[7][2] = "swapchain" /\ x.low[7] = 1 /\ x.high[7] = 1 /\ x.kinds[1] = "swapchain"
      BY <2>a, <2>1
    <3>2. x.calls[1] = Lock("vulkanQueueMutex") /\ 1 \in 1..(7 - 1) /\ x.calls[2] = Lock("openGlContextMutex") /\ 2 \in 1..(7 - 1)
      BY <2>1 DEF Lock
    <3>3. InRange(x, 7) /\ Makes(x, 7) /\ Drops(x, 7)
      BY ONLY <2>2, <3>1 DEF InRange, Makes, Drops, GoesOver, Mutexes, Kinds, Limits
    <3>4. Guarded(x, 7)  BY ONLY <2>2, <3>1, <3>2 DEF Guarded
    <3> QED  BY <3>3, <3>4 DEF Balanced
  <2> QED
    <3>1. \A i \in 1..7 : i = 1 \/ i = 2 \/ i = 3 \/ i = 4 \/ i = 5 \/ i = 6 \/ i = 7
      OBVIOUS
    <3>2. \A i \in 1..7 : Balanced(x, i)
      BY <3>1, <2>3, <2>4, <2>5, <2>6, <2>7, <2>8, <2>9, Zenon
    <3> QED  BY <2>0, <2>2, <3>2
<1>9. CASE x = [calls |-> Exercise_xrCreateActionSet, kinds |-> <<"set", "set">>,
              low |-> <<0, 0, 0, 0>>, high |-> <<0, 1, 2, 1>>]
  <2>a. x.calls = Exercise_xrCreateActionSet /\ x.kinds = <<"set", "set">> /\ x.low = <<0, 0, 0, 0>> /\ x.high = <<0, 1, 2, 1>>
    BY <1>9
  <2>b. x.calls = Exercise_xrCreateActionSet
    BY <2>a
  <2>1. x.calls = <<<<"make", "set", "proceed">>, <<"make", "set", "proceed">>, <<"drop", "set">>, <<"drop", "set">>>>
    BY ONLY <2>b DEF Exercise_xrCreateActionSet, Make, Drop, Ask, Lock
  <2>0. x.calls = [j \in 1..4 |-> x.calls[j]] /\ x.low[1] = 0 /\ x.high[1] = 0
    BY <2>a, <2>1
  <2>2. Len(x.calls) = 4
    BY <2>1
  <2>3. Balanced(x, 1)
    <3>1. x.calls[1][1] = "make" /\ x.calls[1][2] = "set" /\ x.calls[1][3] = "proceed" /\ x.low[1] = 0 /\ x.high[1] = 0 /\ x.low[1 + 1] = 0 /\ x.high[1 + 1] = 1 /\ x.kinds[1] = "set" /\ x.kinds[2] = "set"
      BY <2>a, <2>1
    <3> QED  BY ONLY <2>2, <3>1 DEF Balanced, InRange, Makes, Drops, Guarded, GoesOver, Mutexes, Kinds, Limits
  <2>4. Balanced(x, 2)
    <3>1. x.calls[2][1] = "make" /\ x.calls[2][2] = "set" /\ x.calls[2][3] = "proceed" /\ x.low[2] = 0 /\ x.high[2] = 1 /\ x.low[2 + 1] = 0 /\ x.high[2 + 1] = 2 /\ x.kinds[1] = "set" /\ x.kinds[2] = "set"
      BY <2>a, <2>1
    <3> QED  BY ONLY <2>2, <3>1 DEF Balanced, InRange, Makes, Drops, Guarded, GoesOver, Mutexes, Kinds, Limits
  <2>5. Balanced(x, 3)
    <3>1. x.calls[3][1] = "drop" /\ x.calls[3][2] = "set" /\ x.low[3] = 0 /\ x.high[3] = 2 /\ x.low[3 + 1] = 0 /\ x.high[3 + 1] = 1 /\ x.kinds[1] = "set" /\ x.kinds[2] = "set"
      BY <2>a, <2>1
    <3> QED  BY ONLY <2>2, <3>1 DEF Balanced, InRange, Makes, Drops, Guarded, GoesOver, Mutexes, Kinds, Limits
  <2>6. Balanced(x, 4)
    <3>1. x.calls[4][1] = "drop" /\ x.calls[4][2] = "set" /\ x.low[4] = 0 /\ x.high[4] = 1 /\ x.kinds[1] = "set" /\ x.kinds[2] = "set"
      BY <2>a, <2>1
    <3> QED  BY ONLY <2>2, <3>1 DEF Balanced, InRange, Makes, Drops, Guarded, GoesOver, Mutexes, Kinds, Limits
  <2> QED
    <3>1. \A i \in 1..4 : i = 1 \/ i = 2 \/ i = 3 \/ i = 4
      OBVIOUS
    <3>2. \A i \in 1..4 : Balanced(x, i)
      BY <3>1, <2>3, <2>4, <2>5, <2>6, Zenon
    <3> QED  BY <2>0, <2>2, <3>2
<1>10. CASE x = [calls |-> Exercise_xrCreateAction, kinds |-> <<"baseSet", "action">>,
              low |-> <<0, 1, 1, 1>>, high |-> <<0, 1, 2, 1>>]
  <2>a. x.calls = Exercise_xrCreateAction /\ x.kinds = <<"baseSet", "action">> /\ x.low = <<0, 1, 1, 1>> /\ x.high = <<0, 1, 2, 1>>
    BY <1>10
  <2>b. x.calls = Exercise_xrCreateAction
    BY <2>a
  <2>1. x.calls = <<<<"make", "baseSet", "throw">>, <<"make", "action", "proceed">>, <<"drop", "action">>, <<"drop", "baseSet">>>>
    BY ONLY <2>b DEF Exercise_xrCreateAction, Make, Drop, Ask, Lock
  <2>0. x.calls = [j \in 1..4 |-> x.calls[j]] /\ x.low[1] = 0 /\ x.high[1] = 0
    BY <2>a, <2>1
  <2>2. Len(x.calls) = 4
    BY <2>1
  <2>3. Balanced(x, 1)
    <3>1. x.calls[1][1] = "make" /\ x.calls[1][2] = "baseSet" /\ x.calls[1][3] = "throw" /\ x.low[1] = 0 /\ x.high[1] = 0 /\ x.low[1 + 1] = 1 /\ x.high[1 + 1] = 1 /\ x.kinds[1] = "baseSet" /\ x.kinds[2] = "action"
      BY <2>a, <2>1
    <3> QED  BY ONLY <2>2, <3>1 DEF Balanced, InRange, Makes, Drops, Guarded, GoesOver, Mutexes, Kinds, Limits
  <2>4. Balanced(x, 2)
    <3>1. x.calls[2][1] = "make" /\ x.calls[2][2] = "action" /\ x.calls[2][3] = "proceed" /\ x.low[2] = 1 /\ x.high[2] = 1 /\ x.low[2 + 1] = 1 /\ x.high[2 + 1] = 2 /\ x.kinds[1] = "baseSet" /\ x.kinds[2] = "action"
      BY <2>a, <2>1
    <3> QED  BY ONLY <2>2, <3>1 DEF Balanced, InRange, Makes, Drops, Guarded, GoesOver, Mutexes, Kinds, Limits
  <2>5. Balanced(x, 3)
    <3>1. x.calls[3][1] = "drop" /\ x.calls[3][2] = "action" /\ x.low[3] = 1 /\ x.high[3] = 2 /\ x.low[3 + 1] = 1 /\ x.high[3 + 1] = 1 /\ x.kinds[1] = "baseSet" /\ x.kinds[2] = "action"
      BY <2>a, <2>1
    <3> QED  BY ONLY <2>2, <3>1 DEF Balanced, InRange, Makes, Drops, Guarded, GoesOver, Mutexes, Kinds, Limits
  <2>6. Balanced(x, 4)
    <3>1. x.calls[4][1] = "drop" /\ x.calls[4][2] = "baseSet" /\ x.low[4] = 1 /\ x.high[4] = 1 /\ x.kinds[1] = "baseSet" /\ x.kinds[2] = "action"
      BY <2>a, <2>1
    <3> QED  BY ONLY <2>2, <3>1 DEF Balanced, InRange, Makes, Drops, Guarded, GoesOver, Mutexes, Kinds, Limits
  <2> QED
    <3>1. \A i \in 1..4 : i = 1 \/ i = 2 \/ i = 3 \/ i = 4
      OBVIOUS
    <3>2. \A i \in 1..4 : Balanced(x, i)
      BY <3>1, <2>3, <2>4, <2>5, <2>6, Zenon
    <3> QED  BY <2>0, <2>2, <3>2
<1>11. CASE x = [calls |-> Exercise_xrSyncActions, kinds |-> <<>>,
              low |-> <<0, 0>>, high |-> <<0, 0>>]
  <2>a. x.calls = Exercise_xrSyncActions /\ x.kinds = <<>> /\ x.low = <<0, 0>> /\ x.high = <<0, 0>>
    BY <1>11
  <2>b. x.calls = Exercise_xrSyncActions
    BY <2>a
  <2>1. x.calls = <<<<"ask", "sync">>, <<"ask", "state">>>>
    BY ONLY <2>b DEF Exercise_xrSyncActions, Make, Drop, Ask, Lock
  <2>0. x.calls = [j \in 1..2 |-> x.calls[j]] /\ x.low[1] = 0 /\ x.high[1] = 0
    BY <2>a, <2>1
  <2>2. Len(x.calls) = 2
    BY <2>1
  <2>3. Balanced(x, 1)
    <3>1. x.calls[1][1] = "ask" /\ x.calls[1][2] = "sync" /\ x.low[1] = 0 /\ x.high[1] = 0 /\ x.low[1 + 1] = 0 /\ x.high[1 + 1] = 0
      BY <2>a, <2>1
    <3> QED  BY ONLY <2>2, <3>1 DEF Balanced, InRange, Makes, Drops, Guarded, GoesOver, Mutexes, Kinds, Limits
  <2>4. Balanced(x, 2)
    <3>1. x.calls[2][1] = "ask" /\ x.calls[2][2] = "state" /\ x.low[2] = 0 /\ x.high[2] = 0
      BY <2>a, <2>1
    <3> QED  BY ONLY <2>2, <3>1 DEF Balanced, InRange, Makes, Drops, Guarded, GoesOver, Mutexes, Kinds, Limits
  <2> QED
    <3>1. \A i \in 1..2 : i = 1 \/ i = 2
      OBVIOUS
    <3>2. \A i \in 1..2 : Balanced(x, i)
      BY <3>1, <2>3, <2>4, Zenon
    <3> QED  BY <2>0, <2>2, <3>2
<1> QED  BY <1>1, <1>2, <1>3, <1>4, <1>5, <1>6, <1>7, <1>8, <1>9, <1>10, <1>11, Zenon DEF Balances

\* The call before which a worker is.
CallOf(x, i) == x.calls[i]

\* What is left of a sequence from a place on: its head, its tail and its length.
LEMMA RestOf ==
    ASSUME NEW S, NEW s \in Seq(S), NEW i \in 1..Len(s)
    PROVE  /\ SubSeq(s, i, Len(s)) # <<>> /\ Head(SubSeq(s, i, Len(s))) = s[i]
           /\ Tail(SubSeq(s, i, Len(s))) = SubSeq(s, i + 1, Len(s))
           /\ Len(SubSeq(s, i, Len(s))) = Len(s) - i + 1
<1> DEFINE q == SubSeq(s, i, Len(s))
           r == SubSeq(s, i + 1, Len(s))
<1>1. q \in Seq(S) /\ Len(q) = Len(s) - i + 1 /\ \A k \in 1..Len(q) : q[k] = s[i + k - 1]
  BY SubSeqProperties
<1>2. r \in Seq(S) /\ Len(r) = Len(s) - i /\ \A k \in 1..Len(r) : r[k] = s[i + k]
  BY SubSeqProperties
<1> HIDE DEF q, r
<1>3. Len(s) \in Nat
  OBVIOUS
<1>4. q # <<>> /\ Head(q) = s[i]
  BY <1>1, <1>3
<1>5. Tail(q) \in Seq(S) /\ Len(Tail(q)) = Len(q) - 1 /\ \A k \in 1..Len(Tail(q)) : Tail(q)[k] = q[k + 1]
  <2>1. q \in Seq(S) /\ q # <<>>
    BY <1>1, <1>4
  <2>2. /\ Tail(q) \in Seq(S) /\ Len(Tail(q)) = Len(q) - 1
        /\ \A k \in 1..Len(Tail(q)) : Tail(q)[k] = q[k + 1]
    BY <2>1, HeadTailProperties, Zenon
  <2> QED  BY <2>2
<1> DEFINE p == Tail(q)
<1> HIDE DEF p
<1>6. p \in Seq(S) /\ Len(p) = Len(q) - 1 /\ \A k \in 1..Len(p) : p[k] = q[k + 1]
  BY <1>5 DEF p
<1>7. Len(p) = Len(r) /\ Len(r) \in Nat /\ Len(q) = Len(r) + 1
  BY <1>1, <1>2, <1>3, <1>6
<1>8. ASSUME NEW k \in 1..Len(r) PROVE p[k] = r[k]
  <2>1. k + 1 \in 1..Len(q) /\ i + (k + 1) - 1 = i + k /\ k \in 1..Len(p)
    BY <1>7
  <2>2. p[k] = q[k + 1] /\ q[k + 1] = s[i + (k + 1) - 1] /\ r[k] = s[i + k]
    BY <1>1, <1>2, <1>6, <2>1
  <2> QED  BY ONLY <2>1, <2>2, Zenon
<1>9. p = r
  BY <1>2, <1>6, <1>7, <1>8, SeqEqual
<1>10. q # <<>> /\ Head(q) = s[i] /\ Tail(q) = r /\ Len(q) = Len(s) - i + 1
  BY ONLY <1>1, <1>4, <1>9, Zenon DEF p
<1> QED  BY ONLY <1>10 DEF q, r

\* The calls of a function as a sequence, for the lemmas about sequences.
LEMMA CallsOf ==
    ASSUME NEW x \in Balances
    PROVE  x.calls \in Seq({x.calls[j] : j \in 1..Len(x.calls)})
<1>1. Len(x.calls) \in 1..7 /\ x.calls = [j \in 1..Len(x.calls) |-> x.calls[j]]
  BY BalancesAre
<1> DEFINE N == Len(x.calls)
           S == {x.calls[j] : j \in 1..Len(x.calls)}
<1>2. x.calls \in [1..N -> S]
  <2>1. \A j \in 1..N : x.calls[j] \in S
    OBVIOUS
  <2> QED  BY <1>1, <2>1
<1>3. N \in Nat
  BY <1>1
<1> HIDE DEF N, S
<1>4. x.calls \in Seq(S)
  BY <1>2, <1>3, SeqDef
<1> QED  BY <1>4 DEF S

\* A worker before call i of a function: which call is next, and what is left after it.
LEMMA AtCall ==
    ASSUME NEW t, NEW x \in Balances, NEW i \in 1..Len(x.calls), Before(t, x, i)
    PROVE  /\ Len(x.calls) \in 1..7
           /\ worker[t].calls # <<>> /\ Head(worker[t].calls) = x.calls[i]
           /\ Tail(worker[t].calls) = SubSeq(x.calls, i + 1, Len(x.calls))
           /\ Len(worker[t].calls) = Len(x.calls) - i + 1
           /\ Balanced(x, i)
<1>1. Len(x.calls) \in 1..7 /\ Balanced(x, i)
  BY BalancesAre
<1>2. worker[t].calls = SubSeq(x.calls, i, Len(x.calls))
  BY DEF Before
<1> DEFINE s == x.calls
<1>3. s \in Seq({x.calls[j] : j \in 1..Len(x.calls)})
  BY CallsOf
<1> HIDE DEF s
<1>4. i \in 1..Len(s)
  BY DEF s
<1>5. /\ SubSeq(s, i, Len(s)) # <<>> /\ Head(SubSeq(s, i, Len(s))) = s[i]
      /\ Tail(SubSeq(s, i, Len(s))) = SubSeq(s, i + 1, Len(s))
      /\ Len(SubSeq(s, i, Len(s))) = Len(s) - i + 1
  BY <1>3, <1>4, RestOf
<1>6. worker[t].calls = SubSeq(s, i, Len(s))
  BY <1>2 DEF s
<1>7. /\ worker[t].calls # <<>> /\ Head(worker[t].calls) = s[i]
      /\ Tail(worker[t].calls) = SubSeq(s, i + 1, Len(s))
      /\ Len(worker[t].calls) = Len(s) - i + 1
  BY <1>5, <1>6, Zenon
<1> QED  BY <1>1, <1>7, Zenon DEF s

\* A step of t leaves the other workers and their mutexes alone.
Apart(t) ==
    \A u \in Workers :
        u # t => worker'[u] = worker[u] /\ \A m \in Mutexes : held[m] = u => held'[m] = u

\* A step of one worker leaves the others where they are.
LEMMA OthersPlaced ==
    ASSUME NEW t, Apart(t), UNCHANGED api
    PROVE  \A u \in Workers : u # t /\ Placed(u) => Placed(u)'
<1> SUFFICES ASSUME NEW u \in Workers, u # t, Placed(u) PROVE Placed(u)'
  OBVIOUS
<1>1. worker'[u] = worker[u] /\ (\A m \in Mutexes : held[m] = u => held'[m] = u)
      /\ \A m \in Mutexes : Needed(m)' = Needed(m)
  BY DEF Apart, Needed
<1>2. \A x \in Balances : \A i \in 1..Len(x.calls) : Before(u, x, i) => Before(u, x, i)'
  BY <1>1 DEF Before
<1> QED  BY <1>1, <1>2, Zenon DEF Placed

\* The end of a function.
LEMMA Leaves ==
    ASSUME WorkerTypes, NEW t \in Workers, NEW e \in Nat, Leave(t, e)
    PROVE  /\ WorkerTypes' /\ Apart(t) /\ worker'[t].at = "pick"
           /\ worker'[t].made = <<>> /\ worker'[t].errors = worker[t].errors + e
           /\ worker'[t].calls = <<>>
           /\ \A m \in Mutexes : held'[m] # t
<1> DEFINE W == [at : {"none", "pick", "inside"}, done : Nat, calls : Rests,
                 made : Seq(Objects), errors : Nat]
           w == [worker[t] EXCEPT !.at = "pick", !.done = @ + 1, !.calls = <<>>, !.made = <<>>,
                              !.errors = @ + e]
<1>1. worker \in [Workers -> W] /\ held \in [Mutexes -> Workers \cup {"nobody"}]
  BY Zenon DEF WorkerTypes
<1>2. worker' = [worker EXCEPT ![t].at = "pick", ![t].done = @ + 1, ![t].calls = <<>>,
                               ![t].made = <<>>, ![t].errors = @ + e] /\ held' = Unlocked(t)
  BY Zenon DEF Leave
<1>3. <<>> \in Rests /\ <<>> \in Seq(Objects)
  BY DEF Rests
<1> HIDE DEF Rests
<1>4. w \in W /\ w.at = "pick" /\ w.made = <<>> /\ w.errors = worker[t].errors + e /\ w.calls = <<>>
  <2>1. worker[t] \in W
    BY <1>1
  <2>2. worker[t].done + 1 \in Nat /\ worker[t].errors + e \in Nat
    BY <2>1
  <2> QED  BY <2>1, <2>2, <1>3, Zenon
<1>8. worker' = [worker EXCEPT ![t] = w]
  BY <1>1, <1>2
<1> HIDE DEF w, W
<1>5. worker' \in [Workers -> W] /\ worker'[t] = w /\ \A u \in Workers : u # t => worker'[u] = worker[u]
  BY <1>1, <1>4, <1>8
<1>6. /\ held' \in [Mutexes -> Workers \cup {"nobody"}]
      /\ \A m \in Mutexes : held'[m] = IF held[m] = t THEN "nobody" ELSE held[m]
  BY <1>1, <1>2 DEF Unlocked
<1>7. \A m \in Mutexes : held'[m] # t
  BY <1>6, WorkersAssumption
<1> QED  BY <1>4, <1>5, <1>6, <1>7, Zenon DEF Apart, WorkerTypes, W

\* A call that is not the last.
LEMMA MovesOn ==
    ASSUME WorkerTypes, NEW t \in Workers, NEW made \in Seq(Objects), Len(worker[t].calls) # 1,
           Tail(worker[t].calls) \in Rests, Continue(t, made)
    PROVE  /\ WorkerTypes' /\ Apart(t) /\ held' = held
           /\ worker'[t].at = worker[t].at /\ worker'[t].calls = Tail(worker[t].calls)
           /\ worker'[t].made = made /\ worker'[t].errors = worker[t].errors
<1> DEFINE W == [at : {"none", "pick", "inside"}, done : Nat, calls : Rests,
                 made : Seq(Objects), errors : Nat]
           w == [worker[t] EXCEPT !.calls = Tail(@), !.made = made]
<1>1. worker \in [Workers -> W] /\ held \in [Mutexes -> Workers \cup {"nobody"}]
  BY Zenon DEF WorkerTypes
<1>2. worker' = [worker EXCEPT ![t].calls = Tail(@), ![t].made = made] /\ held' = held
  BY Zenon DEF Continue
<1>3. w \in W /\ w.at = worker[t].at /\ w.calls = Tail(worker[t].calls) /\ w.made = made
      /\ w.errors = worker[t].errors
  <2>1. worker[t] \in W
    BY <1>1
  <2> QED  BY <2>1
<1>4. worker' = [worker EXCEPT ![t] = w]
  BY <1>1, <1>2
<1> HIDE DEF w, W
<1>5. worker' \in [Workers -> W] /\ worker'[t] = w /\ \A u \in Workers : u # t => worker'[u] = worker[u]
  BY <1>1, <1>3, <1>4
<1>6. held' \in [Mutexes -> Workers \cup {"nobody"}]
  BY <1>1, <1>2
<1> QED  BY <1>2, <1>3, <1>5, <1>6, Zenon DEF Apart, WorkerTypes, W

\* What is left of a function is a rest of it.
LEMMA RestsAre ==
    /\ <<>> \in Rests
    /\ \A x \in Balances : \A i \in 1..Len(x.calls) : SubSeq(x.calls, i, Len(x.calls)) \in Rests
<1>1. \A x \in Balances : Len(x.calls) \in 1..7
  BY BalancesAre, Zenon
<1>2. \A n \in 1..7 : \A i \in 1..n : i \in 1..7
  OBVIOUS
<1>3. \A x \in Balances : \A i \in 1..Len(x.calls) : i \in 1..7
  BY <1>1, <1>2, Zenon
<1>4. ASSUME NEW x \in Balances, NEW i \in 1..Len(x.calls)
      PROVE  SubSeq(x.calls, i, Len(x.calls)) \in Rests
  <2>1. i \in 1..7
    BY <1>3
  <2>2. SubSeq(x.calls, i, Len(x.calls)) \in RestsOf(x)
    BY <2>1, Zenon DEF RestsOf
  <2> QED  BY <2>2, Zenon DEF Rests
<1>5. <<>> \in Rests
  BY DEF Rests
<1> QED  BY <1>4, <1>5

\* A call that takes no mutex is done, and the worker is before the next call or has left.
LEMMA CallDone ==
    ASSUME WorkerTypes, NEW t \in Workers, NEW x \in Balances, NEW i \in 1..Len(x.calls),
           worker[t].at = "inside", Before(t, x, i), x.calls[i][1] # "lock",
           NEW made \in Seq(Objects), NEW d \in Int, Len(made) = Len(worker[t].made) + d,
           GoesOver(x, i, Len(worker[t].made), d),
           \A n \in 1..Len(made) : made[n].kind = x.kinds[n],
           Continue(t, made), UNCHANGED api
    PROVE  /\ WorkerTypes' /\ Apart(t) /\ Placed(t)'
           /\ worker'[t].made = made /\ worker'[t].errors = worker[t].errors
           /\ Len(worker'[t].calls) = Len(worker[t].calls) - 1
<1> DEFINE N == Len(x.calls)
<1>1. /\ N \in 1..7 /\ Tail(worker[t].calls) = SubSeq(x.calls, i + 1, N)
      /\ Len(worker[t].calls) = N - i + 1
  BY AtCall
<1>2. CASE i = N
  <2>1. Len(worker[t].calls) = 1
    BY <1>1, <1>2
  <2>2. Leave(t, 0)
    BY <2>1, Zenon DEF Continue
  <2>3. /\ WorkerTypes' /\ Apart(t) /\ worker'[t].at = "pick"
        /\ worker'[t].made = <<>> /\ worker'[t].errors = worker[t].errors + 0
        /\ worker'[t].calls = <<>>
    BY <2>2, Leaves
  <2>4. made = <<>>
    BY <1>2 DEF GoesOver
  <2>5. worker[t].errors \in Nat
    <3>1. worker[t] \in [at : {"none", "pick", "inside"}, done : Nat, calls : Rests,
                         made : Seq(Objects), errors : Nat]
      BY Zenon DEF WorkerTypes
    <3> QED  BY <3>1
  <2>6. worker[t].errors + 0 = worker[t].errors /\ Len(<<>>) = 1 - 1
    BY <2>5
  <2>7. Placed(t)'
    BY <2>3 DEF Placed
  <2> QED  BY <2>1, <2>3, <2>4, <2>6, <2>7, Zenon
<1>3. CASE i # N
  <2>1. Len(worker[t].calls) # 1 /\ i + 1 \in 1..N /\ N - (i + 1) + 1 = (N - i + 1) - 1
    BY <1>1, <1>3
  <2>2. Tail(worker[t].calls) \in Rests
    BY <1>1, <2>1, RestsAre, Zenon
  <2>3. /\ WorkerTypes' /\ Apart(t) /\ held' = held
        /\ worker'[t].at = worker[t].at /\ worker'[t].calls = Tail(worker[t].calls)
        /\ worker'[t].made = made /\ worker'[t].errors = worker[t].errors
    BY <2>1, <2>2, MovesOn
  <2>4. Len(made) \in x.low[i + 1]..x.high[i + 1]
    BY <1>3 DEF GoesOver
  <2>5. \A m \in Mutexes : Needed(m)' = Needed(m) /\ x.calls[i] # Lock(m)
    BY DEF Needed, Lock
  <2>6. \A m \in Mutexes : Needed(m)' /\ (\E j \in 1..((i + 1) - 1) : x.calls[j] = Lock(m)) => held'[m] = t
    <3>1. \A j \in 1..((i + 1) - 1) : j = i \/ j \in 1..(i - 1)
      OBVIOUS
    <3>2. \A m \in Mutexes : Needed(m) /\ (\E j \in 1..(i - 1) : x.calls[j] = Lock(m)) => held[m] = t
      BY Zenon DEF Before
    <3> QED  BY <3>1, <3>2, <2>3, <2>5, Zenon
  <2>7. Before(t, x, i + 1)'
    BY <1>1, <2>3, <2>4, <2>6, Zenon DEF Before
  <2>8. Placed(t)'
    BY <2>1, <2>3, <2>7, Zenon DEF Placed
  <2>9. Len(worker'[t].calls) = Len(worker[t].calls) - 1
    <3>1. Before(t, x, i + 1)' => Len(SubSeq(x.calls, i + 1, N)) = N - (i + 1) + 1
      <4> DEFINE s == x.calls
      <4>1. s \in Seq({x.calls[j] : j \in 1..Len(x.calls)})
        BY CallsOf
      <4> HIDE DEF s
      <4>2. i + 1 \in 1..Len(s)
        BY <2>1 DEF s
      <4>3. Len(SubSeq(s, i + 1, Len(s))) = Len(s) - (i + 1) + 1
        BY <4>1, <4>2, RestOf
      <4> QED  BY <4>3 DEF s
    <3> QED  BY <1>1, <2>1, <2>3, <2>7, <3>1, Zenon
  <2> QED  BY <2>3, <2>8, <2>9
<1> QED  BY <1>2, <1>3

\* RemoveAt, place by place.
LEMMA Removed ==
    ASSUME NEW S, NEW s \in Seq(S), NEW i \in 1..Len(s)
    PROVE  /\ RemoveAt(s, i) \in Seq(S) /\ Len(RemoveAt(s, i)) = Len(s) - 1
           /\ \A k \in 1..(Len(s) - 1) : RemoveAt(s, i)[k] = IF k < i THEN s[k] ELSE s[k + 1]
<1> DEFINE p == SubSeq(s, 1, i - 1)
           q == SubSeq(s, i + 1, Len(s))
<1>1. /\ p \in Seq(S) /\ Len(p) = i - 1 /\ \A k \in 1..(i - 1) : p[k] = s[k]
      /\ q \in Seq(S) /\ Len(q) = Len(s) - i /\ \A k \in 1..(Len(s) - i) : q[k] = s[i + k]
      /\ Len(s) \in Nat
  BY SubSeqProperties
<1>2. RemoveAt(s, i) = p \o q
  BY DEF RemoveAt
<1> HIDE DEF p, q
<1>3. /\ p \o q \in Seq(S) /\ Len(p \o q) = Len(p) + Len(q)
      /\ \A k \in 1..(Len(p) + Len(q)) : (p \o q)[k] = IF k <= Len(p) THEN p[k] ELSE q[k - Len(p)]
  BY <1>1, ConcatProperties, Zenon
<1>4. Len(p) + Len(q) = Len(s) - 1
  BY <1>1
<1>5. \A k \in 1..(Len(s) - 1) : (p \o q)[k] = IF k < i THEN s[k] ELSE s[k + 1]
  <2> SUFFICES ASSUME NEW k \in 1..(Len(s) - 1)
               PROVE  (p \o q)[k] = IF k < i THEN s[k] ELSE s[k + 1]
    OBVIOUS
  <2>1. (p \o q)[k] = IF k <= Len(p) THEN p[k] ELSE q[k - Len(p)]
    BY <1>3, <1>4
  <2>2. CASE k < i
    <3>1. k <= Len(p) /\ k \in 1..(i - 1)
      BY <1>1, <2>2
    <3> QED  BY <2>1, <2>2, <3>1, <1>1
  <2>3. CASE ~(k < i)
    <3>1. ~(k <= Len(p)) /\ k - Len(p) = k - i + 1 /\ k - i + 1 \in 1..(Len(s) - i) /\ i + (k - i + 1) = k + 1
      BY <1>1, <2>3
    <3> QED  BY <2>1, <2>3, <3>1, <1>1, Zenon
  <2> QED  BY <2>2, <2>3
<1> QED  BY <1>2, <1>3, <1>4, <1>5

\* RemoveAt takes one place away, and no other.
LEMMA RemovedSet ==
    ASSUME NEW S, NEW s \in Seq(S), NEW i \in 1..Len(s)
    PROVE  /\ \A o \in ToSet(s) : o = s[i] \/ o \in ToSet(RemoveAt(s, i))
           /\ \A o \in ToSet(RemoveAt(s, i)) :
                 \E k \in 1..Len(s) : k # i /\ o = s[k]
<1> DEFINE r == RemoveAt(s, i)
<1>1. r \in Seq(S) /\ Len(r) = Len(s) - 1 /\ \A k \in 1..(Len(s) - 1) : r[k] = IF k < i THEN s[k] ELSE s[k + 1]
  BY Removed
<1> HIDE DEF r
<1>2. Len(s) \in Nat
  OBVIOUS
<1>3. ToSet(s) = {s[k] : k \in 1..Len(s)} /\ ToSet(r) = {r[k] : k \in 1..Len(r)}
  BY <1>1 DEF ToSet
<1>4. ASSUME NEW k \in 1..Len(s), k # i PROVE s[k] \in ToSet(r)
  <2>1. CASE k < i
    <3>1. k \in 1..Len(r) /\ r[k] = s[k]
      BY <1>1, <1>2, <1>4, <2>1
    <3> QED  BY <3>1, <1>3
  <2>2. CASE ~(k < i)
    <3>1. k - 1 \in 1..Len(r) /\ r[k - 1] = s[k]
      <4>1. k - 1 \in 1..(Len(s) - 1) /\ ~(k - 1 < i) /\ (k - 1) + 1 = k
        BY <1>2, <1>4, <2>2
      <4> QED  BY <4>1, <1>1
    <3> QED  BY <3>1, <1>3
  <2> QED  BY <2>1, <2>2
<1>5. ASSUME NEW k \in 1..Len(r) PROVE \E j \in 1..Len(s) : j # i /\ r[k] = s[j]
  <2>1. CASE k < i
    <3>1. k \in 1..Len(s) /\ k # i /\ r[k] = s[k]
      BY <1>1, <1>2, <2>1
    <3> QED  BY <3>1
  <2>2. CASE ~(k < i)
    <3>1. k + 1 \in 1..Len(s) /\ k + 1 # i /\ r[k] = s[k + 1]
      BY <1>1, <1>2, <2>2
    <3> QED  BY <3>1
  <2> QED  BY <2>1, <2>2
<1>6. \A o \in ToSet(s) : o = s[i] \/ o \in ToSet(r)
  BY <1>3, <1>4
<1>7. \A o \in ToSet(r) : \E k \in 1..Len(s) : k # i /\ o = s[k]
  BY <1>3, <1>5
<1> QED  BY <1>6, <1>7 DEF r

\* What a step of worker t has to show.
LEMMA StepOf ==
    ASSUME WorkerInv, NEW t \in Workers, WorkerTypes', Apart(t), UNCHANGED api,
           alive' \subseteq Objects, \A o \in alive' : o \in alive \/ o.by = t,
           Placed(t)', AtHand(t)', MadeInOrder(t)'
    PROVE  WorkerInv'
<1>1. \A u \in Workers : Placed(u) /\ AtHand(u) /\ MadeInOrder(u)
  BY DEF WorkerInv
<1>2. ASSUME NEW u \in Workers, u # t PROVE Placed(u)' /\ AtHand(u)' /\ MadeInOrder(u)'
  <2>1. worker'[u] = worker[u]
    BY <1>2 DEF Apart
  <2>2. Placed(u)'
    BY <1>1, <1>2, OthersPlaced
  <2>3. AtHand(u)'
    BY <1>1, <1>2, <2>1, Zenon DEF AtHand
  <2>4. MadeInOrder(u)'
    BY <1>1, <2>1, Zenon DEF MadeInOrder
  <2> QED  BY <2>2, <2>3, <2>4
<1> QED  BY <1>2, Zenon DEF WorkerInv

\* The parts of a worker.
LEMMA WorkerTyped ==
    ASSUME WorkerTypes, NEW t \in Workers
    PROVE  /\ worker[t].at \in {"none", "pick", "inside"} /\ worker[t].done \in Nat
           /\ worker[t].calls \in Rests /\ worker[t].made \in Seq(Objects) /\ worker[t].errors \in Nat
<1>1. worker[t] \in [at : {"none", "pick", "inside"}, done : Nat, calls : Rests,
                     made : Seq(Objects), errors : Nat]
  BY Zenon DEF WorkerTypes
<1> QED  BY <1>1

\* What a worker made are objects.
LEMMA MadeTyped ==
    ASSUME NEW m \in Seq(Objects)
    PROVE  \A n \in DOMAIN m : m[n] \in Objects /\ m[n].nr \in Nat /\ m[n].by \in Workers
<1>1. \A n \in DOMAIN m : m[n] \in Objects
  OBVIOUS
<1>2. \A o \in Objects : o.nr \in Nat /\ o.by \in Workers
  BY DEF Objects
<1> QED  BY <1>1, <1>2, Zenon

\* A worker inside a function is before one of its calls.
LEMMA InsideOf ==
    ASSUME WorkerInv, NEW t \in Workers, worker[t].at = "inside"
    PROVE  \E x \in Balances : \E i \in 1..Len(x.calls) :
              /\ Before(t, x, i) /\ Head(worker[t].calls) = x.calls[i] /\ Balanced(x, i)
              /\ Len(x.calls) \in 1..7 /\ Len(worker[t].calls) = Len(x.calls) - i + 1
<1>1. Placed(t)
  BY DEF WorkerInv
<1>2. PICK x \in Balances : \E i \in 1..Len(x.calls) : Before(t, x, i)
  BY <1>1 DEF Placed
<1>4. PICK i \in 1..Len(x.calls) : Before(t, x, i)
  BY <1>2
<1>3. Head(worker[t].calls) = x.calls[i] /\ Balanced(x, i) /\ Len(x.calls) \in 1..7
      /\ Len(worker[t].calls) = Len(x.calls) - i + 1
  BY <1>4, AtCall, Zenon
<1> QED  BY <1>4, <1>3, Zenon

\* The end of a function, when the worker counts an error or has nothing left.
LEMMA LeavesKept ==
    ASSUME WorkerInv, NEW t \in Workers, NEW e \in Nat, Leave(t, e), UNCHANGED api,
           alive' \subseteq alive, e # 0 \/ worker[t].made = <<>>
    PROVE  WorkerInv'
<1>1. WorkerTypes /\ alive \subseteq Objects /\ AtHand(t)
  BY DEF WorkerInv
<1>2. /\ WorkerTypes' /\ Apart(t) /\ worker'[t].at = "pick"
      /\ worker'[t].made = <<>> /\ worker'[t].errors = worker[t].errors + e
  BY <1>1, Leaves
<1>3. Placed(t)' /\ MadeInOrder(t)'
  BY <1>2 DEF Placed, MadeInOrder
<1>4. AtHand(t)'
  <2>1. worker[t].errors \in Nat
    BY <1>1, WorkerTyped
  <2>2. worker'[t].errors = 0 => e = 0 /\ worker[t].errors = 0
    BY <1>2, <2>1
  <2> QED  BY <1>1, <1>2, <2>2, Zenon DEF AtHand
<1> QED  BY <1>1, <1>2, <1>3, <1>4, StepOf

\* A call that makes and destroys nothing.
LEMMA NothingDone ==
    ASSUME WorkerInv, NEW t \in Workers, worker[t].at = "inside",
           NEW x \in Balances, NEW i \in 1..Len(x.calls), Before(t, x, i), x.calls[i][1] # "lock",
           GoesOver(x, i, Len(worker[t].made), 0),
           Continue(t, worker[t].made), UNCHANGED api, alive' \subseteq alive
    PROVE  WorkerInv'
<1>1. WorkerTypes /\ alive \subseteq Objects /\ AtHand(t) /\ MadeInOrder(t)
  BY DEF WorkerInv
<1>2. worker[t].made \in Seq(Objects)
  BY <1>1, WorkerTyped
<1>3. Len(worker[t].made) \in x.low[i]..x.high[i]
      /\ \A n \in 1..Len(worker[t].made) : worker[t].made[n].kind = x.kinds[n]
  BY Zenon DEF Before
<1> DEFINE m == worker[t].made
<1> HIDE DEF m
<1>4. m \in Seq(Objects) /\ Len(m) = Len(worker[t].made) + 0 /\ 0 \in Int /\ Continue(t, m)
      /\ GoesOver(x, i, Len(worker[t].made), 0) /\ \A n \in 1..Len(m) : m[n].kind = x.kinds[n]
  BY <1>2, <1>3 DEF m
<1>5. /\ WorkerTypes' /\ Apart(t) /\ Placed(t)'
      /\ worker'[t].made = m /\ worker'[t].errors = worker[t].errors
      /\ Len(worker'[t].calls) = Len(worker[t].calls) - 1
  BY <1>1, <1>4, CallDone, Zenon
<1>6. worker'[t].made = worker[t].made
  BY <1>5 DEF m
<1>7. AtHand(t)'
  BY <1>1, <1>5, <1>6, Zenon DEF AtHand
<1>8. MadeInOrder(t)'
  <2>1. Len(worker[t].calls) \in Nat
    <3>1. Len(x.calls) \in 1..7 /\ Len(worker[t].calls) = Len(x.calls) - i + 1
      BY AtCall, Zenon
    <3>2. \A n \in 1..7 : \A j \in 1..n : n - j + 1 \in Nat
      OBVIOUS
    <3> QED  BY <3>1, <3>2, Zenon
  <2>2. \A n \in DOMAIN worker[t].made : worker[t].made[n].nr \in Nat
    BY <1>2, MadeTyped, Zenon
  <2>3. \A n \in DOMAIN worker[t].made :
          worker[t].made[n].nr > Len(worker[t].calls) => worker[t].made[n].nr > Len(worker'[t].calls)
    BY <1>2, <1>5, <2>1, <2>2
  <2> QED  BY <1>1, <1>6, <2>3, Zenon DEF MadeInOrder
<1> QED  BY <1>1, <1>5, <1>7, <1>8, StepOf

\* A call that makes and drops nothing, on whatever the worker holds.
LEMMA GoesOnKept ==
    ASSUME WorkerInv, NEW t \in Workers, worker[t].at = "inside",
           NEW x \in Balances, NEW i \in 1..Len(x.calls), Before(t, x, i), x.calls[i][1] # "lock",
           \A n \in x.low[i]..x.high[i] : GoesOver(x, i, n, 0),
           Continue(t, worker[t].made), UNCHANGED api, alive' \subseteq alive
    PROVE  WorkerInv'
<1>1. Len(worker[t].made) \in x.low[i]..x.high[i]
  BY Zenon DEF Before
<1>2. GoesOver(x, i, Len(worker[t].made), 0)
  BY <1>1, Zenon
<1> QED  BY <1>2, NothingDone

\* The worker that takes a needed mutex holds it.
LEMMA TakeLockKept ==
    ASSUME WorkerInv, NEW t \in Workers, TakeLock(t)
    PROVE  WorkerInv'
<1>1. WorkerTypes /\ alive \subseteq Objects /\ AtHand(t) /\ MadeInOrder(t)
  BY DEF WorkerInv
<1>2. /\ worker[t].at = "inside" /\ Head(worker[t].calls)[1] = "lock"
      /\ Needed(Of(t)) => held[Of(t)] = "nobody"
      /\ worker' = [worker EXCEPT ![t].calls = Tail(@)]
      /\ held' = IF Needed(Of(t)) THEN [held EXCEPT ![Of(t)] = t] ELSE held
      /\ alive' = alive /\ api' = api
  BY Zenon DEF TakeLock, Calls
<1>3. PICK x \in Balances : \E i \in 1..Len(x.calls) :
              /\ Before(t, x, i) /\ Head(worker[t].calls) = x.calls[i] /\ Balanced(x, i)
              /\ Len(x.calls) \in 1..7 /\ Len(worker[t].calls) = Len(x.calls) - i + 1
  BY <1>2, InsideOf
<1>4. PICK i \in 1..Len(x.calls) :
              /\ Before(t, x, i) /\ Head(worker[t].calls) = x.calls[i] /\ Balanced(x, i)
              /\ Len(x.calls) \in 1..7 /\ Len(worker[t].calls) = Len(x.calls) - i + 1
  BY <1>3
<1>5. x.calls[i][1] = "lock" /\ Of(t) = x.calls[i][2]
  BY <1>2, <1>4, Zenon DEF Of
<1>6. /\ i # Len(x.calls) /\ Of(t) \in Mutexes
      /\ \A n \in x.low[i]..x.high[i] : GoesOver(x, i, n, 0)
  BY <1>4, <1>5 DEF Balanced, InRange
<1>7. Tail(worker[t].calls) = SubSeq(x.calls, i + 1, Len(x.calls))
  BY <1>4, AtCall, Zenon
<1>8. i + 1 \in 1..Len(x.calls)
  BY <1>4, <1>6
<1>9. Tail(worker[t].calls) \in Rests
  BY <1>7, <1>8, RestsAre, Zenon
<1> DEFINE W == [at : {"none", "pick", "inside"}, done : Nat, calls : Rests,
                 made : Seq(Objects), errors : Nat]
           w == [worker[t] EXCEPT !.calls = Tail(@)]
<1>10. worker \in [Workers -> W] /\ held \in [Mutexes -> Workers \cup {"nobody"}]
  BY <1>1, Zenon DEF WorkerTypes
<1>11. w \in W /\ w.at = "inside" /\ w.calls = Tail(worker[t].calls) /\ w.made = worker[t].made
      /\ w.errors = worker[t].errors
  <2>1. worker[t] \in W
    BY <1>10
  <2> QED  BY <2>1, <1>2, <1>9
<1>12. worker' = [worker EXCEPT ![t] = w]
  BY <1>2, <1>10
<1> HIDE DEF w, W
<1>13. worker' \in [Workers -> W] /\ worker'[t] = w /\ \A u \in Workers : u # t => worker'[u] = worker[u]
  BY <1>10, <1>11, <1>12
<1>14. /\ held' \in [Mutexes -> Workers \cup {"nobody"}]
       /\ \A m \in Mutexes : held'[m] = IF Needed(Of(t)) /\ m = Of(t) THEN t ELSE held[m]
  BY <1>2, <1>6, <1>10
<1>15. WorkerTypes'
  BY <1>13, <1>14, Zenon DEF WorkerTypes, W
<1>16. Apart(t)
  <2>1. ASSUME NEW u \in Workers, u # t, NEW m \in Mutexes, held[m] = u PROVE held'[m] = u
    <3>1. u # "nobody"
      BY WorkersAssumption
    <3> QED  BY <1>2, <1>14, <2>1, <3>1, Zenon
  <2> QED  BY <1>13, <2>1 DEF Apart
<1>17. Placed(t)'
  <2>1. \A m \in Mutexes : Needed(m)' = Needed(m)
    BY <1>2 DEF Needed
  <2>2. \A m \in Mutexes : x.calls[i] = Lock(m) => Of(t) = m
    BY <1>5 DEF Lock
  <2>3. \A m \in Mutexes : Needed(m)' /\ (\E j \in 1..((i + 1) - 1) : x.calls[j] = Lock(m)) => held'[m] = t
    <3>1. \A j \in 1..((i + 1) - 1) : j = i \/ j \in 1..(i - 1)
      OBVIOUS
    <3>2. \A m \in Mutexes : Needed(m) /\ (\E j \in 1..(i - 1) : x.calls[j] = Lock(m)) => held[m] = t
      BY <1>4, Zenon DEF Before
    <3> QED  BY <3>1, <3>2, <1>14, <2>1, <2>2, Zenon
  <2>4. Len(worker[t].made) \in x.low[i]..x.high[i]
        /\ \A n \in 1..Len(worker[t].made) : worker[t].made[n].kind = x.kinds[n]
    BY <1>4, Zenon DEF Before
  <2>5. Len(worker[t].made) \in x.low[i + 1]..x.high[i + 1]
    <3>1. GoesOver(x, i, Len(worker[t].made), 0)
      BY <2>4, <1>6, Zenon
    <3>2. Len(worker[t].made) + 0 = Len(worker[t].made)
      BY <2>4
    <3> QED  BY <3>1, <3>2, <1>6, Zenon DEF GoesOver
  <2>6. Before(t, x, i + 1)'
    BY <1>7, <1>11, <1>13, <2>3, <2>4, <2>5, Zenon DEF Before
  <2> QED  BY <1>8, <1>11, <1>13, <2>6, Zenon DEF Placed
<1>18. AtHand(t)'
  BY <1>1, <1>2, <1>11, <1>13, Zenon DEF AtHand
<1>19. MadeInOrder(t)'
  <2>1. Len(Tail(worker[t].calls)) < Len(worker[t].calls)
    <3> DEFINE s == worker[t].calls
    <3>1. Len(SubSeq(x.calls, i + 1, Len(x.calls))) = Len(x.calls) - (i + 1) + 1
      <4> DEFINE c == x.calls
      <4>1. c \in Seq({x.calls[j] : j \in 1..Len(x.calls)})
        BY CallsOf
      <4> HIDE DEF c
      <4>2. i + 1 \in 1..Len(c)
        BY <1>8 DEF c
      <4>3. Len(SubSeq(c, i + 1, Len(c))) = Len(c) - (i + 1) + 1
        BY <4>1, <4>2, RestOf
      <4> QED  BY <4>3 DEF c
    <3>2. \A n \in 1..7 : \A j \in 1..n : n - (j + 1) + 1 < n - j + 1
      OBVIOUS
    <3> QED  BY <1>4, <1>7, <3>1, <3>2, Zenon
  <2>2. worker[t].made \in Seq(Objects)
    BY <1>1, WorkerTyped
  <2>3. \A n \in DOMAIN worker[t].made : worker[t].made[n].nr \in Nat
    BY <2>2, MadeTyped, Zenon
  <2>4. Len(Tail(worker[t].calls)) \in Int /\ Len(worker[t].calls) \in Int
    <3>1. \A n \in 1..7 : \A j \in 1..n : n - (j + 1) + 1 \in Int /\ n - j + 1 \in Int
      OBVIOUS
    <3>2. Len(worker[t].calls) \in Int
      BY <1>4, <3>1, Zenon
    <3>3. Tail(worker[t].calls) \in Seq({x.calls[j] : j \in 1..Len(x.calls)})
      <4> DEFINE c == x.calls
                 C == {x.calls[j] : j \in 1..Len(x.calls)}
      <4>1. c \in Seq(C)
        BY CallsOf
      <4> HIDE DEF c, C
      <4>2. SubSeq(c, i + 1, Len(c)) \in Seq(C)
        BY <4>1, SubSeqProperties
      <4> QED  BY <1>7, <4>2, Zenon DEF c, C
    <3> QED  BY <3>2, <3>3
  <2>5. \A n \in DOMAIN worker[t].made :
           worker[t].made[n].nr > Len(worker[t].calls) => worker[t].made[n].nr > Len(Tail(worker[t].calls))
    BY <2>1, <2>3, <2>4
  <2> QED  BY <1>1, <1>11, <1>13, <2>5, Zenon DEF MadeInOrder
<1> QED  BY <1>1, <1>2, <1>15, <1>16, <1>17, <1>18, <1>19, StepOf

\* An environment offers only functions that balance.
LEMMA OfferedAre ==
    ASSUME NEW env, NEW withGraphics, NEW f \in Offered(env, withGraphics)
    PROVE  \E x \in Balances : x.calls = f
<1>1. f \in {Exercise_xrCreateInstance, Exercise_xrPollEvent, Exercise_xrCreateSession,
             Exercise_xrCreateReferenceSpace, Exercise_xrCreateActionSpace, Exercise_xrCreateActionSet,
             Exercise_xrCreateAction, Exercise_xrSyncActions, Exercise_xrCreateSwapchain,
             Exercise_xrEnumerateSwapchainImages, Exercise_xrAcquireSwapchainImage}
  BY DEF Offered
<1> QED
  <2>1. ASSUME f = Exercise_xrCreateInstance PROVE \E x \in Balances : x.calls = f
    BY <2>1 DEF Balances
  <2>2. ASSUME f = Exercise_xrPollEvent PROVE \E x \in Balances : x.calls = f
    BY <2>2 DEF Balances
  <2>3. ASSUME f = Exercise_xrCreateSession PROVE \E x \in Balances : x.calls = f
    BY <2>3 DEF Balances
  <2>4. ASSUME f = Exercise_xrCreateReferenceSpace PROVE \E x \in Balances : x.calls = f
    BY <2>4 DEF Balances
  <2>5. ASSUME f = Exercise_xrCreateActionSpace PROVE \E x \in Balances : x.calls = f
    BY <2>5 DEF Balances
  <2>6. ASSUME f = Exercise_xrCreateActionSet PROVE \E x \in Balances : x.calls = f
    BY <2>6 DEF Balances
  <2>7. ASSUME f = Exercise_xrCreateAction PROVE \E x \in Balances : x.calls = f
    BY <2>7 DEF Balances
  <2>8. ASSUME f = Exercise_xrSyncActions PROVE \E x \in Balances : x.calls = f
    BY <2>8 DEF Balances
  <2>9. ASSUME f = Exercise_xrCreateSwapchain PROVE \E x \in Balances : x.calls = f
    BY <2>9 DEF Balances
  <2>10. ASSUME f = Exercise_xrEnumerateSwapchainImages PROVE \E x \in Balances : x.calls = f
    BY <2>10 DEF Balances
  <2>11. ASSUME f = Exercise_xrAcquireSwapchainImage PROVE \E x \in Balances : x.calls = f
    BY <2>11 DEF Balances
  <2> QED  BY <1>1, <2>1, <2>2, <2>3, <2>4, <2>5, <2>6, <2>7, <2>8, <2>9, <2>10, <2>11, Zenon

\* A worker that picks a function holds nothing yet.
LEMMA PickFunctionKept ==
    ASSUME WorkerInv, NEW t \in Workers, NEW env, NEW withGraphics, NEW begun,
           PickFunction(t, env, withGraphics, begun)
    PROVE  WorkerInv'
<1>1. WorkerTypes /\ alive \subseteq Objects /\ AtHand(t) /\ Placed(t)
  BY DEF WorkerInv
<1>2. PICK f \in Offered(env, withGraphics) :
         worker' = [worker EXCEPT ![t].at = "inside", ![t].calls = f]
  BY Zenon DEF PickFunction
<1>3. worker[t].at = "pick" /\ held' = held /\ alive' = alive /\ api' = api
  BY Zenon DEF PickFunction
<1>4. worker[t].made = <<>>
  BY <1>1, <1>3 DEF Placed
<1>5. PICK x \in Balances : x.calls = f
  BY OfferedAre
<1>6. /\ Len(x.calls) \in 1..7 /\ x.low[1] = 0 /\ x.high[1] = 0
  BY BalancesAre
<1>9. 1 \in 1..Len(x.calls)
  <2>1. \A n \in 1..7 : 1 \in 1..n
    OBVIOUS
  <2> QED  BY <1>6, <2>1, Zenon
<1>7. SubSeq(x.calls, 1, Len(x.calls)) = x.calls
  <2> DEFINE c == x.calls
             C == {x.calls[j] : j \in 1..Len(x.calls)}
  <2>1. c \in Seq(C)
    BY CallsOf
  <2> HIDE DEF c, C
  <2>2. SubSeq(c, 1, Len(c)) = c
    BY <2>1
  <2> QED  BY <2>2 DEF c
<1>8. f \in Rests
  BY <1>9, <1>5, <1>7, RestsAre, Zenon
<1> DEFINE W == [at : {"none", "pick", "inside"}, done : Nat, calls : Rests,
                 made : Seq(Objects), errors : Nat]
           w == [worker[t] EXCEPT !.at = "inside", !.calls = f]
<1>10. worker \in [Workers -> W] /\ held \in [Mutexes -> Workers \cup {"nobody"}]
  BY <1>1, Zenon DEF WorkerTypes
<1>11. w \in W /\ w.at = "inside" /\ w.calls = f /\ w.made = worker[t].made
      /\ w.errors = worker[t].errors
  <2>1. worker[t] \in W
    BY <1>10
  <2> QED  BY <2>1, <1>8
<1>12. worker' = [worker EXCEPT ![t] = w]
  BY <1>2, <1>10
<1> HIDE DEF w, W
<1>13. worker' \in [Workers -> W] /\ worker'[t] = w /\ \A u \in Workers : u # t => worker'[u] = worker[u]
  BY <1>10, <1>11, <1>12
<1>14. WorkerTypes'
  BY <1>3, <1>10, <1>13, Zenon DEF WorkerTypes, W
<1>15. Apart(t)
  BY <1>3, <1>13 DEF Apart
<1>16. Placed(t)'
  <2>1. worker'[t].calls = SubSeq(x.calls, 1, Len(x.calls)) /\ worker'[t].made = <<>>
    BY <1>4, <1>5, <1>7, <1>11, <1>13, Zenon
  <2>2. Len(worker'[t].made) \in x.low[1]..x.high[1] /\ 1..Len(worker'[t].made) = {} /\ 1..(1 - 1) = {}
    BY <2>1, <1>6
  <2>3. Before(t, x, 1)'
    BY <2>1, <2>2, Zenon DEF Before
  <2> QED  BY <1>9, <2>3, <1>11, <1>13, Zenon DEF Placed
<1>17. AtHand(t)'
  BY <1>1, <1>3, <1>11, <1>13, Zenon DEF AtHand
<1>18. MadeInOrder(t)'
  BY <1>4, <1>11, <1>13 DEF MadeInOrder
<1> QED  BY <1>1, <1>3, <1>14, <1>15, <1>16, <1>17, <1>18, StepOf

\* The calls of the runtime and the container that change nothing here.
LEMMA AskKept ==
    ASSUME WorkerInv, NEW t \in Workers, AskRuntime(t) \/ AdoptImageData(t)
    PROVE  WorkerInv'
<1>1. /\ worker[t].at = "inside" /\ Head(worker[t].calls)[1] \in {"ask", "adopt"}
      /\ Continue(t, worker[t].made) /\ alive' = alive /\ api' = api
  BY Zenon DEF AskRuntime, AdoptImageData, Calls
<1>2. PICK x \in Balances : \E i \in 1..Len(x.calls) :
              /\ Before(t, x, i) /\ Head(worker[t].calls) = x.calls[i] /\ Balanced(x, i)
              /\ Len(x.calls) \in 1..7 /\ Len(worker[t].calls) = Len(x.calls) - i + 1
  BY <1>1, InsideOf
<1>3. PICK i \in 1..Len(x.calls) :
              /\ Before(t, x, i) /\ Head(worker[t].calls) = x.calls[i] /\ Balanced(x, i)
              /\ Len(x.calls) \in 1..7 /\ Len(worker[t].calls) = Len(x.calls) - i + 1
  BY <1>2
<1>4. x.calls[i][1] \in {"ask", "adopt"}
  BY <1>1, <1>3, Zenon
<1>5. x.calls[i][1] # "lock" /\ \A n \in x.low[i]..x.high[i] : GoesOver(x, i, n, 0)
  BY <1>3, <1>4 DEF Balanced, InRange
<1>6. alive' \subseteq alive
  BY <1>1
<1> QED  BY <1>1, <1>3, <1>5, <1>6, GoesOnKept

\* A call that fails ends the function, and the worker counts it.
LEMMA FailsKept ==
    ASSUME WorkerInv, NEW t \in Workers, Fails(t)
    PROVE  WorkerInv'
<1>1. Leave(t, 1) /\ alive' = alive /\ api' = api
  BY Zenon DEF Fails, Throw
<1>2. 1 \in Nat /\ 1 # 0 /\ alive' \subseteq alive
  BY <1>1
<1> QED  BY <1>1, <1>2, LeavesKept

\* The workers of an environment start with nothing.
LEMMA StartWorkersKept ==
    ASSUME WorkerInv, NEW apis, StartWorkers(apis)
    PROVE  WorkerInv'
<1>1. /\ worker' = [t \in Workers |-> [Idle EXCEPT !.at = "pick"]] /\ alive' = {} /\ held' = held
  BY Zenon DEF StartWorkers
<1> DEFINE w == [at |-> "pick", done |-> 0, calls |-> <<>>, made |-> <<>>, errors |-> 0]
<1>2. [Idle EXCEPT !.at = "pick"] = w
  BY DEF Idle
<1>3. \A t \in Workers : worker'[t] = w
  BY <1>1, <1>2
<1>4. <<>> \in Rests /\ <<>> \in Seq(Objects) /\ held \in [Mutexes -> Workers \cup {"nobody"}]
  <2>1. <<>> \in Rests /\ held \in [Mutexes -> Workers \cup {"nobody"}]
    BY RestsAre, Zenon DEF WorkerInv, WorkerTypes
  <2> QED  BY <2>1
<1>5. w \in [at : {"none", "pick", "inside"}, done : Nat, calls : Rests,
             made : Seq(Objects), errors : Nat]
  BY <1>4
<1>6. worker' \in [Workers -> [at : {"none", "pick", "inside"}, done : Nat, calls : Rests,
                               made : Seq(Objects), errors : Nat]]
  BY <1>1, <1>2, <1>5, Zenon
<1>7. WorkerTypes'
  BY <1>1, <1>4, <1>6, Zenon DEF WorkerTypes
<1>8. \A t \in Workers : Placed(t)' /\ AtHand(t)' /\ MadeInOrder(t)'
  BY <1>1, <1>3 DEF Placed, AtHand, MadeInOrder
<1> QED  BY <1>1, <1>7, <1>8 DEF WorkerInv

\* Append, place by place and as a set.
LEMMA AppendedSet ==
    ASSUME NEW S, NEW s \in Seq(S), NEW e \in S
    PROVE  /\ Append(s, e) \in Seq(S) /\ Len(Append(s, e)) = Len(s) + 1
           /\ \A k \in 1..(Len(s) + 1) : Append(s, e)[k] = IF k = Len(s) + 1 THEN e ELSE s[k]
           /\ ToSet(Append(s, e)) = ToSet(s) \cup {e}
<1> DEFINE r == Append(s, e)
<1>1. /\ r \in Seq(S) /\ Len(r) = Len(s) + 1 /\ Len(s) \in Nat
      /\ \A k \in 1..(Len(s) + 1) : r[k] = IF k = Len(s) + 1 THEN e ELSE s[k]
  OBVIOUS
<1> HIDE DEF r
<1>2. ToSet(s) = {s[k] : k \in 1..Len(s)} /\ ToSet(r) = {r[k] : k \in 1..(Len(s) + 1)}
  BY <1>1 DEF ToSet
<1>3. ToSet(r) \subseteq ToSet(s) \cup {e}
  BY <1>1, <1>2
<1>4. ASSUME NEW k \in 1..Len(s) PROVE s[k] \in ToSet(r)
  <2>1. k \in 1..(Len(s) + 1) /\ r[k] = s[k]
    BY <1>1
  <2> QED  BY <2>1, <1>2
<1>5. e \in ToSet(r)
  <2>1. Len(s) + 1 \in 1..(Len(s) + 1) /\ r[Len(s) + 1] = e
    BY <1>1
  <2> QED  BY <2>1, <1>2
<1> QED  BY <1>1, <1>2, <1>3, <1>4, <1>5 DEF r

\* The new object is the last that the worker made, and one it has at hand.
LEMMA MakesObject ==
    ASSUME WorkerInv, NEW t \in Workers, worker[t].at = "inside",
           NEW x \in Balances, NEW i \in 1..Len(x.calls), Before(t, x, i),
           Head(worker[t].calls) = x.calls[i], Balanced(x, i), x.calls[i][1] = "make",
           Len(worker[t].calls) \in Nat,
           alive' = alive \cup {Object(t)}, UNCHANGED api,
           Continue(t, Append(worker[t].made, Object(t)))
    PROVE  WorkerInv'
<1>1. WorkerTypes /\ alive \subseteq Objects /\ AtHand(t) /\ MadeInOrder(t)
  BY DEF WorkerInv
<1>2. worker[t].made \in Seq(Objects) /\ worker[t].done \in Nat
  BY <1>1, WorkerTyped
<1> DEFINE o == Object(t)
           m == worker[t].made
           r == Append(worker[t].made, Object(t))
<1>3. /\ x.calls[i][2] \in Kinds
      /\ \A n \in x.low[i]..x.high[i] : GoesOver(x, i, n, 1) /\ x.kinds[n + 1] = x.calls[i][2]
  BY Zenon DEF Balanced, Makes
<1>4. /\ o \in Objects /\ o.kind = x.calls[i][2] /\ o.by = t /\ o.nr = Len(worker[t].calls)
  <2>1. o = [kind |-> x.calls[i][2], by |-> t, turn |-> worker[t].done, nr |-> Len(worker[t].calls)]
    BY Zenon DEF Object, Of
  <2> HIDE DEF o
  <2> QED  BY <2>1, <1>2, <1>3 DEF Objects
<1> HIDE DEF o
<1>5. /\ r \in Seq(Objects) /\ Len(r) = Len(m) + 1 /\ Len(m) \in Nat
      /\ \A k \in 1..(Len(m) + 1) : r[k] = IF k = Len(m) + 1 THEN o ELSE m[k]
      /\ ToSet(r) = ToSet(m) \cup {o}
  BY <1>2, <1>4, AppendedSet DEF o
<1>6. /\ Len(m) \in x.low[i]..x.high[i]
      /\ \A n \in 1..Len(m) : m[n].kind = x.kinds[n]
  BY Zenon DEF Before
<1>7. GoesOver(x, i, Len(m), 1) /\ x.kinds[Len(m) + 1] = x.calls[i][2]
  BY <1>3, <1>6, Zenon
<1>8. Continue(t, r)
  OBVIOUS
<1> HIDE DEF m, r
<1>9. \A n \in 1..Len(r) : r[n].kind = x.kinds[n]
  <2>1. \A n \in 1..(Len(m) + 1) : n # Len(m) + 1 => n \in 1..Len(m)
    BY <1>5
  <2> QED  BY <1>4, <1>5, <1>6, <1>7, <2>1, Zenon
<1>10. Len(r) = Len(worker[t].made) + 1 /\ GoesOver(x, i, Len(worker[t].made), 1) /\ 1 \in Int
  BY <1>5, <1>7 DEF m
<1>11. x.calls[i][1] # "lock"
  OBVIOUS
<1>12. /\ WorkerTypes' /\ Apart(t) /\ Placed(t)'
       /\ worker'[t].made = r /\ worker'[t].errors = worker[t].errors
       /\ Len(worker'[t].calls) = Len(worker[t].calls) - 1
  BY <1>1, <1>5, <1>8, <1>9, <1>10, <1>11, CallDone, Zenon
<1>13. alive' = alive \cup {o}
  BY DEF o
<1>14. AtHand(t)'
  <2>1. worker[t].errors = 0 => \A p \in alive : p.by = t => p \in ToSet(m)
    BY <1>1, Zenon DEF AtHand, m
  <2> QED  BY <2>1, <1>5, <1>12, <1>13, Zenon DEF AtHand
<1>15. MadeInOrder(t)'
  <2>1. \A k \in DOMAIN m : /\ m[k].by = t /\ m[k].nr > Len(worker[t].calls) /\ m[k].nr \in Nat
                            /\ \A j \in DOMAIN m : k < j => m[k].nr > m[j].nr
    <3>1. \A k \in DOMAIN m : m[k].nr \in Nat
      BY <1>2, MadeTyped, Zenon DEF m
    <3> QED  BY <1>1, <3>1, Zenon DEF MadeInOrder, m
  <2>2. DOMAIN m = 1..Len(m) /\ DOMAIN r = 1..(Len(m) + 1)
    BY <1>2, <1>5 DEF m
  <2>3. \A k \in 1..(Len(m) + 1) : k = Len(m) + 1 \/ k \in 1..Len(m)
    BY <1>5
  <2>4. Len(worker'[t].calls) < Len(worker[t].calls) /\ Len(worker'[t].calls) \in Int
    BY <1>12
  <2>5. \A k \in DOMAIN r : r[k].by = t /\ r[k].nr > Len(worker'[t].calls)
    <3>1. \A k \in DOMAIN m : m[k].nr > Len(worker'[t].calls)
      BY <2>1, <2>4
    <3>2. o.nr > Len(worker'[t].calls)
      BY <2>4, <1>4
    <3> QED  BY <1>4, <1>5, <2>1, <2>2, <2>3, <3>1, <3>2, Zenon
  <2>6. ASSUME NEW k \in DOMAIN r, NEW j \in DOMAIN r, k < j PROVE r[k].nr > r[j].nr
    <3>1. k \in 1..Len(m) /\ k # Len(m) + 1 /\ (j = Len(m) + 1 \/ (j \in 1..Len(m) /\ j # Len(m) + 1))
      BY <1>5, <2>2, <2>6
    <3>2. r[k] = m[k] /\ r[j] = IF j = Len(m) + 1 THEN o ELSE m[j]
      BY <1>5, <2>2, Zenon, <3>1
    <3> QED  BY <1>4, <2>1, <2>2, <2>6, <3>1, <3>2, Zenon
  <2> QED  BY <1>12, <2>5, <2>6, Zenon DEF MadeInOrder
<1>16. alive' \subseteq Objects /\ \A p \in alive' : p \in alive \/ p.by = t
  BY <1>1, <1>4, <1>13
<1> QED  BY <1>12, <1>14, <1>15, <1>16, StepOf

\* The creations: made, at the limit, or refused for a name that is taken.
LEMMA MakeObjectKept ==
    ASSUME WorkerInv, NEW t \in Workers, NEW env, MakeObject(t, env)
    PROVE  WorkerInv'
<1>1. worker[t].at = "inside" /\ Head(worker[t].calls)[1] = "make" /\ api' = api
  BY Zenon DEF MakeObject, Calls
<1>2. PICK x \in Balances : \E i \in 1..Len(x.calls) :
              /\ Before(t, x, i) /\ Head(worker[t].calls) = x.calls[i] /\ Balanced(x, i)
              /\ Len(x.calls) \in 1..7 /\ Len(worker[t].calls) = Len(x.calls) - i + 1
  BY <1>1, InsideOf
<1>3. PICK i \in 1..Len(x.calls) :
              /\ Before(t, x, i) /\ Head(worker[t].calls) = x.calls[i] /\ Balanced(x, i)
              /\ Len(x.calls) \in 1..7 /\ Len(worker[t].calls) = Len(x.calls) - i + 1
  BY <1>2
<1>4. x.calls[i][1] = "make" /\ Head(worker[t].calls)[3] = x.calls[i][3]
  BY <1>1, <1>3, Zenon
<1>5. Len(worker[t].calls) \in Nat
  <2>1. \A n \in 1..7 : \A j \in 1..n : n - j + 1 \in Nat
    OBVIOUS
  <2> QED  BY <1>3, <2>1, Zenon
<1>6. /\ x.calls[i][3] \in Limits
      /\ x.calls[i][3] = "return" => x.high[i] = 0
      /\ x.calls[i][3] = "proceed" => \A n \in x.low[i]..x.high[i] : GoesOver(x, i, n, 0)
      /\ x.low[i] \in Nat
  BY <1>3, <1>4, Zenon DEF Balanced, Makes, InRange
<1>7. CASE alive' = alive \cup {Object(t)} /\ Continue(t, Append(worker[t].made, Object(t)))
  BY <1>1, <1>3, <1>4, <1>5, <1>7, MakesObject
<1>8. CASE alive' = alive /\ Leave(t, 0) /\ x.calls[i][3] = "return"
  <2>1. worker[t].made = <<>>
    <3>1. Len(worker[t].made) \in x.low[i]..x.high[i]
      BY <1>3, Zenon DEF Before
    <3>2. worker[t].made \in Seq(Objects)
      BY WorkerTyped DEF WorkerInv
    <3> QED  BY <1>6, <1>8, <3>1, <3>2
  <2>2. alive' \subseteq alive /\ 0 \in Nat
    BY <1>8
  <2> QED  BY <1>1, <1>8, <2>1, <2>2, LeavesKept
<1>9. CASE alive' = alive /\ Continue(t, worker[t].made) /\ x.calls[i][3] = "proceed"
  <2>1. alive' \subseteq alive /\ x.calls[i][1] # "lock"
    BY <1>4, <1>9
  <2> QED  BY <1>1, <1>3, <1>6, <1>9, <2>1, GoesOnKept
<1>10. CASE alive' = alive /\ Leave(t, 1)
  <2>1. alive' \subseteq alive /\ 1 \in Nat /\ 1 # 0
    BY <1>10
  <2> QED  BY <1>1, <1>10, <2>1, LeavesKept
<1>11. \/ alive' = alive \cup {Object(t)} /\ Continue(t, Append(worker[t].made, Object(t)))
       \/ alive' = alive /\ Leave(t, 0) /\ x.calls[i][3] = "return"
       \/ alive' = alive /\ Continue(t, worker[t].made) /\ x.calls[i][3] = "proceed"
       \/ alive' = alive /\ Leave(t, 1)
  <2>1. x.calls[i][3] = "return" \/ x.calls[i][3] = "proceed" \/ x.calls[i][3] = "throw"
    BY <1>6 DEF Limits
  <2>2. /\ x.calls[i][3] = "return" => x.calls[i][3] # "proceed" /\ x.calls[i][3] # "throw"
        /\ x.calls[i][3] = "proceed" => x.calls[i][3] # "return" /\ x.calls[i][3] # "throw"
        /\ x.calls[i][3] = "throw" => x.calls[i][3] # "return" /\ x.calls[i][3] # "proceed"
    OBVIOUS
  <2> QED  BY <1>4, <2>1, <2>2, Zenon DEF MakeObject, Throw
<1> QED  BY <1>7, <1>8, <1>9, <1>10, <1>11, Zenon

\* The oldest of its kind that the worker has is destroyed.
LEMMA DropsObject ==
    ASSUME WorkerInv, NEW t \in Workers, worker[t].at = "inside",
           NEW x \in Balances, NEW i \in 1..Len(x.calls), Before(t, x, i),
           Balanced(x, i), x.calls[i][1] \in {"drop", "dropUnwritten"},
           Len(worker[t].calls) \in Nat,
           NEW k \in DOMAIN worker[t].made, worker[t].made[k].kind = x.calls[i][2],
           \A j \in DOMAIN worker[t].made : worker[t].made[j].kind = x.calls[i][2] => k <= j,
           alive' = alive \ {worker[t].made[k]}, UNCHANGED api,
           Continue(t, RemoveAt(worker[t].made, k))
    PROVE  WorkerInv'
<1>1. WorkerTypes /\ alive \subseteq Objects /\ AtHand(t) /\ MadeInOrder(t)
  BY DEF WorkerInv
<1>2. worker[t].made \in Seq(Objects)
  BY <1>1, WorkerTyped
<1> DEFINE m == worker[t].made
           r == RemoveAt(worker[t].made, k)
<1>3. k \in 1..Len(m) /\ Len(m) \in Nat /\ DOMAIN m = 1..Len(m)
  BY <1>2
<1>4. /\ r \in Seq(Objects) /\ Len(r) = Len(m) - 1
      /\ \A n \in 1..(Len(m) - 1) : r[n] = IF n < k THEN m[n] ELSE m[n + 1]
  BY <1>2, <1>3, Removed
<1>5. \A o \in ToSet(m) : o = m[k] \/ o \in ToSet(r)
  BY <1>2, <1>3, RemovedSet
<1>6. /\ Len(m) \in x.low[i]..x.high[i]
      /\ \A n \in 1..Len(m) : m[n].kind = x.kinds[n]
  BY Zenon DEF Before
<1>7. Continue(t, r)
  OBVIOUS
<1>8. m[k].kind = x.calls[i][2] /\ (\A j \in 1..Len(m) : m[j].kind = x.calls[i][2] => k <= j)
      /\ alive' = alive \ {m[k]}
  BY <1>3
<1>9. /\ \A o \in alive : worker[t].errors = 0 /\ o.by = t => o \in ToSet(m)
      /\ \A n \in DOMAIN m : /\ m[n].by = t /\ m[n].nr > Len(worker[t].calls)
                             /\ \A j \in DOMAIN m : n < j => m[n].nr > m[j].nr
      /\ \A n \in DOMAIN m : m[n].nr \in Nat
  BY <1>1, <1>2, MadeTyped, Zenon DEF AtHand, MadeInOrder
<1>10. m = worker[t].made
  OBVIOUS
<1> HIDE DEF m, r
<1>11. /\ GoesOver(x, i, Len(m), 0 - 1)
       /\ \A l \in k..(Len(m) - 1) : x.kinds[l + 1] = x.kinds[l]
  <2>1. \A n \in x.low[i]..x.high[i] : \A j \in 1..n :
           x.kinds[j] = x.calls[i][2] /\ (\A l \in 1..n : x.kinds[l] = x.calls[i][2] => j <= l) =>
              GoesOver(x, i, n, 0 - 1) /\ \A l \in j..(n - 1) : x.kinds[l + 1] = x.kinds[l]
    BY Zenon DEF Balanced, Drops
  <2>2. x.kinds[k] = x.calls[i][2] /\ \A l \in 1..Len(m) : x.kinds[l] = x.calls[i][2] => k <= l
    BY <1>3, <1>6, <1>8, Zenon
  <2> QED  BY <1>3, <1>6, <2>1, <2>2, Zenon
<1>12. \A n \in 1..Len(r) : r[n].kind = x.kinds[n]
  <2> SUFFICES ASSUME NEW n \in 1..Len(r) PROVE r[n].kind = x.kinds[n]
    OBVIOUS
  <2>1. n \in 1..(Len(m) - 1) /\ n \in 1..Len(m) /\ n + 1 \in 1..Len(m) /\ (~(n < k) => n \in k..(Len(m) - 1))
    BY <1>3, <1>4
  <2>2. r[n] = IF n < k THEN m[n] ELSE m[n + 1]
    BY <1>4, <2>1
  <2> QED  BY <1>6, <1>11, <2>1, <2>2, Zenon
<1>13. Len(r) = Len(worker[t].made) + (0 - 1) /\ GoesOver(x, i, Len(worker[t].made), 0 - 1) /\ 0 - 1 \in Int
  BY <1>3, <1>4, <1>10, <1>11
<1>14. x.calls[i][1] # "lock"
  OBVIOUS
<1>15. /\ WorkerTypes' /\ Apart(t) /\ Placed(t)'
       /\ worker'[t].made = r /\ worker'[t].errors = worker[t].errors
       /\ Len(worker'[t].calls) = Len(worker[t].calls) - 1
  BY <1>1, <1>4, <1>7, <1>12, <1>13, <1>14, CallDone, Zenon
<1>16. AtHand(t)'
  <2> SUFFICES ASSUME worker'[t].errors = 0, NEW o \in alive', o.by = t PROVE o \in ToSet(worker'[t].made)
    BY Zenon DEF AtHand
  <2>1. o \in alive /\ o # m[k]
    BY <1>8
  <2> QED  BY <1>5, <1>9, <1>15, <2>1, Zenon
<1>17. MadeInOrder(t)'
  <2>1. Len(worker'[t].calls) < Len(worker[t].calls) /\ Len(worker'[t].calls) \in Int
    BY <1>15
  <2> DEFINE b(n) == IF n < k THEN n ELSE n + 1
  <2>2. \A n \in 1..Len(r) : b(n) \in 1..Len(m) /\ r[n] = m[b(n)]
    <3> SUFFICES ASSUME NEW n \in 1..Len(r) PROVE b(n) \in 1..Len(m) /\ r[n] = m[b(n)]
      OBVIOUS
    <3>1. n \in 1..(Len(m) - 1) /\ b(n) \in 1..Len(m)
      BY <1>3, <1>4
    <3> QED  BY <1>4, <3>1
  <2>3. \A n, j \in 1..Len(r) : n < j => b(n) < b(j)
    BY <1>3, <1>4
  <2>8. \A n \in 1..Len(r) : \E p \in 1..Len(m) : r[n] = m[p]
    BY <2>2
  <2>9. \A n, j \in 1..Len(r) : n < j => \E p, q \in 1..Len(m) : p < q /\ r[n] = m[p] /\ r[j] = m[q]
    BY <2>2, <2>3
  <2> HIDE DEF b
  <2>4. DOMAIN r = 1..Len(r)
    BY <1>4
  <2>5. \A n \in DOMAIN m : m[n].nr > Len(worker'[t].calls)
    BY <1>9, <2>1
  <2>6. \A n \in 1..Len(m) : /\ m[n].by = t /\ m[n].nr > Len(worker'[t].calls)
                            /\ \A j \in 1..Len(m) : n < j => m[n].nr > m[j].nr
    BY <1>3, <1>9, <2>5
  <2>7. ASSUME NEW n \in 1..Len(r) PROVE r[n].by = t /\ r[n].nr > Len(worker'[t].calls)
    BY <2>6, <2>8, Zenon
  <2>10. ASSUME NEW n \in 1..Len(r), NEW j \in 1..Len(r), n < j PROVE r[n].nr > r[j].nr
    <3>1. PICK p \in 1..Len(m), q \in 1..Len(m) : p < q /\ r[n] = m[p] /\ r[j] = m[q]
      BY <2>9, <2>10
    <3> QED  BY <2>6, <3>1, Zenon
  <2> QED  BY <1>15, <2>4, <2>7, <2>10, Zenon DEF MadeInOrder
<1>18. alive' \subseteq Objects /\ \A p \in alive' : p \in alive \/ p.by = t
  BY <1>1, <1>8
<1> QED  BY <1>15, <1>16, <1>17, <1>18, StepOf

\* The destructions: of an own object, of none, or of a handle never written.
LEMMA DropObjectKept ==
    ASSUME WorkerInv, NEW t \in Workers, DropObject(t)
    PROVE  WorkerInv'
<1>1. worker[t].at = "inside" /\ Head(worker[t].calls)[1] \in {"drop", "dropUnwritten"} /\ api' = api
  BY Zenon DEF DropObject, Calls
<1>2. PICK x \in Balances : \E i \in 1..Len(x.calls) :
              /\ Before(t, x, i) /\ Head(worker[t].calls) = x.calls[i] /\ Balanced(x, i)
              /\ Len(x.calls) \in 1..7 /\ Len(worker[t].calls) = Len(x.calls) - i + 1
  BY <1>1, InsideOf
<1>3. PICK i \in 1..Len(x.calls) :
              /\ Before(t, x, i) /\ Head(worker[t].calls) = x.calls[i] /\ Balanced(x, i)
              /\ Len(x.calls) \in 1..7 /\ Len(worker[t].calls) = Len(x.calls) - i + 1
  BY <1>2
<1>4. x.calls[i][1] \in {"drop", "dropUnwritten"} /\ Of(t) = x.calls[i][2]
      /\ (Calls(t, "dropUnwritten") => x.calls[i][1] = "dropUnwritten")
  BY <1>1, <1>3, Zenon DEF Of, Calls
<1>5. Len(worker[t].calls) \in Nat
  <2>1. \A n \in 1..7 : \A j \in 1..n : n - j + 1 \in Nat
    OBVIOUS
  <2> QED  BY <1>3, <2>1, Zenon
<1>6. worker[t].made \in Seq(Objects)
  BY WorkerTyped DEF WorkerInv
<1> DEFINE m == worker[t].made
           mine == {k \in DOMAIN m : m[k].kind = Of(t)}
<1>7. ASSUME NEW k \in mine, \A j \in mine : k <= j,
             alive' = alive \ {m[k]}, Continue(t, RemoveAt(m, k))
      PROVE  WorkerInv'
  <2>1. k \in DOMAIN m /\ m[k].kind = x.calls[i][2]
    BY <1>4
  <2>2. \A j \in DOMAIN m : m[j].kind = x.calls[i][2] => k <= j
    BY <1>4, <1>7
  <2> QED  BY <1>1, <1>3, <1>4, <1>5, <1>7, <2>1, <2>2, DropsObject
<1>8. ASSUME alive' \subseteq alive, Leave(t, 1) PROVE WorkerInv'
  <2>1. 1 \in Nat /\ 1 # 0
    OBVIOUS
  <2> QED  BY <1>1, <1>8, <2>1, LeavesKept
<1>9. ASSUME mine = {} PROVE Len(m) \in x.low[i]..x.high[i] /\ GoesOver(x, i, Len(m), 0)
  <2>1. /\ Len(m) \in x.low[i]..x.high[i]
        /\ \A n \in 1..Len(m) : m[n].kind = x.kinds[n]
    BY <1>3, Zenon DEF Before
  <2>2. \A n \in x.low[i]..x.high[i] : (\A j \in 1..n : x.kinds[j] # x.calls[i][2]) => GoesOver(x, i, n, 0)
    BY <1>3, <1>4, Zenon DEF Balanced, Drops
  <2>3. DOMAIN m = 1..Len(m)
    BY <1>6
  <2>4. \A j \in 1..Len(m) : x.kinds[j] # x.calls[i][2]
    BY <1>4, <1>9, <2>1, <2>3
  <2> QED  BY <2>1, <2>2, <2>4, Zenon
<1>10. ASSUME mine = {}, Continue(t, m), alive' = alive PROVE WorkerInv'
  <2>1. /\ 0 \in Int /\ m \in Seq(Objects) /\ Len(m) = Len(worker[t].made) + 0 /\ x.calls[i][1] # "lock"
        /\ alive' \subseteq alive
    BY <1>4, <1>6, <1>10
  <2>2. \A n \in x.low[i]..x.high[i] : n = Len(m) => GoesOver(x, i, n, 0)
    BY <1>9, <1>10, Zenon
  <2> QED  BY <1>1, <1>3, <1>9, <1>10, <2>1, NothingDone
<1>11. ASSUME mine = {}, Calls(t, "dropUnwritten"), Continue(t, <<>>), alive' \subseteq alive PROVE WorkerInv'
  <2>1. i = Len(x.calls)
    BY <1>3, <1>4, <1>11 DEF Balanced, InRange
  <2>2. m = <<>>
    <3>1. Len(m) \in x.low[i]..x.high[i] /\ GoesOver(x, i, Len(m), 0)
      BY <1>9, <1>11
    <3> QED  BY <1>6, <2>1, <3>1 DEF GoesOver
  <2>3. Leave(t, 0)
    <3>1. Len(worker[t].calls) = 1
      BY <1>3, <2>1
    <3> QED  BY <1>11, <3>1, Zenon DEF Continue
  <2>4. 0 \in Nat
    OBVIOUS
  <2> QED  BY <1>1, <1>11, <2>2, <2>3, <2>4, LeavesKept
<1>12. \/ \E k \in mine : /\ \A j \in mine : k <= j
                         /\ \/ alive' = alive \ {m[k]} /\ Continue(t, RemoveAt(m, k))
                            \/ alive' = alive /\ Leave(t, 1)
       \/ mine = {} /\ Continue(t, m) /\ alive' = alive
       \/ /\ mine = {} /\ Calls(t, "dropUnwritten")
          /\ \/ Leave(t, 1) /\ alive' = alive
             \/ \E o \in alive : alive' = alive \ {o} /\ Continue(t, <<>>)
  BY Zenon DEF DropObject, Throw
<1>13. alive \subseteq alive /\ \A o : alive \ {o} \subseteq alive
  OBVIOUS
<1> HIDE DEF m, mine
<1> QED  BY <1>7, <1>8, <1>10, <1>11, <1>12, <1>13, Zenon

\* Every step of a worker keeps the invariant of the workers.
LEMMA WorkerStepKept ==
    ASSUME WorkerInv, NEW t \in Workers, NEW env, NEW withGraphics, NEW begun,
           WorkerStep(t, env, withGraphics, begun)
    PROVE  WorkerInv'
<1>1. CASE PickFunction(t, env, withGraphics, begun)
  BY <1>1, PickFunctionKept
<1>2. CASE TakeLock(t)
  BY <1>2, TakeLockKept
<1>3. CASE MakeObject(t, env)
  BY <1>3, MakeObjectKept
<1>4. CASE DropObject(t)
  BY <1>4, DropObjectKept
<1>5. CASE AskRuntime(t) \/ AdoptImageData(t)
  BY <1>5, AskKept
<1>6. CASE Fails(t)
  BY <1>6, FailsKept
<1> QED  BY <1>1, <1>2, <1>3, <1>4, <1>5, <1>6, Zenon DEF WorkerStep

\* Workers that left without an error had each object at hand, and have none now.
LEMMA NothingIsLeft ==
    ASSUME WorkerInv PROVE NothingLeftBehind
<1> SUFFICES ASSUME AllLeft, ~Errors, NEW o \in alive PROVE FALSE
  BY DEF NothingLeftBehind
<1>1. o \in Objects
  BY DEF WorkerInv
<1>2. o.by \in Workers
  BY <1>1 DEF Objects
<1> DEFINE t == o.by
<1> HIDE DEF t
<1>3. t \in Workers /\ WorkerTypes /\ Placed(t) /\ AtHand(t)
  BY <1>2 DEF WorkerInv, t
<1>4. worker[t].at = "pick" /\ ~(worker[t].errors > 0) /\ worker[t].errors \in Nat
  BY <1>3, WorkerTyped DEF AllLeft, Errors
<1>5. worker[t].errors = 0
  BY <1>4
<1>6. worker[t].made = <<>>
  BY <1>3, <1>4 DEF Placed
<1>7. o \in ToSet(worker[t].made)
  BY <1>3, <1>5, Zenon DEF AtHand, t
<1> QED  BY <1>6, <1>7 DEF ToSet

\* What the end of a call does to the objects and errors of the worker.
LEMMA ContinueLeaves ==
    ASSUME WorkerTypes, NEW t \in Workers, NEW made, Continue(t, made) \/ Leave(t, 0)
    PROVE  /\ \A u \in Workers : u # t => worker'[u] = worker[u]
           /\ worker'[t].errors = worker[t].errors
           /\ worker'[t].made = <<>> \/ (worker'[t].made = made /\ Continue(t, made))
<1> DEFINE W == [at : {"none", "pick", "inside"}, done : Nat, calls : Rests,
                 made : Seq(Objects), errors : Nat]
<1>1. CASE Leave(t, 0)
  <2>1. worker'[t].made = <<>> /\ worker'[t].errors = worker[t].errors + 0 /\ Apart(t)
    BY <1>1, Leaves
  <2>2. worker[t].errors \in Nat
    BY WorkerTyped
  <2>3. worker[t].errors + 0 = worker[t].errors
    BY <2>2
  <2> QED  BY <2>1, <2>3, Zenon DEF Apart
<1>2. CASE ~Leave(t, 0)
  <2>1. worker' = [worker EXCEPT ![t].calls = Tail(@), ![t].made = made] /\ Continue(t, made)
    BY <1>2, Zenon DEF Continue
  <2>2. worker \in [Workers -> W]
    BY Zenon DEF WorkerTypes
  <2>3. worker[t] \in W
    BY <2>2
  <2> DEFINE w == [worker[t] EXCEPT !.calls = Tail(@), !.made = made]
  <2>4. w.made = made /\ w.errors = worker[t].errors
    BY <2>3
  <2>5. worker' = [worker EXCEPT ![t] = w]
    BY <2>1, <2>2
  <2> HIDE DEF w, W
  <2>6. worker'[t] = w /\ \A u \in Workers : u # t => worker'[u] = worker[u]
    BY <2>2, <2>5
  <2> QED  BY <2>1, <2>4, <2>6
<1> QED  BY <1>1, <1>2

\* Without a flaw of the runtime a worker counted nothing and its objects live.
LEMMA FlawOf ==
    ASSUME WorkerInv, FlawInv, NEW t \in Workers, flaws' = {} => flaws = {},
           flaws' = {} => /\ \A u \in Workers : u # t => worker'[u] = worker[u]
                          /\ worker'[t].errors = worker[t].errors
                          /\ ToSet(worker'[t].made) \subseteq alive'
                          /\ \A o \in alive : o \in alive' \/ o.by = t
    PROVE  FlawInv'
<1> SUFFICES ASSUME flaws' = {}, NEW u \in Workers
             PROVE  worker'[u].errors = 0 /\ ToSet(worker'[u].made) \subseteq alive'
  BY DEF FlawInv
<1>1. flaws = {} /\ worker[u].errors = 0 /\ ToSet(worker[u].made) \subseteq alive
  BY DEF FlawInv
<1>2. CASE u = t
  BY <1>1, <1>2
<1>3. CASE u # t
  <2>1. worker'[u] = worker[u]
    BY <1>3
  <2>2. \A o \in ToSet(worker[u].made) : o.by = u
    <3>1. MadeInOrder(u) /\ worker[u].made \in Seq(Objects)
      BY WorkerTyped DEF WorkerInv
    <3>2. \A k \in DOMAIN worker[u].made : worker[u].made[k].by = u
      BY <3>1, Zenon DEF MadeInOrder
    <3>3. DOMAIN worker[u].made = 1..Len(worker[u].made)
      BY <3>1
    <3> QED  BY <3>2, <3>3 DEF ToSet
  <2>3. \A o \in ToSet(worker[u].made) : o \in alive'
    BY <1>1, <1>3, <2>2, Zenon
  <2> QED  BY <1>1, <2>1, <2>3
<1> QED  BY <1>2, <1>3

\* A call or a function's end that destroys nothing and makes nothing.
LEMMA PlainFlaw ==
    ASSUME WorkerInv, FlawInv, NEW t \in Workers,
           Continue(t, worker[t].made) \/ Leave(t, 0), alive' = alive, flaws' = flaws
    PROVE  FlawInv'
<1>1. WorkerTypes
  BY DEF WorkerInv
<1>2. /\ \A u \in Workers : u # t => worker'[u] = worker[u]
      /\ worker'[t].errors = worker[t].errors
      /\ worker'[t].made = <<>> \/ worker'[t].made = worker[t].made
  BY <1>1, ContinueLeaves, Zenon
<1>3. flaws' = {} => ToSet(worker'[t].made) \subseteq alive'
  <2> SUFFICES ASSUME flaws' = {} PROVE ToSet(worker'[t].made) \subseteq alive'
    OBVIOUS
  <2>1. ToSet(worker[t].made) \subseteq alive
    BY DEF FlawInv
  <2>2. ToSet(<<>>) = {}
    BY DEF ToSet
  <2> QED  BY <1>2, <2>1, <2>2
<1>4. \A o \in alive : o \in alive' \/ o.by = t
  OBVIOUS
<1> QED  BY <1>2, <1>3, <1>4, FlawOf, Zenon

\* A flaw is on record: nothing is left to show.
LEMMA NewFlaw ==
    ASSUME NEW f, flaws' = flaws \cup {f} PROVE FlawInv'
  BY DEF FlawInv

\* Picking a function or taking a mutex destroys nothing.
LEMMA PickFunctionFlaw ==
    ASSUME WorkerInv, FlawInv, NEW t \in Workers, NEW env, NEW withGraphics, NEW begun,
           PickFunction(t, env, withGraphics, begun) \/ TakeLock(t)
    PROVE  FlawInv'
<1> DEFINE W == [at : {"none", "pick", "inside"}, done : Nat, calls : Rests,
                 made : Seq(Objects), errors : Nat]
<1>1. worker \in [Workers -> W] /\ alive' = alive /\ flaws' = flaws
  BY Zenon DEF WorkerInv, WorkerTypes, PickFunction, TakeLock
<1>2. /\ \A u \in Workers : u # t => worker'[u] = worker[u]
      /\ worker'[t].errors = worker[t].errors /\ worker'[t].made = worker[t].made
  <2>0. worker[t] \in W
    BY <1>1
  <2>1. CASE PickFunction(t, env, withGraphics, begun)
    <3>1. PICK f : worker' = [worker EXCEPT ![t].at = "inside", ![t].calls = f]
      BY <2>1, Zenon DEF PickFunction
    <3> QED  BY <1>1, <2>0, <3>1
  <2>2. CASE TakeLock(t)
    <3>1. worker' = [worker EXCEPT ![t].calls = Tail(@)]
      BY <2>2, Zenon DEF TakeLock
    <3> QED  BY <1>1, <2>0, <3>1
  <2> QED  BY <2>1, <2>2
<1>3. flaws' = {} => ToSet(worker'[t].made) \subseteq alive'
  BY <1>1, <1>2, Zenon DEF FlawInv
<1>4. \A o \in alive : o \in alive' \/ o.by = t
  BY <1>1
<1>5. flaws' = {} => flaws = {}
  BY <1>1
<1> QED  BY <1>2, <1>3, <1>4, <1>5, FlawOf, Zenon

\* The name of a new object is free, whatever the other threads do.
LEMMA NameIsFree ==
    ASSUME WorkerInv, FlawInv, NEW t \in Workers, flaws = {},
           Len(worker[t].calls) \in Nat
    PROVE  ~NameTaken(t)
<1> SUFFICES ASSUME NEW o \in alive, [o EXCEPT !.turn = 0] = [Object(t) EXCEPT !.turn = 0] PROVE FALSE
  BY Zenon DEF NameTaken
<1>1. o \in Objects /\ AtHand(t) /\ MadeInOrder(t) /\ worker[t].made \in Seq(Objects)
  BY WorkerTyped DEF WorkerInv
<1>2. o.by = t /\ o.nr = Len(worker[t].calls)
  BY <1>1 DEF Object, Objects
<1>3. worker[t].errors = 0
  BY DEF FlawInv
<1>4. o \in ToSet(worker[t].made)
  BY <1>1, <1>2, <1>3, Zenon DEF AtHand
<1>5. DOMAIN worker[t].made = 1..Len(worker[t].made)
  BY <1>1
<1>6. PICK k \in DOMAIN worker[t].made : o = worker[t].made[k]
  BY <1>4, <1>5 DEF ToSet
<1>7. o.nr > Len(worker[t].calls)
  BY <1>1, <1>6, Zenon DEF MadeInOrder
<1> QED  BY <1>2, <1>7

\* Creations: without a flaw the names that a worker chooses are free.
LEMMA MakeObjectFlaw ==
    ASSUME WorkerInv, FlawInv, NEW t \in Workers, NEW env, MakeObject(t, env)
    PROVE  FlawInv'
<1>1. WorkerTypes /\ worker[t].made \in Seq(Objects)
  BY WorkerTyped DEF WorkerInv
<1>2. CASE /\ alive' = alive \cup {Object(t)} /\ flaws' = flaws
           /\ Continue(t, Append(worker[t].made, Object(t)))
  <2>1. /\ \A u \in Workers : u # t => worker'[u] = worker[u]
        /\ worker'[t].errors = worker[t].errors
        /\ worker'[t].made = <<>> \/ worker'[t].made = Append(worker[t].made, Object(t))
    BY <1>1, <1>2, ContinueLeaves, Zenon
  <2>2. flaws' = {} => ToSet(worker'[t].made) \subseteq alive'
    <3> SUFFICES ASSUME flaws' = {} PROVE ToSet(worker'[t].made) \subseteq alive'
      OBVIOUS
    <3>1. ToSet(worker[t].made) \subseteq alive
      BY <1>2 DEF FlawInv
    <3>2. ToSet(<<>>) = {}
      BY DEF ToSet
    <3> DEFINE m == worker[t].made
               S == Objects \cup {Object(t)}
    <3>3. m \in Seq(S) /\ Object(t) \in S
      BY <1>1
    <3> HIDE DEF S, m
    <3>4. ToSet(Append(m, Object(t))) = ToSet(m) \cup {Object(t)}
      BY <3>3, AppendedSet, Zenon
    <3>5. ToSet(Append(worker[t].made, Object(t))) = ToSet(worker[t].made) \cup {Object(t)}
      BY <3>4 DEF m
    <3> QED  BY <1>2, <2>1, <3>1, <3>2, <3>5
  <2>3. \A o \in alive : o \in alive' \/ o.by = t
    BY <1>2
  <2> QED  BY <1>2, <2>1, <2>2, <2>3, FlawOf, Zenon
<1>3. CASE /\ alive' = alive /\ flaws' = flaws /\ (Leave(t, 0) \/ Continue(t, worker[t].made))
  BY <1>3, PlainFlaw
<1>4. CASE flaws' = flaws \cup {"limit"}
  BY <1>4, NewFlaw
<1>5. CASE NameTaken(t) /\ flaws' = flaws
  <2>1. Len(worker[t].calls) \in Nat
    <3>1. worker[t].at = "inside"
      BY Zenon DEF MakeObject, Calls
    <3>2. \E x \in Balances : \E i \in 1..Len(x.calls) :
              Len(x.calls) \in 1..7 /\ Len(worker[t].calls) = Len(x.calls) - i + 1
      BY <3>1, InsideOf, Zenon
    <3>3. \A n \in 1..7 : \A j \in 1..n : n - j + 1 \in Nat
      OBVIOUS
    <3> QED  BY <3>2, <3>3, Zenon
  <2>2. flaws # {}
    BY <1>5, <2>1, NameIsFree
  <2> QED  BY <1>5, <2>2 DEF FlawInv
<1>6. Head(worker[t].calls)[3] = "return" \/ Head(worker[t].calls)[3] = "proceed"
      \/ Head(worker[t].calls)[3] = "throw" \/ Head(worker[t].calls)[3] \notin Limits
  BY DEF Limits
<1>8. Head(worker[t].calls)[3] \in Limits
  <2>1. worker[t].at = "inside" /\ Head(worker[t].calls)[1] = "make"
    BY Zenon DEF MakeObject, Calls
  <2>2. PICK x \in Balances : \E i \in 1..Len(x.calls) :
            Head(worker[t].calls) = x.calls[i] /\ Balanced(x, i)
    BY <2>1, InsideOf, Zenon
  <2>3. PICK i \in 1..Len(x.calls) : Head(worker[t].calls) = x.calls[i] /\ Balanced(x, i)
    BY <2>2
  <2> QED  BY <2>1, <2>3, Zenon DEF Balanced, Makes
<1>7. \/ /\ alive' = alive \cup {Object(t)} /\ flaws' = flaws
         /\ Continue(t, Append(worker[t].made, Object(t)))
      \/ alive' = alive /\ flaws' = flaws /\ (Leave(t, 0) \/ Continue(t, worker[t].made))
      \/ flaws' = flaws \cup {"limit"}
      \/ NameTaken(t) /\ flaws' = flaws
  <2>1. /\ Head(worker[t].calls)[3] = "return" => Head(worker[t].calls)[3] # "proceed" /\ Head(worker[t].calls)[3] # "throw"
        /\ Head(worker[t].calls)[3] = "proceed" => Head(worker[t].calls)[3] # "return" /\ Head(worker[t].calls)[3] # "throw"
        /\ Head(worker[t].calls)[3] = "throw" => Head(worker[t].calls)[3] # "return" /\ Head(worker[t].calls)[3] # "proceed"
    OBVIOUS
  <2> QED  BY <1>6, <1>8, <2>1, Zenon DEF MakeObject
<1> QED  BY <1>2, <1>3, <1>4, <1>5, <1>7, Zenon

\* Destructions: a worker destroys what it made, and only that.
LEMMA DropObjectFlaw ==
    ASSUME WorkerInv, FlawInv, NEW t \in Workers, DropObject(t)
    PROVE  FlawInv'
<1>1. /\ WorkerTypes /\ worker[t].made \in Seq(Objects) /\ MadeInOrder(t)
  BY WorkerTyped DEF WorkerInv
<1> DEFINE m == worker[t].made
           mine == {k \in DOMAIN m : m[k].kind = Of(t)}
<1>2. ASSUME NEW k \in mine, alive' = alive \ {m[k]}, Continue(t, RemoveAt(m, k)), flaws' = flaws
      PROVE  FlawInv'
  <2>1. /\ \A u \in Workers : u # t => worker'[u] = worker[u]
        /\ worker'[t].errors = worker[t].errors
        /\ worker'[t].made = <<>> \/ worker'[t].made = RemoveAt(m, k)
    BY <1>1, <1>2, ContinueLeaves, Zenon
  <2>2. k \in 1..Len(m) /\ DOMAIN m = 1..Len(m)
    BY <1>1
  <2>3. \A o \in ToSet(RemoveAt(m, k)) : \E j \in 1..Len(m) : j # k /\ o = m[j]
    BY <1>1, <2>2, RemovedSet
  <2>4. \A j \in 1..Len(m) : /\ m[j].by = t /\ m[j].nr \in Nat
                             /\ \A l \in 1..Len(m) : j < l => m[j].nr > m[l].nr
    BY <1>1, <2>2, MadeTyped, Zenon DEF MadeInOrder
  <2>5. \A j \in 1..Len(m) : j # k => m[j] # m[k]
    <3> SUFFICES ASSUME NEW j \in 1..Len(m), j # k, m[j] = m[k] PROVE FALSE
      OBVIOUS
    <3>1. j < k \/ k < j
      BY <2>2
    <3>2. m[j].nr > m[k].nr \/ m[k].nr > m[j].nr
      BY <2>2, <2>4, <3>1, Zenon
    <3>3. m[j].nr = m[k].nr /\ m[j].nr \in Nat
      BY <2>4
    <3> QED  BY <3>2, <3>3
  <2>6. flaws' = {} => ToSet(worker'[t].made) \subseteq alive'
    <3> SUFFICES ASSUME flaws' = {}, NEW o \in ToSet(worker'[t].made) PROVE o \in alive'
      OBVIOUS
    <3>1. ToSet(m) \subseteq alive
      BY <1>2 DEF FlawInv
    <3>2. ToSet(<<>>) = {}
      BY DEF ToSet
    <3>3. o \in ToSet(RemoveAt(m, k))
      BY <2>1, <3>2
    <3>4. PICK j \in 1..Len(m) : j # k /\ o = m[j]
      BY <2>3, <3>3
    <3>5. o \in ToSet(m)
      BY <2>2, <3>4 DEF ToSet
    <3> QED  BY <1>2, <2>5, <3>1, <3>4, <3>5
  <2>7. \A o \in alive : o \in alive' \/ o.by = t
    BY <1>2, <2>2, <2>4
  <2> QED  BY <1>2, <2>1, <2>6, <2>7, FlawOf, Zenon
<1>3. ASSUME NEW k \in mine, m[k] \notin alive, flaws' = flaws PROVE FlawInv'
  <2>1. m[k] \in ToSet(m)
    BY <1>1 DEF ToSet
  <2>2. flaws # {}
    BY <1>3, <2>1 DEF FlawInv
  <2> QED  BY <1>3, <2>2 DEF FlawInv
<1>4. ASSUME Continue(t, m), alive' = alive, flaws' = flaws PROVE FlawInv'
  BY <1>4, PlainFlaw
<1>5. ASSUME flaws' = flaws \cup {"limit"} PROVE FlawInv'
  BY <1>5, NewFlaw
<1>6. \/ \E k \in mine : /\ flaws' = flaws
                         /\ \/ alive' = alive \ {m[k]} /\ Continue(t, RemoveAt(m, k))
                            \/ m[k] \notin alive
      \/ Continue(t, m) /\ alive' = alive /\ flaws' = flaws
      \/ flaws' = flaws \cup {"limit"}
  BY Zenon DEF DropObject
<1> HIDE DEF m, mine
<1> QED  BY <1>2, <1>3, <1>4, <1>5, <1>6, Zenon

\* Every step of a worker keeps: no flaw, no error and no object lost.
LEMMA WorkerStepFlaw ==
    ASSUME WorkerInv, FlawInv, NEW t \in Workers, NEW env, NEW withGraphics, NEW begun,
           WorkerStep(t, env, withGraphics, begun)
    PROVE  FlawInv'
<1>1. CASE PickFunction(t, env, withGraphics, begun) \/ TakeLock(t)
  BY <1>1, PickFunctionFlaw
<1>2. CASE MakeObject(t, env)
  BY <1>2, MakeObjectFlaw
<1>3. CASE DropObject(t)
  BY <1>3, DropObjectFlaw
<1>4. CASE AskRuntime(t) \/ AdoptImageData(t)
  <2>1. Continue(t, worker[t].made) /\ alive' = alive /\ flaws' = flaws
    BY <1>4, Zenon DEF AskRuntime, AdoptImageData
  <2> QED  BY <2>1, PlainFlaw
<1>5. CASE Fails(t)
  <2>1. flaws' = flaws \cup {"failed"}
    BY <1>5, Zenon DEF Fails
  <2> QED  BY <2>1, NewFlaw
<1> QED  BY <1>1, <1>2, <1>3, <1>4, <1>5, Zenon DEF WorkerStep

\* Workers start without an error.
LEMMA StartWorkersFlaw ==
    ASSUME NEW apis, StartWorkers(apis) PROVE FlawInv'
<1>1. worker' = [t \in Workers |-> [Idle EXCEPT !.at = "pick"]]
  BY Zenon DEF StartWorkers
<1>2. \A t \in Workers : worker'[t].errors = 0 /\ worker'[t].made = <<>>
  BY <1>1 DEF Idle
<1> QED  BY <1>2 DEF FlawInv, ToSet

\* A worker in a call of the graphics API holds the mutex that the API needs.
LEMMA HoldsMutex ==
    ASSUME WorkerInv, NEW t \in Workers, worker[t].at = "inside", Head(worker[t].calls)[1] # "lock"
    PROVE  /\ api = "opengl" /\ Of(t) \in {"swapchain", "images", "imageData", "acquire", "wait", "release"} =>
                held["openGlContextMutex"] = t
           /\ api = "vulkan" /\ Of(t) \in {"acquire", "release"} => held["vulkanQueueMutex"] = t
<1>1. PICK x \in Balances : \E i \in 1..Len(x.calls) :
              Before(t, x, i) /\ Head(worker[t].calls) = x.calls[i] /\ Balanced(x, i)
  BY InsideOf, Zenon
<1>2. PICK i \in 1..Len(x.calls) :
              Before(t, x, i) /\ Head(worker[t].calls) = x.calls[i] /\ Balanced(x, i)
  BY <1>1
<1>3. Of(t) = x.calls[i][2] /\ x.calls[i][1] # "lock"
  BY <1>2, Zenon DEF Of
<1>4. \A m \in Mutexes : Needed(m) /\ (\E j \in 1..(i - 1) : x.calls[j] = Lock(m)) => held[m] = t
  BY <1>2, Zenon DEF Before
<1>5. "openGlContextMutex" \in Mutexes /\ "vulkanQueueMutex" \in Mutexes
  BY DEF Mutexes
<1>6. ASSUME api = "opengl", Of(t) \in {"swapchain", "images", "imageData", "acquire", "wait", "release"}
      PROVE  held["openGlContextMutex"] = t
  <2>1. \E j \in 1..(i - 1) : x.calls[j] = Lock("openGlContextMutex")
    BY <1>2, <1>3, <1>6, Zenon DEF Balanced, Guarded
  <2>2. Needed("openGlContextMutex")
    BY <1>6 DEF Needed
  <2> QED  BY <1>4, <1>5, <2>1, <2>2, Zenon
<1>7. ASSUME api = "vulkan", Of(t) \in {"acquire", "release"}
      PROVE  held["vulkanQueueMutex"] = t
  <2>1. \E j \in 1..(i - 1) : x.calls[j] = Lock("vulkanQueueMutex")
    BY <1>2, <1>3, <1>7, Zenon DEF Balanced, Guarded
  <2>2. Needed("vulkanQueueMutex")
    BY <1>7 DEF Needed
  <2> QED  BY <1>4, <1>5, <2>1, <2>2, Zenon
<1> QED  BY <1>6, <1>7

\* Two workers are not in calls that need the same mutex: CallsExclusive.
LEMMA OneAtATime ==
    ASSUME WorkerInv PROVE CallsExclusive
<1> SUFFICES ASSUME NEW t \in Workers, NEW u \in Workers, t # u, InContext(t), InContext(u)
             PROVE  /\ api = "opengl" => "session" \in {Of(t), Of(u)}
                    /\ api = "vulkan" => ~({Of(t), Of(u)} \subseteq {"acquire", "release"})
  BY Zenon DEF CallsExclusive
<1>1. /\ worker[t].at = "inside" /\ Head(worker[t].calls)[1] # "lock"
      /\ worker[u].at = "inside" /\ Head(worker[u].calls)[1] # "lock"
      /\ Of(t) \in {"session", "swapchain", "images", "acquire", "wait", "release"}
      /\ Of(u) \in {"session", "swapchain", "images", "acquire", "wait", "release"}
  BY Zenon DEF InContext
<1>2. /\ api = "opengl" /\ Of(t) # "session" => held["openGlContextMutex"] = t
      /\ api = "vulkan" /\ Of(t) \in {"acquire", "release"} => held["vulkanQueueMutex"] = t
  BY <1>1, HoldsMutex
<1>3. /\ api = "opengl" /\ Of(u) # "session" => held["openGlContextMutex"] = u
      /\ api = "vulkan" /\ Of(u) \in {"acquire", "release"} => held["vulkanQueueMutex"] = u
  BY <1>1, HoldsMutex
<1> QED  BY <1>2, <1>3

\* Two workers adopt image data at a time only where the mutex of OpenGL is not needed.
LEMMA NoRace ==
    ASSUME WorkerInv, AdoptsRace PROVE api # "opengl"
<1>1. PICK t \in Workers : \E u \in Workers : t # u /\ Calls(t, "adopt") /\ Calls(u, "adopt")
  BY DEF AdoptsRace
<1>2. PICK u \in Workers : t # u /\ Calls(t, "adopt") /\ Calls(u, "adopt")
  BY <1>1
<1>3. ASSUME NEW v \in Workers, Calls(v, "adopt")
      PROVE  /\ worker[v].at = "inside" /\ Head(worker[v].calls)[1] # "lock" /\ Of(v) = "imageData"
  <2>1. worker[v].at = "inside" /\ Head(worker[v].calls)[1] = "adopt"
    BY <1>3 DEF Calls
  <2>2. PICK x \in Balances : \E i \in 1..Len(x.calls) : Head(worker[v].calls) = x.calls[i] /\ Balanced(x, i)
    BY <2>1, InsideOf, Zenon
  <2>3. PICK i \in 1..Len(x.calls) : Head(worker[v].calls) = x.calls[i] /\ Balanced(x, i)
    BY <2>2
  <2>4. x.calls[i][2] = "imageData"
    BY <2>1, <2>3, Zenon DEF Balanced, InRange
  <2> QED  BY <2>1, <2>3, <2>4, Zenon DEF Of
<1>4. api = "opengl" => held["openGlContextMutex"] = t /\ held["openGlContextMutex"] = u
  BY <1>2, <1>3, HoldsMutex
<1> QED  BY <1>2, <1>4

\* An error has a flaw of the runtime behind it: ErrorsExplained.
LEMMA RuntimeBlamed ==
    ASSUME WorkerInv, FlawInv PROVE ErrorsExplained
  BY DEF FlawInv, ErrorsExplained, Errors

\* Before the first environment there is no worker.
LEMMA ExerciseStarts ==
    ASSUME ExerciseInit PROVE WorkerInv /\ FlawInv
<1>1. /\ worker = [t \in Workers |-> Idle] /\ held = [m \in Mutexes |-> "nobody"]
      /\ alive = {} /\ flaws = {}
  BY DEF ExerciseInit
<1>2. Idle = [at |-> "none", done |-> 0, calls |-> <<>>, made |-> <<>>, errors |-> 0]
  BY DEF Idle
<1>3. \A t \in Workers : worker[t] = Idle
  BY <1>1
<1>4. <<>> \in Rests /\ <<>> \in Seq(Objects)
  BY RestsAre
<1>5. Idle \in [at : {"none", "pick", "inside"}, done : Nat, calls : Rests,
                made : Seq(Objects), errors : Nat]
  BY <1>2, <1>4
<1>6. WorkerTypes
  <2>1. worker \in [Workers -> [at : {"none", "pick", "inside"}, done : Nat, calls : Rests,
                                made : Seq(Objects), errors : Nat]]
    BY <1>1, <1>5, Zenon
  <2>2. held \in [Mutexes -> Workers \cup {"nobody"}]
    BY <1>1
  <2> QED  BY <2>1, <2>2, Zenon DEF WorkerTypes
<1>7. \A t \in Workers : Placed(t) /\ AtHand(t) /\ MadeInOrder(t)
  BY <1>1, <1>2, <1>3 DEF Placed, AtHand, MadeInOrder
<1>8. FlawInv
  BY <1>1, <1>2, <1>3 DEF FlawInv, ToSet
<1> QED  BY <1>1, <1>6, <1>7, <1>8 DEF WorkerInv

\* What the proof needs of step i of script t.
Scripted(t, i) ==
    LET kind == Script[t][i][1] IN
    /\ kind \in {"create", "await", "await_own", "begin", "setup", "layers", "run", "exit", "end",
                 "end_early", "manager", "focus", "sync", "next", "submit", "quiet", "render",
                 "threads"}
    /\ kind = "create" <=> i = CreateAt[t]
    /\ kind = "begin" <=> i = BeginAt[t] /\ t # "iterated"
    /\ kind = "manager" <=> i = ManagerAt[t]
    /\ kind = "await" => t \in {"focused", "threads"} /\ i + 1 = BeginAt[t]
    /\ kind = "await_own" => t \in Helpers /\ i + 1 = BeginAt[t]
    /\ kind = "run" => t \in Running /\
          (i > BeginAt[t] \/ (t = "iterated" /\ i = 3) \/ (t = "by_hand" /\ i = 3 /\ Script[t][i][2] = "READY"))
    /\ kind \in {"next", "submit", "quiet", "end_early"} => t = "cycle"
    /\ kind \in {"exit", "end", "focus", "sync", "render"} => i > BeginAt[t]
    /\ kind = "end" /\ t # "cycle" => i = Len(Script[t])
    /\ kind \in {"focus", "sync"} => t \in {"helper", "manager"}
    /\ kind = "focus" <=> t \in {"helper", "manager"} /\ i = 6
    /\ kind = "render" => t = "pipelined" /\ i = Len(Script[t])
    /\ kind = "threads" => t = "threads"
    /\ t = "iterated" => i <= BeginAt[t] /\ BeginAt[t] = Len(Script[t])
    /\ i < Len(Script[t]) /\ Script[t][i + 1][1] = "end" /\ t # "cycle"
          => Script[t][i] = <<"run", "STOPPING">>

\* The scripts, step by step.
LEMMA Scripts ==
    /\ DOMAIN Script = {"focused", "by_hand", "iterated", "helper", "manager", "cycle", "pipelined", "threads"}
    /\ \A t \in DOMAIN Script : Len(Script[t]) \in Nat /\ Len(Script[t]) # 0 /\ \A i \in 1..Len(Script[t]) : Scripted(t, i)
<1>1. DOMAIN Script = {"focused", "by_hand", "iterated", "helper", "manager", "cycle", "pipelined", "threads"}
  BY DEF Script
<1>2. ASSUME NEW t, t = "focused" PROVE Len(Script[t]) \in Nat /\ Len(Script[t]) # 0 /\ \A i \in 1..Len(Script[t]) : Scripted(t, i)
  <2>1. Script[t] = <<<<"create">>, <<"await">>, <<"begin">>, <<"setup">>, <<"run", "FOCUSED">>, <<"exit">>, <<"run", "STOPPING">>, <<"end">>>>
    BY <1>2 DEF Script
  <2>2. Len(Script[t]) = 8
    BY <2>1
  <2>3. \A i \in 1..8 : i = 1 \/ i = 2 \/ i = 3 \/ i = 4 \/ i = 5 \/ i = 6 \/ i = 7 \/ i = 8
    OBVIOUS
  <2> USE <1>2, <2>1, <2>2 DEF Scripted, CreateAt, BeginAt, ManagerAt, Running, Helpers
  <2>4. Scripted(t, 1)  OBVIOUS
  <2>5. Scripted(t, 2)  OBVIOUS
  <2>6. Scripted(t, 3)  OBVIOUS
  <2>7. Scripted(t, 4)  OBVIOUS
  <2>8. Scripted(t, 5)  OBVIOUS
  <2>9. Scripted(t, 6)  OBVIOUS
  <2>10. Scripted(t, 7)  OBVIOUS
  <2>11. Scripted(t, 8)  OBVIOUS
  <2> HIDE <1>2, <2>1 DEF Scripted, CreateAt, BeginAt, ManagerAt, Running, Helpers
  <2> QED  BY <2>2, <2>3, <2>4, <2>5, <2>6, <2>7, <2>8, <2>9, <2>10, <2>11
<1>3. ASSUME NEW t, t = "by_hand" PROVE Len(Script[t]) \in Nat /\ Len(Script[t]) # 0 /\ \A i \in 1..Len(Script[t]) : Scripted(t, i)
  <2>1. Script[t] = <<<<"create">>, <<"setup">>, <<"run", "READY">>, <<"begin">>, <<"exit">>, <<"run", "STOPPING">>, <<"end">>>>
    BY <1>3 DEF Script
  <2>2. Len(Script[t]) = 7
    BY <2>1
  <2>3. \A i \in 1..7 : i = 1 \/ i = 2 \/ i = 3 \/ i = 4 \/ i = 5 \/ i = 6 \/ i = 7
    OBVIOUS
  <2> USE <1>3, <2>1, <2>2 DEF Scripted, CreateAt, BeginAt, ManagerAt, Running, Helpers
  <2>4. Scripted(t, 1)  OBVIOUS
  <2>5. Scripted(t, 2)  OBVIOUS
  <2>6. Scripted(t, 3)  OBVIOUS
  <2>7. Scripted(t, 4)  OBVIOUS
  <2>8. Scripted(t, 5)  OBVIOUS
  <2>9. Scripted(t, 6)  OBVIOUS
  <2>10. Scripted(t, 7)  OBVIOUS
  <2> HIDE <1>3, <2>1 DEF Scripted, CreateAt, BeginAt, ManagerAt, Running, Helpers
  <2> QED  BY <2>2, <2>3, <2>4, <2>5, <2>6, <2>7, <2>8, <2>9, <2>10
<1>4. ASSUME NEW t, t = "iterated" PROVE Len(Script[t]) \in Nat /\ Len(Script[t]) # 0 /\ \A i \in 1..Len(Script[t]) : Scripted(t, i)
  <2>1. Script[t] = <<<<"create">>, <<"setup">>, <<"run", "FOCUSED">>>>
    BY <1>4 DEF Script
  <2>2. Len(Script[t]) = 3
    BY <2>1
  <2>3. \A i \in 1..3 : i = 1 \/ i = 2 \/ i = 3
    OBVIOUS
  <2> USE <1>4, <2>1, <2>2 DEF Scripted, CreateAt, BeginAt, ManagerAt, Running, Helpers
  <2>4. Scripted(t, 1)  OBVIOUS
  <2>5. Scripted(t, 2)  OBVIOUS
  <2>6. Scripted(t, 3)  OBVIOUS
  <2> HIDE <1>4, <2>1 DEF Scripted, CreateAt, BeginAt, ManagerAt, Running, Helpers
  <2> QED  BY <2>2, <2>3, <2>4, <2>5, <2>6
<1>5. ASSUME NEW t, t = "helper" PROVE Len(Script[t]) \in Nat /\ Len(Script[t]) # 0 /\ \A i \in 1..Len(Script[t]) : Scripted(t, i)
  <2>1. Script[t] = <<<<"create">>, <<"setup">>, <<"await_own">>, <<"begin">>, <<"manager">>, <<"focus">>, <<"sync">>>>
    BY <1>5 DEF Script
  <2>2. Len(Script[t]) = 7
    BY <2>1
  <2>3. \A i \in 1..7 : i = 1 \/ i = 2 \/ i = 3 \/ i = 4 \/ i = 5 \/ i = 6 \/ i = 7
    OBVIOUS
  <2> USE <1>5, <2>1, <2>2 DEF Scripted, CreateAt, BeginAt, ManagerAt, Running, Helpers
  <2>4. Scripted(t, 1)  OBVIOUS
  <2>5. Scripted(t, 2)  OBVIOUS
  <2>6. Scripted(t, 3)  OBVIOUS
  <2>7. Scripted(t, 4)  OBVIOUS
  <2>8. Scripted(t, 5)  OBVIOUS
  <2>9. Scripted(t, 6)  OBVIOUS
  <2>10. Scripted(t, 7)  OBVIOUS
  <2> HIDE <1>5, <2>1 DEF Scripted, CreateAt, BeginAt, ManagerAt, Running, Helpers
  <2> QED  BY <2>2, <2>3, <2>4, <2>5, <2>6, <2>7, <2>8, <2>9, <2>10
<1>6. ASSUME NEW t, t = "manager" PROVE Len(Script[t]) \in Nat /\ Len(Script[t]) # 0 /\ \A i \in 1..Len(Script[t]) : Scripted(t, i)
  <2>1. Script[t] = <<<<"create">>, <<"setup">>, <<"manager">>, <<"await_own">>, <<"begin">>, <<"focus">>, <<"sync">>>>
    BY <1>6 DEF Script
  <2>2. Len(Script[t]) = 7
    BY <2>1
  <2>3. \A i \in 1..7 : i = 1 \/ i = 2 \/ i = 3 \/ i = 4 \/ i = 5 \/ i = 6 \/ i = 7
    OBVIOUS
  <2> USE <1>6, <2>1, <2>2 DEF Scripted, CreateAt, BeginAt, ManagerAt, Running, Helpers
  <2>4. Scripted(t, 1)  OBVIOUS
  <2>5. Scripted(t, 2)  OBVIOUS
  <2>6. Scripted(t, 3)  OBVIOUS
  <2>7. Scripted(t, 4)  OBVIOUS
  <2>8. Scripted(t, 5)  OBVIOUS
  <2>9. Scripted(t, 6)  OBVIOUS
  <2>10. Scripted(t, 7)  OBVIOUS
  <2> HIDE <1>6, <2>1 DEF Scripted, CreateAt, BeginAt, ManagerAt, Running, Helpers
  <2> QED  BY <2>2, <2>3, <2>4, <2>5, <2>6, <2>7, <2>8, <2>9, <2>10
<1>7. ASSUME NEW t, t = "cycle" PROVE Len(Script[t]) \in Nat /\ Len(Script[t]) # 0 /\ \A i \in 1..Len(Script[t]) : Scripted(t, i)
  <2>1. Script[t] = <<<<"create">>, <<"setup">>, <<"next", "IDLE">>, <<"next", "READY">>, <<"begin">>, <<"submit", "SYNCHRONIZED">>, <<"submit", "VISIBLE">>, <<"submit", "FOCUSED">>, <<"end_early">>, <<"exit">>, <<"submit", "VISIBLE">>, <<"submit", "SYNCHRONIZED">>, <<"submit", "STOPPING">>, <<"quiet">>, <<"end">>, <<"submit", "IDLE">>, <<"submit", "EXITING">>>>
    BY <1>7 DEF Script
  <2>2. Len(Script[t]) = 17
    BY <2>1
  <2>3. \A i \in 1..17 : i = 1 \/ i = 2 \/ i = 3 \/ i = 4 \/ i = 5 \/ i = 6 \/ i = 7 \/ i = 8 \/ i = 9 \/ i = 10 \/ i = 11 \/ i = 12 \/ i = 13 \/ i = 14 \/ i = 15 \/ i = 16 \/ i = 17
    OBVIOUS
  <2> USE <1>7, <2>1, <2>2 DEF Scripted, CreateAt, BeginAt, ManagerAt, Running, Helpers
  <2>4. Scripted(t, 1)  OBVIOUS
  <2>5. Scripted(t, 2)  OBVIOUS
  <2>6. Scripted(t, 3)  OBVIOUS
  <2>7. Scripted(t, 4)  OBVIOUS
  <2>8. Scripted(t, 5)  OBVIOUS
  <2>9. Scripted(t, 6)  OBVIOUS
  <2>10. Scripted(t, 7)  OBVIOUS
  <2>11. Scripted(t, 8)  OBVIOUS
  <2>12. Scripted(t, 9)  OBVIOUS
  <2>13. Scripted(t, 10)  OBVIOUS
  <2>14. Scripted(t, 11)  OBVIOUS
  <2>15. Scripted(t, 12)  OBVIOUS
  <2>16. Scripted(t, 13)  OBVIOUS
  <2>17. Scripted(t, 14)  OBVIOUS
  <2>18. Scripted(t, 15)  OBVIOUS
  <2>19. Scripted(t, 16)  OBVIOUS
  <2>20. Scripted(t, 17)  OBVIOUS
  <2> HIDE <1>7, <2>1 DEF Scripted, CreateAt, BeginAt, ManagerAt, Running, Helpers
  <2> QED  BY <2>2, <2>3, <2>4, <2>5, <2>6, <2>7, <2>8, <2>9, <2>10, <2>11, <2>12, <2>13, <2>14, <2>15, <2>16, <2>17, <2>18, <2>19, <2>20
<1>8. ASSUME NEW t, t = "pipelined" PROVE Len(Script[t]) \in Nat /\ Len(Script[t]) # 0 /\ \A i \in 1..Len(Script[t]) : Scripted(t, i)
  <2>1. Script[t] = <<<<"create">>, <<"setup">>, <<"layers">>, <<"await_own">>, <<"begin">>, <<"layers">>, <<"render">>>>
    BY <1>8 DEF Script
  <2>2. Len(Script[t]) = 7
    BY <2>1
  <2>3. \A i \in 1..7 : i = 1 \/ i = 2 \/ i = 3 \/ i = 4 \/ i = 5 \/ i = 6 \/ i = 7
    OBVIOUS
  <2> USE <1>8, <2>1, <2>2 DEF Scripted, CreateAt, BeginAt, ManagerAt, Running, Helpers
  <2>4. Scripted(t, 1)  OBVIOUS
  <2>5. Scripted(t, 2)  OBVIOUS
  <2>6. Scripted(t, 3)  OBVIOUS
  <2>7. Scripted(t, 4)  OBVIOUS
  <2>8. Scripted(t, 5)  OBVIOUS
  <2>9. Scripted(t, 6)  OBVIOUS
  <2>10. Scripted(t, 7)  OBVIOUS
  <2> HIDE <1>8, <2>1 DEF Scripted, CreateAt, BeginAt, ManagerAt, Running, Helpers
  <2> QED  BY <2>2, <2>3, <2>4, <2>5, <2>6, <2>7, <2>8, <2>9, <2>10
<1>9. ASSUME NEW t, t = "threads" PROVE Len(Script[t]) \in Nat /\ Len(Script[t]) # 0 /\ \A i \in 1..Len(Script[t]) : Scripted(t, i)
  <2>1. Script[t] = <<<<"threads", "global">>, <<"setup">>, <<"threads", "instance">>, <<"create">>, <<"await">>, <<"begin">>, <<"setup">>, <<"layers">>, <<"run", "FOCUSED">>, <<"threads", "session">>>>
    BY <1>9 DEF Script
  <2>2. Len(Script[t]) = 10
    BY <2>1
  <2>3. \A i \in 1..10 : i = 1 \/ i = 2 \/ i = 3 \/ i = 4 \/ i = 5 \/ i = 6 \/ i = 7 \/ i = 8 \/ i = 9 \/ i = 10
    OBVIOUS
  <2> USE <1>9, <2>1, <2>2 DEF Scripted, CreateAt, BeginAt, ManagerAt, Running, Helpers
  <2>4. Scripted(t, 1)  OBVIOUS
  <2>5. Scripted(t, 2)  OBVIOUS
  <2>6. Scripted(t, 3)  OBVIOUS
  <2>7. Scripted(t, 4)  OBVIOUS
  <2>8. Scripted(t, 5)  OBVIOUS
  <2>9. Scripted(t, 6)  OBVIOUS
  <2>10. Scripted(t, 7)  OBVIOUS
  <2>11. Scripted(t, 8)  OBVIOUS
  <2>12. Scripted(t, 9)  OBVIOUS
  <2>13. Scripted(t, 10)  OBVIOUS
  <2> HIDE <1>9, <2>1 DEF Scripted, CreateAt, BeginAt, ManagerAt, Running, Helpers
  <2> QED  BY <2>2, <2>3, <2>4, <2>5, <2>6, <2>7, <2>8, <2>9, <2>10, <2>11, <2>12, <2>13
<1> QED  BY <1>1, <1>2, <1>3, <1>4, <1>5, <1>6, <1>7, <1>8, <1>9

Reasons == {"create", "layers", "refused", "lost", "timeout", "unexpected", "imageWait", "timing",
            "errors"}

\* How a step of the script goes on or ends, if it does not create the session.
Goes == \E l \in PlacesOf(doing[1]) \ {"session"} : Goto(l) /\ (l = "begin" => doing[2] # "READY")
Advances == step \in 1..(Len(Script[test]) - 1) /\ step' = step + 1 /\ pc' = "top" /\ outcome' = "none"
Ends == outcome' \notin {"none", "crashed"} /\ step' = step /\ pc' \in {"destroy", "gone"}
        /\ (pc' = "gone" => outcome' = "terminated")
Moves == Goes \/ (Advances /\ step # CreateAt[test]) \/ Ends

\* The places that the steps go to are places of their kind.
LEMMA PlacesAre ==
    /\ \A k : "top" \in PlacesOf(k)
    /\ "session" \in PlacesOf("create")
    /\ {"begin", "frame", "waited", "acquire", "image", "release", "end"} \subseteq PlacesOf("run")
    /\ {"frame", "waited", "end"} \subseteq PlacesOf("submit")
    /\ {"waited", "end", "poll", "look"} \subseteq PlacesOf("focus")
    /\ {"waited", "end", "poll", "look"} \subseteq PlacesOf("sync")
    /\ {"check", "dequeue", "join", "joined", "waited", "acquire", "image", "release", "end"}
          \subseteq PlacesOf("render")
    /\ {"signal", "join"} \subseteq PlacesOf("threads")
<1>1. \A k : "top" \in PlacesOf(k)
  BY DEF PlacesOf, FramePlaces
<1>2. "session" \in PlacesOf("create")
  BY DEF PlacesOf
<1>3. {"begin", "frame", "waited", "acquire", "image", "release", "end"} \subseteq PlacesOf("run")
  BY DEF PlacesOf, FramePlaces
<1>4. {"frame", "waited", "end"} \subseteq PlacesOf("submit")
  BY DEF PlacesOf
<1>5. {"waited", "end", "poll", "look"} \subseteq PlacesOf("focus")
  BY DEF PlacesOf
<1>6. {"waited", "end", "poll", "look"} \subseteq PlacesOf("sync")
  BY DEF PlacesOf
<1>7. {"check", "dequeue", "join", "joined", "waited", "acquire", "image", "release", "end"}
          \subseteq PlacesOf("render")
  BY DEF PlacesOf, FramePlaces
<1>8. {"signal", "join"} \subseteq PlacesOf("threads")
  BY DEF PlacesOf
<1> QED
  BY <1>1, <1>2, <1>3, <1>4, <1>5, <1>6, <1>7, <1>8, Zenon

\* Which kinds of step have a place.
LEMMA PlacesOnly ==
    \A k, l : l \in PlacesOf(k) =>
        /\ l = "session" => k = "create"
        /\ l = "begin" => k = "run"
        /\ l = "frame" => k \in {"run", "submit"}
        /\ l \in {"waited", "end"} => k \in {"run", "submit", "focus", "sync", "render"}
        /\ l \in {"acquire", "image", "release"} => k \in {"run", "render"}
        /\ l \in {"poll", "look"} => k \in {"focus", "sync"}
        /\ l \in {"check", "dequeue", "joined"} => k = "render"
        /\ l \in {"join"} => k \in {"render", "threads"}
        /\ l \notin {"destroy", "device", "gone"}
        /\ k \in {"await", "await_own", "begin", "setup", "layers", "exit", "end", "end_early",
                  "manager", "next", "quiet"} => l = "top"
  BY DEF PlacesOf, FramePlaces

\* The step under way is one of the script.
LEMMA StepKind ==
    ASSUME TypeInv
    PROVE  Scripted(test, step) /\ Len(Script[test]) \in Nat /\ doing[1] = Script[test][step][1]
  BY Scripts DEF TypeInv, doing

\* A step that is done goes on to the next, or ends the test.
LEMMA DoneMoves ==
    ASSUME TypeInv, outcome = "none", Done
    PROVE  Advances \/ Ends
<1>1. step \in 1..Len(Script[test]) /\ Len(Script[test]) \in Nat
  BY StepKind DEF TypeInv
<1>2. CASE step = Len(Script[test])
  BY <1>2, Zenon DEF Done, Ends
<1>3. CASE step # Len(Script[test])
  <2>1. step' = step + 1 /\ pc' = "top" /\ outcome' = "none"
    BY <1>3, Zenon DEF Done
  <2> QED  BY <1>1, <1>3, <2>1 DEF Advances
<1> QED  BY <1>2, <1>3

\* The same for a step that does not create the session.
LEMMA DoneOn ==
    ASSUME TypeInv, outcome = "none", Done, doing[1] # "create"
    PROVE  Moves
<1>1. step # CreateAt[test]
  BY StepKind DEF Scripted
<1> QED  BY <1>1, DoneMoves DEF Moves

\* A step that fails ends the test.
LEMMA FailMoves ==
    ASSUME NEW why \in Reasons, Fail(why)
    PROVE  Ends
<1>1. outcome' = "terminated" \/ outcome' \in Reasons
  BY Zenon DEF Fail
<1>2. outcome' \notin {"none", "crashed"}
  BY <1>1 DEF Reasons
<1>3. step' = step /\ pc' \in {"destroy", "gone"} /\ (pc' = "gone" => outcome' = "terminated")
  <2>1. CASE Joinable  BY <2>1, Zenon DEF Fail
  <2>2. CASE ~Joinable
    <3>1. pc' = "destroy" /\ step' = step  BY <2>2, Zenon DEF Fail
    <3> QED  BY <3>1
  <2> QED  BY <2>1, <2>2
<1> QED  BY <1>2, <1>3 DEF Ends

\* The same for each reason.
LEMMA FailOn ==
    Fail("create") \/ Fail("layers") \/ Fail("refused") \/ Fail("lost") \/ Fail("timeout")
    \/ Fail("unexpected") \/ Fail("imageWait") \/ Fail("timing") \/ Fail("errors") => Ends /\ Moves
<1>1. {"create", "layers", "refused", "lost", "timeout", "unexpected", "imageWait", "timing",
       "errors"} \subseteq Reasons
  BY DEF Reasons
<1> QED
  BY <1>1, FailMoves, Zenon DEF Moves

\* A step that goes on to another of its places.
LEMMA GotoOn ==
    ASSUME NEW l, NEW k, l # "session", l # "begin", l \in PlacesOf(k), doing[1] = k, Goto(l)
    PROVE  Moves
  BY Zenon DEF Moves, Goes

\* A step that stays where it is.
LEMMA StayOn ==
    ASSUME PlaceInv, outcome = "none", Stay, pc # "session", pc # "begin"
    PROVE  Moves
  BY Zenon DEF PlaceInv, Stay, Moves, Goes

\* How each action but Create goes on.
LEMMA MovesAre ==
    ASSUME TypeInv, PlaceInv, outcome = "none", Step
    PROVE  Moves
<1> DEFINE k == doing[1]
<1>1. pc \in PlacesOf(k)
  BY DEF PlaceInv
<1> HIDE DEF k
<1>2. Done /\ k # "create" => Moves
  BY DoneOn DEF k
<1>3. Stay /\ pc # "session" /\ pc # "begin" => Moves
  BY StayOn
<1>4. \A l : l # "session" /\ l # "begin" /\ l \in PlacesOf(k) /\ Goto(l) => Moves
  BY GotoOn, Zenon DEF k
<1>5. ASSUME Setup \/ CreateLayers \/ NewManager PROVE Moves
  <2>1. CASE Setup
    <3>1. k # "create"  BY <2>1 DEF Setup, At, k
    <3> QED  BY <2>1, <3>1, <1>2, FailOn, Zenon DEF Setup
  <2>2. CASE CreateLayers
    <3>1. k # "create"  BY <2>2 DEF CreateLayers, At, k
    <3> QED  BY <2>2, <3>1, <1>2, FailOn, Zenon DEF CreateLayers
  <2>3. CASE NewManager
    <3>1. k # "create"  BY <2>3 DEF NewManager, At, k
    <3> QED  BY <2>3, <3>1, <1>2, FailOn, Zenon DEF NewManager
  <2> QED  BY <1>5, <2>1, <2>2, <2>3, Zenon
<1>6. ASSUME AwaitReady PROVE Moves
  <2>1. k # "create" /\ pc # "session" /\ pc # "begin"  BY <1>1, <1>6, PlacesOnly DEF AwaitReady, At, k
  <2> QED  BY <1>6, <2>1, <1>2, <1>3, FailOn, Zenon DEF AwaitReady
<1>7. ASSUME AwaitOwnReady PROVE Moves
  <2>1. k # "create" /\ pc # "session" /\ pc # "begin"  BY <1>1, <1>7, PlacesOnly DEF AwaitOwnReady, At, k
  <2>2. Done \/ Stay \/ Fail("timeout")  BY <1>7, Zenon DEF AwaitOwnReady
  <2> QED  BY <2>1, <2>2, <1>2, <1>3, FailOn, Zenon
<1>8. ASSUME PollEvents PROVE Moves
  <2>1. pc = "poll"  BY <1>8 DEF PollEvents
  <2>2. k \in {"focus", "sync"}  BY <1>1, <2>1, PlacesOnly
  <2>3. "look" \in PlacesOf(k)  BY <2>2, PlacesAre
  <2>4. Goto("look") \/ Stay \/ Fail("unexpected")  BY <1>8, Zenon DEF PollEvents
  <2>5. pc # "session" /\ pc # "begin"  BY <2>1
  <2> QED  BY <2>3, <2>4, <2>5, <1>3, <1>4, FailOn
<1>9. ASSUME LookForFocus PROVE Moves
  <2>1. pc = "look" /\ k = "focus"  BY <1>9 DEF LookForFocus, At, k
  <2>4. Done \/ Goto("top") \/ Stay \/ Fail("timeout")  BY <1>9, Zenon DEF LookForFocus
  <2> QED  BY <2>1, <2>4, <1>2, <1>3, <1>4, PlacesAre, FailOn
<1>10. ASSUME SyncUntilFocus PROVE Moves
  <2>1. k = "sync"  BY <1>10 DEF SyncUntilFocus, At, k
  <2>2. (IF state = "FOCUSED" THEN Done ELSE IF TimeUp THEN Fail("timeout") ELSE Goto("top")) => Moves
    BY <2>1, <1>2, <1>4, PlacesAre, FailOn
  <2> QED  BY <1>10, <2>2, FailOn, Zenon DEF Call, SyncUntilFocus
<1>11. ASSUME BeginSession PROVE Moves
  <2>1. k = "begin"  BY <1>11 DEF BeginSession, At, k
  <2>2. Done => Moves  BY <2>1, <1>2
  <2> QED  BY <1>11, <2>2, FailOn, Zenon DEF Call, BeginSession, Begin
<1>12. ASSUME RequestExit PROVE Moves
  <2>1. k = "exit"  BY <1>12 DEF RequestExit, At, k
  <2>2. Done => Moves  BY <2>1, <1>2
  <2> QED  BY <1>12, <2>2, FailOn, Zenon DEF Call, RequestExit
<1>13. ASSUME EndSession PROVE Moves
  <2>1. k = "end"  BY <1>13 DEF EndSession, At, k
  <2>2. Done => Moves  BY <2>1, <1>2
  <2> QED  BY <1>13, <2>2, FailOn, Zenon DEF Call, EndSession
<1>14. ASSUME EndEarly PROVE Moves
  <2>1. k = "end_early"  BY <1>14 DEF EndEarly, At, k
  <2>2. Done => Moves  BY <2>1, <1>2
  <2> QED  BY <1>14, <2>2, FailOn, Zenon DEF EndEarly
<1>15. ASSUME Tick PROVE Moves
  <2>1. pc = "top" /\ k = "run"  BY <1>15 DEF Tick, At, k
  <2>2. Done \/ Stay \/ (Goto("begin") /\ doing[2] # "READY") \/ Goto("frame")
        \/ Fail("timeout") \/ Fail("unexpected")
    BY <1>15, Zenon DEF Tick, JustReady
  <2>3. Goto("begin") /\ doing[2] # "READY" => Moves
    BY <2>1, PlacesAre, Zenon DEF Moves, Goes, k
  <2> QED  BY <2>1, <2>2, <2>3, <1>2, <1>3, <1>4, PlacesAre, FailOn
<1>16. ASSUME TickBegins PROVE Moves
  <2>1. k = "run"  BY <1>16 DEF TickBegins, At, k
  <2>2. Goto("frame") => Moves  BY <2>1, <1>4, PlacesAre
  <2> QED  BY <1>16, <2>2, FailOn, Zenon DEF Call, TickBegins, Begin
<1>17. ASSUME NextSessionState PROVE Moves
  <2>1. pc = "top" /\ k \in {"next", "submit", "quiet"}  BY <1>17 DEF NextSessionState, k
  <2>2. Done \/ Stay \/ (k = "submit" /\ Goto("frame")) \/ Fail("timeout") \/ Fail("unexpected")
    BY <1>17, Zenon DEF NextSessionState, k
  <2> QED  BY <2>1, <2>2, <1>2, <1>3, <1>4, PlacesAre, FailOn
<1>18. ASSUME WaitFrame PROVE Moves
  <2>1. k \in {"run", "submit", "focus", "sync"}  BY <1>1, <1>18, PlacesOnly DEF WaitFrame, k
  <2>2. Goto("waited") => Moves  BY <2>1, <1>4, PlacesAre
  <2> QED  BY <1>18, <2>2, FailOn, Zenon DEF Call, WaitFrame
<1>19. ASSUME BeginFrame PROVE Moves
  <2>1. k \in {"run", "submit", "focus", "sync", "render"}  BY <1>1, <1>19, PlacesOnly DEF BeginFrame
  <2>2. Goto("end") => Moves  BY <2>1, <1>4, PlacesAre
  <2>3. k \in {"run", "render"} => (Goto("acquire") => Moves)  BY <1>4, PlacesAre
  <2>4. k \notin {"run", "render"} => Drawn = {FALSE}  BY Zenon DEF Drawn, k
  <2>5. \A drawn \in Drawn : Goto(IF drawn THEN "acquire" ELSE "end") => Moves
    BY <2>2, <2>3, <2>4, Zenon
  <2> QED  BY <1>19, <2>5, FailOn, Zenon DEF Call, BeginFrame
<1>20. ASSUME AcquireImage PROVE Moves
  <2>1. k \in {"run", "render"}  BY <1>1, <1>20, PlacesOnly DEF AcquireImage
  <2>2. Goto("image") => Moves  BY <2>1, <1>4, PlacesAre
  <2> QED  BY <1>20, <2>2, FailOn, Zenon DEF Call, AcquireImage
<1>21. ASSUME WaitImage PROVE Moves
  <2>1. k \in {"run", "render"}  BY <1>1, <1>21, PlacesOnly DEF WaitImage
  <2>2. Goto("release") => Moves  BY <2>1, <1>4, PlacesAre
  <2> QED  BY <1>21, <2>2, FailOn, Zenon DEF Call, WaitImage, ImageWaitExpires
<1>22. ASSUME ReleaseImage PROVE Moves
  <2>1. k \in {"run", "render"}  BY <1>1, <1>22, PlacesOnly DEF ReleaseImage
  <2>2. Goto("end") => Moves  BY <2>1, <1>4, PlacesAre
  <2> QED  BY <1>22, <2>2, FailOn, Zenon DEF Call, ReleaseImage
<1>23. ASSUME EndFrame PROVE Moves
  <2>1. k \in {"run", "submit", "focus", "sync", "render"}  BY <1>1, <1>23, PlacesOnly DEF EndFrame
  <2> DEFINE l == CASE k = "render" -> "check" [] k \in {"focus", "sync"} -> "poll" [] OTHER -> "top"
  <2>2. l \in PlacesOf(k) /\ l # "session"  BY <2>1, PlacesAre
  <2>3. Goto(l) => Moves  BY <2>2, <1>4, Zenon
  <2> QED  BY <1>23, <2>3, FailOn, Zenon DEF Call, EndFrame, k
<1>24. ASSUME StartAppThread \/ CheckResult \/ DequeueFrame PROVE Moves
  <2>1. k = "render"  BY <1>24 DEF StartAppThread, CheckResult, DequeueFrame, At, k
  <2>2. Goto("check") \/ Goto("dequeue") \/ Goto("join") \/ Goto("waited")
    BY <1>24, Zenon DEF StartAppThread, CheckResult, DequeueFrame
  <2> QED  BY <2>1, <2>2, <1>4, PlacesAre
<1>25. ASSUME JoinAppThread PROVE Moves
  <2>1. k = "render"  BY <1>25 DEF JoinAppThread, At, k
  <2>2. Goto("joined") \/ Done \/ Fail("lost") \/ Fail("timing")  BY <1>25, Zenon DEF JoinAppThread
  <2> QED  BY <2>1, <2>2, <1>2, <1>4, PlacesAre, FailOn
<1>26. ASSUME RunTestEnvironment PROVE Moves
  <2>1. k = "threads"  BY <1>26 DEF RunTestEnvironment, At, k
  <2>2. Goto("signal") \/ Goto("join") \/ Done \/ Fail("errors")  BY <1>26, Zenon DEF RunTestEnvironment
  <2> QED  BY <2>1, <2>2, <1>2, <1>4, PlacesAre, FailOn
<1> QED
  BY <1>5, <1>6, <1>7, <1>8, <1>9, <1>10, <1>11, <1>12, <1>13, <1>14, <1>15, <1>16, <1>17, <1>18,
     <1>19, <1>20, <1>21, <1>22, <1>23, <1>24, <1>25, <1>26, Zenon
     DEF Step, Reading, Ticking, Beginning, Ending, Framing, Threading, Plain

\* What reading an event leaves alone.
LEMMA ReadingKeeps ==
    Reading => UNCHANGED <<constant, rtVars, raised, endVars, pipe, exerciseVars>>
<1>1. ASSUME AwaitReady PROVE UNCHANGED <<constant, rtVars, raised, endVars, pipe,
                                        exerciseVars>>
  BY <1>1 DEF AwaitReady, apart, constant, rtVars, readVars, endVars, exerciseVars
<1>2. ASSUME AwaitOwnReady PROVE UNCHANGED <<constant, rtVars, raised, endVars, pipe,
                                           exerciseVars>>
  BY <1>2 DEF AwaitOwnReady, apart, constant, rtVars, readVars, endVars, exerciseVars
<1>3. ASSUME PollEvents PROVE UNCHANGED <<constant, rtVars, raised, endVars, pipe,
                                        exerciseVars>>
  BY <1>3 DEF PollEvents, apart, constant, rtVars, readVars, endVars, exerciseVars
<1>4. ASSUME LookForFocus PROVE UNCHANGED <<constant, rtVars, raised, endVars, pipe,
                                          exerciseVars>>
  BY <1>4 DEF LookForFocus, apart, constant, rtVars, readVars, endVars, exerciseVars
<1> QED
  BY <1>1, <1>2, <1>3, <1>4, Zenon DEF Reading

\* What polling the runtime leaves alone.
LEMMA TickingKeeps ==
    Ticking => UNCHANGED <<constant, rtVars, raised, readVars, endVars, pipe,
                          exerciseVars>>
<1>1. ASSUME Tick PROVE UNCHANGED <<constant, rtVars, raised, readVars, endVars, pipe,
                                  exerciseVars>>
  BY <1>1 DEF Tick, apart, constant, rtVars, readVars, endVars, exerciseVars
<1>2. ASSUME NextSessionState PROVE UNCHANGED <<constant, rtVars, raised, readVars,
                                              endVars, pipe, exerciseVars>>
  BY <1>2 DEF NextSessionState, apart, constant, rtVars, readVars, endVars, exerciseVars
<1> QED
  BY <1>1, <1>2, Zenon DEF Ticking

\* What beginning the session leaves alone.
LEMMA BeginningKeeps ==
    Beginning => UNCHANGED <<constant, state, exiting, frame, image, queue, raised,
                            readVars, sessionState, session, device, pipe,
                            exerciseVars>>
<1>1. ASSUME BeginSession PROVE UNCHANGED <<constant, state, exiting, frame, image,
                                          queue, raised, readVars, sessionState,
                                          session, device, pipe, exerciseVars>>
  BY <1>1, Zenon DEF BeginSession, Call, Begin, apart, constant, rtVars, readVars, endVars, exerciseVars
<1>2. ASSUME TickBegins PROVE UNCHANGED <<constant, state, exiting, frame, image,
                                        queue, raised, readVars, sessionState,
                                        session, device, pipe, exerciseVars>>
  BY <1>2, Zenon DEF TickBegins, Call, Begin, apart, constant, rtVars, readVars, endVars, exerciseVars
<1> QED
  BY <1>1, <1>2, Zenon DEF Beginning

\* What ending the session leaves alone.
LEMMA EndingKeeps ==
    Ending => UNCHANGED <<constant, state, exiting, frame, image, queue, raised,
                         readVars, sessionState, session, device, pipe, exerciseVars>>
<1>1. ASSUME EndSession PROVE UNCHANGED <<constant, state, exiting, frame, image,
                                        queue, raised, readVars, sessionState,
                                        session, device, pipe, exerciseVars>>
  BY <1>1, Zenon DEF EndSession, Call, apart, constant, rtVars, readVars, endVars, exerciseVars
<1>2. ASSUME EndEarly PROVE UNCHANGED <<constant, state, exiting, frame, image, queue,
                                      raised, readVars, sessionState, session,
                                      device, pipe, exerciseVars>>
  BY <1>2 DEF EndEarly, apart, constant, rtVars, readVars, endVars, exerciseVars
<1> QED
  BY <1>1, <1>2, Zenon DEF Ending

\* What the calls of a frame leave alone.
LEMMA FramingKeeps ==
    Framing => UNCHANGED <<constant, state, running, exiting, queue, raised, readVars,
                          sessionState, session, device, pipe, exerciseVars>>
<1>1. ASSUME WaitFrame PROVE UNCHANGED <<constant, state, running, exiting, queue,
                                       raised, readVars, sessionState, session,
                                       device, pipe, exerciseVars>>
  BY <1>1, Zenon DEF WaitFrame, Call, apart, constant, rtVars, readVars, endVars, exerciseVars
<1>2. ASSUME BeginFrame PROVE UNCHANGED <<constant, state, running, exiting, queue,
                                        raised, readVars, sessionState, session,
                                        device, pipe, exerciseVars>>
  BY <1>2, Zenon DEF BeginFrame, Call, apart, constant, rtVars, readVars, endVars, exerciseVars
<1>3. ASSUME AcquireImage PROVE UNCHANGED <<constant, state, running, exiting, queue,
                                          raised, readVars, sessionState, session,
                                          device, pipe, exerciseVars>>
  BY <1>3, Zenon DEF AcquireImage, Call, apart, constant, rtVars, readVars, endVars, exerciseVars
<1>4. ASSUME WaitImage PROVE UNCHANGED <<constant, state, running, exiting, queue,
                                       raised, readVars, sessionState, session,
                                       device, pipe, exerciseVars>>
  BY <1>4, Zenon DEF WaitImage, Call, apart, constant, rtVars, readVars, endVars, exerciseVars
<1>5. ASSUME ReleaseImage PROVE UNCHANGED <<constant, state, running, exiting, queue,
                                          raised, readVars, sessionState, session,
                                          device, pipe, exerciseVars>>
  BY <1>5, Zenon DEF ReleaseImage, Call, apart, constant, rtVars, readVars, endVars, exerciseVars
<1>6. ASSUME EndFrame PROVE UNCHANGED <<constant, state, running, exiting, queue,
                                      raised, readVars, sessionState, session,
                                      device, pipe, exerciseVars>>
  BY <1>6, Zenon DEF EndFrame, Call, apart, constant, rtVars, readVars, endVars, exerciseVars
<1> QED
  BY <1>1, <1>2, <1>3, <1>4, <1>5, <1>6, Zenon DEF Framing

\* What the main thread of the pipelined test leaves alone.
LEMMA ThreadingKeeps ==
    Threading => UNCHANGED <<constant, rtVars, queue, raised, readVars, sessionState,
                            endVars, exerciseVars>>
<1>1. ASSUME StartAppThread PROVE UNCHANGED <<constant, rtVars, queue, raised,
                                            readVars, sessionState, endVars,
                                            exerciseVars>>
  BY <1>1 DEF StartAppThread, Same, apart, constant, rtVars, readVars, endVars, exerciseVars
<1>2. ASSUME CheckResult PROVE UNCHANGED <<constant, rtVars, queue, raised, readVars,
                                         sessionState, endVars, exerciseVars>>
  BY <1>2 DEF CheckResult, Same, apart, constant, rtVars, readVars, endVars, exerciseVars
<1>3. ASSUME DequeueFrame PROVE UNCHANGED <<constant, rtVars, queue, raised, readVars,
                                          sessionState, endVars, exerciseVars>>
  BY <1>3 DEF DequeueFrame, Same, apart, constant, rtVars, readVars, endVars, exerciseVars
<1>4. ASSUME JoinAppThread PROVE UNCHANGED <<constant, rtVars, queue, raised, readVars,
                                           sessionState, endVars, exerciseVars>>
  BY <1>4 DEF JoinAppThread, Same, apart, constant, rtVars, readVars, endVars, exerciseVars
<1> QED
  BY <1>1, <1>2, <1>3, <1>4, Zenon DEF Threading

\* What the remaining steps leave alone.
LEMMA PlainKeeps ==
    Plain => UNCHANGED <<constant, rtVars, queue, raised, readVars, sessionState,
                        session, device, pipe>>
<1>1. ASSUME Setup PROVE UNCHANGED <<constant, rtVars, queue, raised, readVars,
                                   sessionState, session, device, pipe>>
  BY <1>1 DEF Setup, apart, constant, rtVars, readVars, endVars, exerciseVars
<1>2. ASSUME CreateLayers PROVE UNCHANGED <<constant, rtVars, queue, raised, readVars,
                                          sessionState, session, device, pipe>>
  BY <1>2 DEF CreateLayers, apart, constant, rtVars, readVars, endVars, exerciseVars
<1>3. ASSUME SyncUntilFocus PROVE UNCHANGED <<constant, rtVars, queue, raised,
                                            readVars, sessionState, session, device,
                                            pipe>>
  BY <1>3, Zenon DEF SyncUntilFocus, Call, apart, constant, rtVars, readVars, endVars, exerciseVars
<1>4. ASSUME RunTestEnvironment PROVE UNCHANGED <<constant, rtVars, queue, raised,
                                                readVars, sessionState, session,
                                                device, pipe>>
  BY <1>4 DEF RunTestEnvironment, NotThreads, apart, constant, rtVars, readVars, endVars, exerciseVars
<1> QED
  BY <1>1, <1>2, <1>3, <1>4, Zenon DEF Plain

\* What the creation of the manager leaves alone.
LEMMA NewManagerKeeps ==
    NewManager => UNCHANGED <<constant, rtVars, queue, raised, events, seen,
                             sessionState, endVars, pipe, exerciseVars>>
  BY DEF NewManager, NewReader, apart, constant, rtVars, readVars, endVars, exerciseVars

\* What asking to exit leaves alone.
LEMMA RequestExitKeeps ==
    RequestExit => UNCHANGED <<constant, state, running, frame, image, queue, raised,
                              readVars, sessionState, session, device, pipe,
                              exerciseVars>>
  BY Zenon DEF RequestExit, Call, apart, constant, rtVars, readVars, endVars, exerciseVars

\* What no step of a script touches once the session is there.
LEMMA StepKeeps ==
    Step => UNCHANGED <<test, graphics, state, raised, session, device>>
  BY ReadingKeeps, TickingKeeps, NewManagerKeeps, BeginningKeeps, EndingKeeps, FramingKeeps,
     ThreadingKeeps, PlainKeeps, RequestExitKeeps, Zenon DEF Step, constant, rtVars, endVars

\* A test that is over makes no step.
LEMMA StepOpen ==
    ASSUME PlaceInv, Step
    PROVE  outcome = "none"
<1>1. outcome # "none" => pc \in {"destroy", "device", "gone"}
  BY DEF PlaceInv
<1>2. PollEvents => pc = "poll"
  BY DEF PollEvents
<1>3. ~PollEvents => outcome = "none"
  BY Zenon DEF Step, Reading, Ticking, Beginning, Ending, Framing, Threading, Plain, NewManager,
     RequestExit, Setup, CreateLayers, SyncUntilFocus, RunTestEnvironment, StartAppThread,
     CheckResult, DequeueFrame, JoinAppThread, WaitFrame, BeginFrame, AcquireImage, WaitImage,
     ReleaseImage, EndFrame, EndSession, EndEarly, BeginSession, TickBegins, Tick,
     NextSessionState, AwaitReady, AwaitOwnReady, LookForFocus, At
<1> QED
  BY <1>1, <1>2, <1>3

\* A concatenation of events, place by place.
LEMMA ConcatType ==
    ASSUME NEW s \in Seq(Events), NEW u \in Seq(Events)
    PROVE  /\ s \o u \in Seq(Events) /\ Len(s \o u) = Len(s) + Len(u)
           /\ \A i \in 1..Len(s) : (s \o u)[i] = s[i]
           /\ \A i \in 1..Len(u) : (s \o u)[Len(s) + i] = u[i]
  OBVIOUS

\* What a reader does to the queue and to itself.
LEMMA ReadsOne ==
    ASSUME TypeInv, NEW r \in Readers, NEW e \in Events, TryReadNext(r, e)
    PROVE  /\ events' = events \o queue /\ queue' = <<>>
           /\ events' \in Seq(Events) /\ queue' \in Seq(Events)
           /\ reader[r] \in Nat /\ reader[r] <= Len(events') /\ e = events'[reader[r]]
           /\ reader' = [reader EXCEPT ![r] = reader[r] + 1] /\ reader' \in [Readers -> Nat]
           /\ seen' = [seen EXCEPT ![r] = Append(seen[r], e)]
           /\ seen' \in [Readers -> Seq(Events)] /\ born' = born
<1>1. events \in Seq(Events) /\ queue \in Seq(Events) /\ reader \in [Readers -> Nat]
      /\ seen \in [Readers -> Seq(Events)]
  BY DEF TypeInv
<1>2. events' = events \o queue /\ queue' = <<>>
  BY DEF TryReadNext, ReadEvents
<1>3. events' \in Seq(Events)
  BY <1>1, <1>2, ConcatType
<1>4. reader' = [reader EXCEPT ![r] = reader[r] + 1] /\ seen' = [seen EXCEPT ![r] = Append(seen[r], e)]
      /\ born' = born /\ reader[r] <= Len(events') /\ e = events'[reader[r]]
  BY DEF TryReadNext
<1>5. reader[r] \in Nat /\ Append(seen[r], e) \in Seq(Events) /\ reader[r] + 1 \in Nat
  BY <1>1
<1>6. reader' \in [Readers -> Nat] /\ seen' \in [Readers -> Seq(Events)]
  <2>1. reader' \in [Readers -> Nat]
    BY <1>1, <1>4, <1>5
  <2> DEFINE S == Seq(Events)
  <2>2. seen \in [Readers -> S] /\ Append(seen[r], e) \in S
    BY <1>1, <1>5
  <2> HIDE DEF S
  <2>3. seen' \in [Readers -> S]
    BY <1>4, <2>2, Zenon
  <2> QED
    BY <2>1, <2>3 DEF S
<1>7. queue' \in Seq(Events)
  BY <1>2
<1> QED
  BY <1>2, <1>3, <1>4, <1>5, <1>6, <1>7, Zenon

\* A reader at the end of the queue polls the runtime and returns nothing.
LEMMA ReadsNone ==
    ASSUME TypeInv, NEW r, NothingToRead(r)
    PROVE  /\ events' = events \o queue /\ queue' = <<>>
           /\ events' \in Seq(Events) /\ queue' \in Seq(Events)
           /\ UNCHANGED <<reader, seen, born>>
<1>1. events \in Seq(Events) /\ queue \in Seq(Events)
  BY DEF TypeInv
<1>2. events' = events \o queue /\ queue' = <<>> /\ UNCHANGED <<reader, seen, born>>
  BY DEF NothingToRead, ReadEvents
<1>3. events' \in Seq(Events)
  BY <1>1, <1>2, ConcatType
<1> QED
  BY <1>2, <1>3

\* What the four steps that read have in common.
Read == (\E r \in Readers, e \in Events : TryReadNext(r, e)) \/ (\E r \in Readers : NothingToRead(r))
\* The steps that read do so through a reader.
LEMMA ReadingReads == Reading => Read
<1>1. {"private", "manager"} \subseteq Readers
  BY DEF Readers
<1>2. AwaitReady => Read
  BY <1>1, Zenon DEF AwaitReady, Read
<1>3. AwaitOwnReady => Read
  BY <1>1, Zenon DEF AwaitOwnReady, Read
<1>4. PollEvents => Read
  BY <1>1, Zenon DEF PollEvents, Read
<1>5. LookForFocus => Read
  BY <1>1, Zenon DEF LookForFocus, Read
<1> QED
  BY <1>2, <1>3, <1>4, <1>5 DEF Reading

\* The state that a helper believes in is a state.
LEMMA ReadingBelieves ==
    ASSUME TypeInv, Reading
    PROVE  sessionState' \in States
<1>1. sessionState \in States
  BY DEF TypeInv
<1>2. AwaitReady => sessionState' = sessionState \/ sessionState' \in States
  BY <1>1, Zenon DEF AwaitReady
<1>3. AwaitOwnReady \/ LookForFocus => sessionState' = sessionState
  BY DEF AwaitOwnReady, LookForFocus
<1>4. PollEvents => sessionState' = sessionState \/ sessionState' \in States
  BY <1>1, Zenon DEF PollEvents
<1> QED
  BY <1>1, <1>2, <1>3, <1>4 DEF Reading

\* Polling past the queue leaves a rest of it.
LEMMA TickingPolls ==
    ASSUME TypeInv, Ticking
    PROVE  /\ \E n \in 0..Len(queue) : queue' = SubSeq(queue, n + 1, Len(queue))
           /\ sessionState' \in States
<1> DEFINE Rest(n) == SubSeq(queue, n + 1, Len(queue))
<1>1. queue \in Seq(Events) /\ sessionState \in States
  BY DEF TypeInv
<1>2. Rest(0) = queue /\ Rest(Len(queue)) = <<>> /\ Len(queue) \in Nat
  BY <1>1
<1>3. ASSUME queue # <<>> PROVE Tail(queue) = Rest(1) /\ 1 \in 0..Len(queue)
  BY <1>1, <1>3
<1>4. FirstState \in 0..Len(queue)
  <2>1. DOMAIN queue = 1..Len(queue)  BY <1>1
  <2> DEFINE hits == {i \in DOMAIN queue : queue[i] \in States}
  <2>2. ASSUME hits # {} PROVE \E i \in hits : \A j \in hits : i <= j
    <3>1. hits \subseteq Nat  BY <2>1, <1>2
    <3>2. PICK x \in hits : \A y \in hits : <<y, x>> \notin OpToRel(<, Nat)
      BY <3>1, <2>2, NatLessThanWellFounded, WFMin, Zenon
    <3>3. \A y \in hits : ~(y < x)
      BY <3>1, <3>2, Zenon DEF OpToRel
    <3> QED BY <3>1, <3>3
  <2>3. CASE hits = {}
    BY <2>1, <2>3, <1>2 DEF FirstState, SelectInSeq
  <2>4. CASE hits # {}
    <3>1. FirstState = CHOOSE i \in hits : \A j \in hits : i <= j
      <4>1. hits = {i \in 1..Len(queue) : queue[i] \in States}  BY <2>1
      <4>2. Min(hits) = CHOOSE i \in hits : \A j \in hits : i <= j  BY Zenon DEF Min
      <4>3. FirstState = IF {i \in 1..Len(queue) : queue[i] \in States} # {}
                         THEN Min({i \in 1..Len(queue) : queue[i] \in States}) ELSE 0
        BY Zenon DEF FirstState, SelectInSeq
      <4> QED  BY <2>4, <4>1, <4>2, <4>3, Zenon
    <3> QED BY <3>1, <2>1, <2>2, <2>4, <1>2
  <2> QED BY <2>3, <2>4
<1>5. Tick => (queue' = queue \/ (queue # <<>> /\ queue' = Tail(queue)))
  BY Zenon DEF Tick, PollEvent
<1>6. Tick => sessionState' = sessionState \/ sessionState' \in States
  BY Zenon DEF Tick
<1>7. NextSessionState => queue' = queue \/ queue' = SubSeq(queue, FirstState + 1, Len(queue)) \/ queue' = <<>>
  BY Zenon DEF NextSessionState
<1>8. NextSessionState => sessionState' = sessionState
  BY DEF NextSessionState
<1> HIDE DEF Rest
<1>9. queue' = queue \/ (queue # <<>> /\ queue' = Tail(queue)) \/ queue' = Rest(FirstState) \/ queue' = <<>>
  BY <1>5, <1>7, Zenon DEF Ticking, Rest
<1>10. \E n \in 0..Len(queue) : queue' = Rest(n)
  BY <1>2, <1>3, <1>4, <1>9
<1> QED
  BY <1>1, <1>6, <1>8, <1>10 DEF Rest, Ticking

\* What Pipe changes.
LEMMA Piped ==
    ASSUME TypeInv, NEW app, NEW changes, Pipe(app, changes)
    PROVE  /\ pipe'.app = app
           /\ pipe'.left = IF "left" \in DOMAIN changes THEN changes.left ELSE pipe.left
           /\ pipe'.queued = IF "queued" \in DOMAIN changes THEN changes.queued ELSE pipe.queued
           /\ pipe'.completed =
                 IF "completed" \in DOMAIN changes THEN changes.completed ELSE pipe.completed
           /\ pipe'.result = IF "result" \in DOMAIN changes THEN changes.result ELSE pipe.result
           /\ pipe' = [app |-> pipe'.app, left |-> pipe'.left, queued |-> pipe'.queued,
                       completed |-> pipe'.completed, result |-> pipe'.result]
<1> DEFINE F == {"app", "left", "queued", "completed", "result"}
<1>1. DOMAIN pipe = F
  BY DEF TypeInv
<1>2. pipe' = [f \in F |-> IF f = "app" THEN app ELSE IF f \in DOMAIN changes THEN changes[f] ELSE pipe[f]]
  BY <1>1 DEF Pipe
<1> QED
  BY <1>2

\* The changes that the two threads make to what they share.
LEMMA PipeSteps ==
    ASSUME TypeInv
    PROVE  /\ \A app : Pipe(app, NoChange) =>
                 pipe' = [app |-> app, left |-> pipe.left, queued |-> pipe.queued,
                          completed |-> pipe.completed, result |-> pipe.result]
           /\ \A app, n : Pipe(app, [left |-> n]) =>
                 pipe' = [app |-> app, left |-> n, queued |-> pipe.queued,
                          completed |-> pipe.completed, result |-> pipe.result]
           /\ \A app, n : Pipe(app, [queued |-> n]) =>
                 pipe' = [app |-> app, left |-> pipe.left, queued |-> n,
                          completed |-> pipe.completed, result |-> pipe.result]
           /\ \A app, b : Pipe(app, [completed |-> b]) =>
                 pipe' = [app |-> app, left |-> pipe.left, queued |-> pipe.queued,
                          completed |-> b, result |-> pipe.result]
           /\ \A app, r : Pipe(app, [result |-> r]) =>
                 pipe' = [app |-> app, left |-> pipe.left, queued |-> pipe.queued,
                          completed |-> pipe.completed, result |-> r]
<1>1. ASSUME NEW app, Pipe(app, NoChange)
      PROVE  pipe' = [app |-> app, left |-> pipe.left, queued |-> pipe.queued,
                      completed |-> pipe.completed, result |-> pipe.result]
  <2>1. DOMAIN NoChange = {}  BY DEF NoChange
  <2> QED  BY <1>1, <2>1, Piped
<1>2. ASSUME NEW app, NEW n, Pipe(app, [left |-> n])
      PROVE  pipe' = [app |-> app, left |-> n, queued |-> pipe.queued,
                      completed |-> pipe.completed, result |-> pipe.result]
  <2> DEFINE c == [left |-> n]
  <2>1. DOMAIN c = {"left"} /\ c.left = n  OBVIOUS
  <2> HIDE DEF c
  <2> QED  BY <1>2, <2>1, Piped DEF c
<1>3. ASSUME NEW app, NEW n, Pipe(app, [queued |-> n])
      PROVE  pipe' = [app |-> app, left |-> pipe.left, queued |-> n,
                      completed |-> pipe.completed, result |-> pipe.result]
  <2> DEFINE c == [queued |-> n]
  <2>1. DOMAIN c = {"queued"} /\ c.queued = n  OBVIOUS
  <2> QED  BY <1>3, <2>1, Piped
<1>4. ASSUME NEW app, NEW b, Pipe(app, [completed |-> b])
      PROVE  pipe' = [app |-> app, left |-> pipe.left, queued |-> pipe.queued,
                      completed |-> b, result |-> pipe.result]
  <2> DEFINE c == [completed |-> b]
  <2>1. DOMAIN c = {"completed"} /\ c.completed = b  OBVIOUS
  <2> QED  BY <1>4, <2>1, Piped
<1>5. ASSUME NEW app, NEW r, Pipe(app, [result |-> r])
      PROVE  pipe' = [app |-> app, left |-> pipe.left, queued |-> pipe.queued,
                      completed |-> pipe.completed, result |-> r]
  <2> DEFINE c == [result |-> r]
  <2>1. DOMAIN c = {"result"} /\ c.result = r  OBVIOUS
  <2> QED  BY <1>5, <2>1, Piped
<1> QED
  BY <1>1, <1>2, <1>3, <1>4, <1>5, Zenon

Apps == {"none", "wait", "queue", "signal", "done"}
Results == {"SUCCESS", "LOSS_PENDING", "FAILED"}
PipeType == [app : Apps, left : Nat, queued : Nat, completed : BOOLEAN, result : Results]

\* The record of what the two threads share.
LEMMA PipeRecord ==
    \A a \in Apps, l \in Nat, q \in Nat, c \in BOOLEAN, r \in Results :
        [app |-> a, left |-> l, queued |-> q, completed |-> c, result |-> r] \in PipeType
<1> DEFINE B == BOOLEAN
<1> HIDE DEF B
<1>1. \A a \in Apps, l \in Nat, q \in Nat, c \in B, r \in Results :
        [app |-> a, left |-> l, queued |-> q, completed |-> c, result |-> r] \in
           [app : Apps, left : Nat, queued : Nat, completed : B, result : Results]
  OBVIOUS
<1> QED
  BY <1>1, Zenon DEF PipeType, B

\* What the two threads share keeps its type.
LEMMA PipeTyped ==
    ASSUME TypeInv, Threading \/ AppThread
    PROVE  pipe' \in PipeType
<1>1. /\ pipe.app \in Apps /\ pipe.left \in Nat /\ pipe.queued \in Nat /\ pipe.completed \in BOOLEAN
      /\ pipe.result \in Results /\ pipe \in PipeType
  BY DEF TypeInv, PipeType, Apps, Results
<1> DEFINE Is(a, l, q, c, r) == pipe' = [app |-> a, left |-> l, queued |-> q, completed |-> c, result |-> r]
<1>2. ASSUME NEW a \in Apps, NEW l \in Nat, NEW q \in Nat, NEW c \in BOOLEAN, NEW r \in Results,
             Is(a, l, q, c, r)
      PROVE  pipe' \in PipeType
  BY <1>2, PipeRecord, Zenon
<1>0. {"none", "wait", "queue", "signal", "done"} \subseteq Apps
       /\ {"LOSS_PENDING", "FAILED", "SUCCESS"} \subseteq Results
  BY DEF Apps, Results
<1> HIDE DEF Is
<1>3. StartAppThread => Is("wait", pipe.left, pipe.queued, pipe.completed, pipe.result)
  BY PipeSteps, Zenon DEF StartAppThread, Is
<1>4. CheckResult => pipe' = pipe
  BY DEF CheckResult
<1>5. DequeueFrame => pipe' = pipe \/
         (pipe.queued > 0 /\ Is(pipe.app, pipe.left, pipe.queued - 1, pipe.completed, pipe.result))
  BY PipeSteps, Zenon DEF DequeueFrame, Is
<1>6. JoinAppThread => pipe' = pipe \/ Is("none", pipe.left, pipe.queued, pipe.completed, pipe.result)
  BY PipeSteps, Zenon DEF JoinAppThread, Is
<1>7. AppWaitsFrame =>
         \/ pipe.left > 0 /\ Is("queue", pipe.left - 1, pipe.queued, pipe.completed, pipe.result)
         \/ Is("signal", pipe.left, pipe.queued, pipe.completed, "LOSS_PENDING")
         \/ Is("signal", pipe.left, pipe.queued, pipe.completed, "FAILED")
  BY PipeSteps, Zenon DEF AppWaitsFrame, MayWait, Is
<1>8. AppQueuesFrame =>
         \/ Is("signal", pipe.left, pipe.queued + 1, pipe.completed, pipe.result)
         \/ Is("wait", pipe.left, pipe.queued + 1, pipe.completed, pipe.result)
  BY PipeSteps, Zenon DEF AppQueuesFrame, Is
<1>9. SignalNoMoreFrames => Is("done", pipe.left, pipe.queued, TRUE, pipe.result)
  BY PipeSteps, Zenon DEF SignalNoMoreFrames, Is
<1>10. (pipe.left > 0 => pipe.left - 1 \in Nat) /\ (pipe.queued > 0 => pipe.queued - 1 \in Nat)
       /\ pipe.queued + 1 \in Nat
  BY <1>1
<1>11. \A a \in Apps, q \in Nat :
          Is(a, pipe.left, q, pipe.completed, pipe.result) => pipe' \in PipeType
  BY <1>1, <1>2, Zenon
<1>12. Threading => pipe' \in PipeType
  <2>1. StartAppThread => pipe' \in PipeType
    BY <1>1, <1>2, <1>3, <1>0
  <2>2. ASSUME DequeueFrame PROVE pipe' \in PipeType
    <3>1. CASE pipe.queued > 0 /\ Is(pipe.app, pipe.left, pipe.queued - 1, pipe.completed, pipe.result)
      <4>1. pipe.queued - 1 \in Nat
        BY <1>10, <3>1
      <4> QED  BY <1>1, <1>11, <3>1, <4>1, Zenon
    <3> QED  BY <1>1, <1>5, <2>2, <3>1, Zenon
  <2>3. JoinAppThread => pipe' \in PipeType
    BY <1>1, <1>2, <1>6, <1>0
  <2> QED  BY <1>1, <1>4, <2>1, <2>2, <2>3, Zenon DEF Threading
<1>13. AppThread => pipe' \in PipeType
  <2>1. AppWaitsFrame => pipe' \in PipeType
    <3>1. \A a \in Apps, l \in Nat, r \in Results :
             Is(a, l, pipe.queued, pipe.completed, r) => pipe' \in PipeType
      BY <1>1, <1>2, Zenon
    <3>2. pipe.left > 0 /\ Is("queue", pipe.left - 1, pipe.queued, pipe.completed, pipe.result)
             => pipe' \in PipeType
      BY <1>1, <1>10, <1>0, <3>1
    <3>3. \A r \in {"LOSS_PENDING", "FAILED"} :
             Is("signal", pipe.left, pipe.queued, pipe.completed, r) => pipe' \in PipeType
      BY <1>1, <1>0, <3>1
    <3> QED  BY <1>7, <3>2, <3>3, Zenon
  <2>2. AppQueuesFrame => pipe' \in PipeType
    BY <1>8, <1>10, <1>11, <1>0
  <2>3. SignalNoMoreFrames => pipe' \in PipeType
    BY <1>1, <1>2, <1>9, <1>0
  <2> QED  BY <2>1, <2>2, <2>3, Zenon DEF AppThread
<1> QED
  BY <1>12, <1>13

\* The state of the runtime keeps its type in the steps of the framework.
LEMMA RuntimeTyped ==
    ASSUME TypeInv, Step
    PROVE  /\ running' \in BOOLEAN /\ exiting' \in BOOLEAN
           /\ frame' \subseteq {"waited", "begun"} /\ image' \in {"free", "acquired", "waited"}
<1>1. running \in BOOLEAN /\ exiting \in BOOLEAN
      /\ frame \subseteq {"waited", "begun"} /\ image \in {"free", "acquired", "waited"}
  BY DEF TypeInv
<1>2. (Reading \/ Ticking \/ NewManager \/ Threading \/ Plain) =>
         UNCHANGED <<running, exiting, frame, image>>
  BY ReadingKeeps, TickingKeeps, NewManagerKeeps, ThreadingKeeps, PlainKeeps, Zenon DEF rtVars
<1>3. (Beginning \/ Ending) => UNCHANGED <<exiting, frame, image>> /\ (running' = running \/ running' = TRUE \/ running' = FALSE)
  <2>1. BeginSession => running' = running \/ running' = TRUE
    BY Zenon DEF BeginSession, Begin, Call, rtVars
  <2>2. TickBegins => running' = running \/ running' = TRUE
    BY Zenon DEF TickBegins, Begin, Call, rtVars
  <2>3. EndSession => running' = running \/ running' = FALSE
    BY Zenon DEF EndSession, Call, rtVars
  <2>4. EndEarly => running' = running \/ running' = FALSE
    BY Zenon DEF EndEarly
  <2> QED BY <2>1, <2>2, <2>3, <2>4, BeginningKeeps, EndingKeeps, Zenon DEF Beginning, Ending
<1>4. RequestExit => UNCHANGED <<running, frame, image>> /\ (exiting' = exiting \/ exiting' = TRUE)
  <2>1. RequestExit => exiting' = exiting \/ exiting' = TRUE
    BY Zenon DEF RequestExit, Call, rtVars
  <2> QED BY <2>1, RequestExitKeeps, Zenon
<1>5. Framing => UNCHANGED <<running, exiting>>
  BY FramingKeeps, Zenon
<1>6. Framing => frame' \subseteq {"waited", "begun"} /\ image' \in {"free", "acquired", "waited"}
  <2>1. WaitFrame => (frame' = frame \/ frame' = frame \cup {"waited"}) /\ image' = image
    BY Zenon DEF WaitFrame, Call, rtVars
  <2>2. BeginFrame => (frame' = frame \/ frame' = {"begun"}) /\ image' = image
    BY Zenon DEF BeginFrame, Call, rtVars
  <2>3. AcquireImage => frame' = frame /\ (image' = image \/ image' = "acquired")
    BY Zenon DEF AcquireImage, Call, rtVars
  <2>4. WaitImage => frame' = frame /\ (image' = image \/ image' = "waited")
    BY Zenon DEF WaitImage, Call, rtVars
  <2>5. ReleaseImage => frame' = frame /\ (image' = image \/ image' = "free")
    BY Zenon DEF ReleaseImage, Call, rtVars
  <2>6. EndFrame => (frame' = frame \/ frame' = frame \ {"begun"}) /\ image' = image
    BY Zenon DEF EndFrame, Call, rtVars
  <2> QED BY <1>1, <2>1, <2>2, <2>3, <2>4, <2>5, <2>6 DEF Framing
<1>7. TRUE \in BOOLEAN /\ FALSE \in BOOLEAN
  BY Zenon
<1>8. running' \in BOOLEAN
  BY <1>1, <1>2, <1>3, <1>4, <1>5, <1>7, Zenon DEF Step
<1>9. exiting' \in BOOLEAN
  BY <1>1, <1>2, <1>3, <1>4, <1>5, <1>7, Zenon DEF Step
<1>10. frame' \subseteq {"waited", "begun"} /\ image' \in {"free", "acquired", "waited"}
  BY <1>1, <1>2, <1>3, <1>4, <1>6, Zenon DEF Step
<1> QED BY <1>8, <1>9, <1>10

\* Events and readers keep their types in the steps of the framework.
LEMMA EventsTyped ==
    ASSUME TypeInv, Step
    PROVE  /\ queue' \in Seq(Events) /\ raised' \in Seq(Events) /\ events' \in Seq(Events)
           /\ reader' \in [Readers -> Nat] /\ born' \in [Readers -> Nat]
           /\ seen' \in [Readers -> Seq(Events)] /\ sessionState' \in States
<1>1. /\ queue \in Seq(Events) /\ raised \in Seq(Events) /\ events \in Seq(Events)
      /\ reader \in [Readers -> Nat] /\ born \in [Readers -> Nat]
      /\ seen \in [Readers -> Seq(Events)] /\ sessionState \in States
  BY DEF TypeInv
<1>2. CASE Reading
  <2>1. raised' = raised /\ sessionState' \in States
    BY <1>2, ReadingKeeps, ReadingBelieves, Zenon
  <2>2. CASE \E r \in Readers, e \in Events : TryReadNext(r, e)
    BY <1>1, <2>1, <2>2, ReadsOne, Zenon
  <2>3. CASE \E r \in Readers : NothingToRead(r)
    BY <1>1, <2>1, <2>3, ReadsNone, Zenon
  <2> QED BY <1>2, <2>2, <2>3, ReadingReads DEF Read
<1>3. CASE Ticking
  <2>1. UNCHANGED <<raised, events, reader, seen, born>>
    BY <1>3, TickingKeeps, Zenon DEF readVars
  <2>2. queue' \in Seq(Events)
    <3>1. PICK n \in 0..Len(queue) : queue' = SubSeq(queue, n + 1, Len(queue))
      BY <1>3, TickingPolls
    <3>2. n + 1 \in Nat /\ n + 1 # 0 /\ Len(queue) \in Nat
      BY <1>1
    <3> QED  BY ONLY <1>1, <3>1, <3>2, SubSeqProperties
  <2> QED BY <1>1, <1>3, <2>1, <2>2, TickingPolls, Zenon
<1>4. CASE NewManager
  <2>1. UNCHANGED <<queue, raised, events, seen, sessionState>>
    BY <1>4, NewManagerKeeps, Zenon
  <2>2. reader' = [reader EXCEPT !["manager"] = Len(events) + 1] /\ born' = [born EXCEPT !["manager"] = Len(events)]
    BY <1>4 DEF NewManager, NewReader
  <2>4. Len(events) \in Nat /\ Len(events) + 1 \in Nat
    BY <1>1
  <2>3. reader' \in [Readers -> Nat] /\ born' \in [Readers -> Nat]
    BY <1>1, <2>2, <2>4, Zenon
  <2> QED BY <1>1, <2>1, <2>3, Zenon
<1>5. CASE Beginning \/ Ending \/ Framing \/ Threading \/ Plain \/ RequestExit
  <2>1. UNCHANGED <<queue, raised, events, reader, seen, born, sessionState>>
    BY <1>5, BeginningKeeps, EndingKeeps, FramingKeeps, ThreadingKeeps, PlainKeeps, RequestExitKeeps, Zenon DEF readVars
  <2> QED BY <1>1, <2>1, Zenon
<1> QED BY <1>2, <1>3, <1>4, <1>5 DEF Step

PlaceTypes == step \in 1..Len(Script[test])

\* The step stays within the script.
LEMMA MovesType ==
    ASSUME TypeInv, test' = test, Moves
    PROVE  step' \in 1..Len(Script'[test'])
<1>1. step \in 1..Len(Script[test]) /\ Len(Script[test]) \in Nat
  BY StepKind DEF TypeInv
<1>2. Script' = Script
  BY DEF Script
<1>3. Goes => step' = step
  BY Zenon DEF Goes, Goto
<1> QED
  BY <1>1, <1>2, <1>3 DEF Moves, Advances, Ends

\* Types: the steps of the framework.
LEMMA StepTyped ==
    ASSUME TypeInv, PlaceInv, Step
    PROVE  TypeInv'
<1>1. outcome = "none"
  BY StepOpen
<1>2. test' = test /\ graphics' = graphics /\ UNCHANGED <<session, device, state>>
  BY StepKeeps
<1>3. step' \in 1..Len(Script'[test'])
  BY <1>1, <1>2, MovesAre, MovesType
<1>4. pipe' \in PipeType
  <2>1. pipe \in PipeType
    BY DEF TypeInv, PipeType, Apps, Results
  <2>2. ~Threading => pipe' = pipe
    BY ReadingKeeps, TickingKeeps, NewManagerKeeps, BeginningKeeps, EndingKeeps, FramingKeeps,
       PlainKeeps, RequestExitKeeps, Zenon DEF Step
  <2> QED  BY <2>1, <2>2, PipeTyped
<1>5. /\ test \in DOMAIN Script /\ graphics \in BOOLEAN /\ state \in States
      /\ session \in {"none", "alive", "destroyed"} /\ device \in BOOLEAN
  BY DEF TypeInv
<1>6. test' \in DOMAIN Script'
  BY <1>2, <1>5 DEF Script
<1>7. running' \in BOOLEAN /\ exiting' \in BOOLEAN
      /\ frame' \subseteq {"waited", "begun"} /\ image' \in {"free", "acquired", "waited"}
  BY RuntimeTyped
<1> QED
  BY <1>2, <1>3, <1>4, <1>5, <1>6, <1>7, EventsTyped, Zenon DEF TypeInv, PipeType, Apps, Results

\* The variables of the type invariant.
typed == <<test, graphics, state, running, exiting, frame, image, queue, raised, events, reader,
           born, seen, sessionState, session, device, step, pipe>>

\* The scripts depend on no variable.
LEMMA ScriptStays == Script' = Script
  BY DEF Script

\* Types: the steps that change none of the typed variables.
LEMMA TypedKept ==
    ASSUME TypeInv, UNCHANGED typed
    PROVE  TypeInv'
<1>1. UNCHANGED <<test, graphics, state, running, exiting, frame, image, queue, raised>>
  BY DEF typed
<1>2. UNCHANGED <<events, reader, born, seen, sessionState, session, device, step, pipe>>
  BY DEF typed
<1>3. graphics' \in BOOLEAN /\ running' \in BOOLEAN /\ exiting' \in BOOLEAN /\ device' \in BOOLEAN
  BY <1>1, <1>2, Zenon DEF TypeInv
<1>4. /\ test' \in DOMAIN Script' /\ step' \in 1..Len(Script'[test']) /\ state' \in States'
       /\ frame' \subseteq {"waited", "begun"} /\ image' \in {"free", "acquired", "waited"}
       /\ sessionState' \in States' /\ session' \in {"none", "alive", "destroyed"}
  BY <1>1, <1>2, ScriptStays DEF TypeInv, States
<1>5. /\ queue' \in Seq(Events') /\ raised' \in Seq(Events') /\ events' \in Seq(Events')
       /\ reader' \in [Readers' -> Nat] /\ born' \in [Readers' -> Nat]
       /\ seen' \in [Readers' -> Seq(Events')]
       /\ pipe' \in [app : {"none", "wait", "queue", "signal", "done"}, left : Nat, queued : Nat,
                     completed : BOOLEAN, result : {"SUCCESS", "LOSS_PENDING", "FAILED"}]
  BY <1>1, <1>2, Zenon DEF TypeInv, States, Events, Readers
<1> QED
  BY ONLY <1>3, <1>4, <1>5, Zenon DEF TypeInv

\* Types: the creation of the session.
LEMMA CreateTyped ==
    ASSUME TypeInv, PlaceInv, Create
    PROVE  TypeInv'
<1>1. UNCHANGED <<test, graphics, state, running, exiting, frame, image, queue, raised, events,
                  seen, born, sessionState, pipe>>
  BY DEF Create, apart, constant, rtVars, exerciseVars
<1>2. outcome = "none"
  BY DEF Create, At
<1>3. session' \in {"none", "alive", "destroyed"} /\ device' \in BOOLEAN
  <2>1. (session' = session \/ session' = "alive") /\ (device' = device \/ device' = TRUE)
    BY Zenon DEF Create
  <2> QED  BY <2>1, Zenon DEF TypeInv
<1>4. reader' \in [Readers -> Nat]
  <2>1. reader' = reader \/ reader' = [reader EXCEPT !["private"] = 1]
    BY Zenon DEF Create
  <2>2. reader \in [Readers -> Nat] /\ 1 \in Nat
    BY DEF TypeInv
  <2> QED  BY <2>1, <2>2, Zenon
<1>5. step' \in 1..Len(Script'[test'])
  <2>1. Goto("session") \/ Done \/ Fail("create")
    BY Zenon DEF Create
  <2>2. Goto("session") => step' = step
    BY Zenon DEF Goto
  <2>3. step' = step \/ Advances \/ Ends
    BY <1>2, <2>1, <2>2, DoneMoves, FailOn, Zenon
  <2>4. step \in 1..Len(Script[test]) /\ Len(Script[test]) \in Nat /\ Script' = Script
    BY StepKind DEF TypeInv, Script
  <2> QED  BY <1>1, <2>3, <2>4 DEF Advances, Ends
<1>6. graphics' \in BOOLEAN /\ running' \in BOOLEAN /\ exiting' \in BOOLEAN /\ device' \in BOOLEAN
  BY <1>1, <1>3, <1>4, <1>5, Zenon DEF TypeInv
<1>7. /\ test' \in DOMAIN Script' /\ step' \in 1..Len(Script'[test']) /\ state' \in States'
       /\ frame' \subseteq {"waited", "begun"} /\ image' \in {"free", "acquired", "waited"}
       /\ sessionState' \in States' /\ session' \in {"none", "alive", "destroyed"}
  BY <1>1, <1>3, <1>4, <1>5, ScriptStays DEF TypeInv, States
<1>8. /\ queue' \in Seq(Events') /\ raised' \in Seq(Events') /\ events' \in Seq(Events')
       /\ reader' \in [Readers' -> Nat] /\ born' \in [Readers' -> Nat]
       /\ seen' \in [Readers' -> Seq(Events')]
       /\ pipe' \in [app : {"none", "wait", "queue", "signal", "done"}, left : Nat, queued : Nat,
                     completed : BOOLEAN, result : {"SUCCESS", "LOSS_PENDING", "FAILED"}]
  BY <1>1, <1>3, <1>4, <1>5, Zenon DEF TypeInv, States, Events, Readers
<1> QED
  BY ONLY <1>6, <1>7, <1>8, Zenon DEF TypeInv

\* Raising an event.
LEMMA RaiseTyped ==
    ASSUME TypeInv, NEW e \in Events, Raise(e)
    PROVE  /\ queue' = Append(queue, e) /\ queue' \in Seq(Events)
           /\ raised' = Append(raised, e) /\ raised' \in Seq(Events)
  BY DEF TypeInv, Raise

\* Types: a change of state.
LEMMA RuntimeChangesTyped ==
    ASSUME TypeInv, NEW s \in States, RuntimeChanges(s)
    PROVE  TypeInv'
<1>1. UNCHANGED <<test, graphics, running, exiting, frame, image, events, reader, seen, born,
                  sessionState, session, device, step, pipe>> /\ state' = s
  BY Zenon DEF RuntimeChanges, Life!Change, apart, constant, readVars, endVars, exerciseVars
<1>2. queue' \in Seq(Events)
  BY RaiseTyped DEF RuntimeChanges, Events
<1>3. raised' \in Seq(Events)
  BY RaiseTyped DEF RuntimeChanges, Events
<1>4. state' \in States
  BY <1>1
<1>5. graphics' \in BOOLEAN /\ running' \in BOOLEAN /\ exiting' \in BOOLEAN /\ device' \in BOOLEAN
  BY <1>1, <1>2, <1>3, <1>4, Zenon DEF TypeInv
<1>6. /\ test' \in DOMAIN Script' /\ step' \in 1..Len(Script'[test']) /\ state' \in States'
       /\ frame' \subseteq {"waited", "begun"} /\ image' \in {"free", "acquired", "waited"}
       /\ sessionState' \in States' /\ session' \in {"none", "alive", "destroyed"}
  BY <1>1, <1>2, <1>3, <1>4, ScriptStays DEF TypeInv, States
<1>7. /\ queue' \in Seq(Events') /\ raised' \in Seq(Events') /\ events' \in Seq(Events')
       /\ reader' \in [Readers' -> Nat] /\ born' \in [Readers' -> Nat]
       /\ seen' \in [Readers' -> Seq(Events')]
       /\ pipe' \in [app : {"none", "wait", "queue", "signal", "done"}, left : Nat, queued : Nat,
                     completed : BOOLEAN, result : {"SUCCESS", "LOSS_PENDING", "FAILED"}]
  BY <1>1, <1>2, <1>3, <1>4, Zenon DEF TypeInv, States, Events, Readers
<1> QED
  BY ONLY <1>5, <1>6, <1>7, Zenon DEF TypeInv

\* Types: a change of interaction profile.
LEMMA ProfileChangesTyped ==
    ASSUME TypeInv, ProfileChanges
    PROVE  TypeInv'
<1>1. UNCHANGED <<test, graphics, state, running, exiting, frame, image, events, reader, seen, born,
                  sessionState, session, device, step, pipe>>
  BY DEF ProfileChanges, apart, constant, rtVars, readVars, endVars, exerciseVars
<1>2. queue' \in Seq(Events)
  BY RaiseTyped DEF ProfileChanges, Events
<1>3. raised' \in Seq(Events)
  BY RaiseTyped DEF ProfileChanges, Events
<1>4. graphics' \in BOOLEAN /\ running' \in BOOLEAN /\ exiting' \in BOOLEAN /\ device' \in BOOLEAN
  BY <1>1, <1>2, <1>3, Zenon DEF TypeInv
<1>5. /\ test' \in DOMAIN Script' /\ step' \in 1..Len(Script'[test']) /\ state' \in States'
       /\ frame' \subseteq {"waited", "begun"} /\ image' \in {"free", "acquired", "waited"}
       /\ sessionState' \in States' /\ session' \in {"none", "alive", "destroyed"}
  BY <1>1, <1>2, <1>3, ScriptStays DEF TypeInv, States
<1>6. /\ queue' \in Seq(Events') /\ raised' \in Seq(Events') /\ events' \in Seq(Events')
       /\ reader' \in [Readers' -> Nat] /\ born' \in [Readers' -> Nat]
       /\ seen' \in [Readers' -> Seq(Events')]
       /\ pipe' \in [app : {"none", "wait", "queue", "signal", "done"}, left : Nat, queued : Nat,
                     completed : BOOLEAN, result : {"SUCCESS", "LOSS_PENDING", "FAILED"}]
  BY <1>1, <1>2, <1>3, Zenon DEF TypeInv, States, Events, Readers
<1> QED
  BY ONLY <1>4, <1>5, <1>6, Zenon DEF TypeInv

\* Types: the destruction of the session.
LEMMA DestroySessionTyped ==
    ASSUME TypeInv, DestroySession
    PROVE  TypeInv'
<1>1. UNCHANGED <<test, graphics, state, running, exiting, frame, image, raised, events, reader, seen,
                  born, sessionState, device, step, pipe>>
  BY DEF DestroySession, apart, constant, rtVars, readVars, exerciseVars, Goto
<1>2. queue' \in Seq(Events) /\ session' \in {"none", "alive", "destroyed"}
  <2>1. queue' = <<>> /\ session' = IF session = "alive" THEN "destroyed" ELSE session
    BY Zenon DEF DestroySession
  <2> QED  BY <2>1 DEF TypeInv
<1>3. graphics' \in BOOLEAN /\ running' \in BOOLEAN /\ exiting' \in BOOLEAN /\ device' \in BOOLEAN
  BY <1>1, <1>2, Zenon DEF TypeInv
<1>4. /\ test' \in DOMAIN Script' /\ step' \in 1..Len(Script'[test']) /\ state' \in States'
       /\ frame' \subseteq {"waited", "begun"} /\ image' \in {"free", "acquired", "waited"}
       /\ sessionState' \in States' /\ session' \in {"none", "alive", "destroyed"}
  BY <1>1, <1>2, ScriptStays DEF TypeInv, States
<1>5. /\ queue' \in Seq(Events') /\ raised' \in Seq(Events') /\ events' \in Seq(Events')
       /\ reader' \in [Readers' -> Nat] /\ born' \in [Readers' -> Nat]
       /\ seen' \in [Readers' -> Seq(Events')]
       /\ pipe' \in [app : {"none", "wait", "queue", "signal", "done"}, left : Nat, queued : Nat,
                     completed : BOOLEAN, result : {"SUCCESS", "LOSS_PENDING", "FAILED"}]
  BY <1>1, <1>2, Zenon DEF TypeInv, States, Events, Readers
<1> QED
  BY ONLY <1>3, <1>4, <1>5, Zenon DEF TypeInv

\* Types: the shutdown of the device.
LEMMA ShutdownDeviceTyped ==
    ASSUME TypeInv, ShutdownDevice
    PROVE  TypeInv'
<1>1. UNCHANGED <<test, graphics, state, running, exiting, frame, image, queue, raised, events, seen,
                  born, session, step, pipe>>
  BY DEF ShutdownDevice, apart, constant, rtVars, exerciseVars, Goto
<1>2. device' = FALSE /\ reader' \in [Readers -> Nat] /\ sessionState' \in States
  BY DEF ShutdownDevice, States
<1>3. device' \in BOOLEAN
  BY <1>2, Zenon
<1>4. graphics' \in BOOLEAN /\ running' \in BOOLEAN /\ exiting' \in BOOLEAN /\ device' \in BOOLEAN
  BY <1>1, <1>2, <1>3, Zenon DEF TypeInv
<1>5. /\ test' \in DOMAIN Script' /\ step' \in 1..Len(Script'[test']) /\ state' \in States'
       /\ frame' \subseteq {"waited", "begun"} /\ image' \in {"free", "acquired", "waited"}
       /\ sessionState' \in States' /\ session' \in {"none", "alive", "destroyed"}
  BY <1>1, <1>2, <1>3, ScriptStays DEF TypeInv, States
<1>6. /\ queue' \in Seq(Events') /\ raised' \in Seq(Events') /\ events' \in Seq(Events')
       /\ reader' \in [Readers' -> Nat] /\ born' \in [Readers' -> Nat]
       /\ seen' \in [Readers' -> Seq(Events')]
       /\ pipe' \in [app : {"none", "wait", "queue", "signal", "done"}, left : Nat, queued : Nat,
                     completed : BOOLEAN, result : {"SUCCESS", "LOSS_PENDING", "FAILED"}]
  BY <1>1, <1>2, <1>3, Zenon DEF TypeInv, States, Events, Readers
<1> QED
  BY ONLY <1>4, <1>5, <1>6, Zenon DEF TypeInv

\* What appThread leaves alone.
LEMMA AppThreadKeeps ==
    AppThread => UNCHANGED <<constant, exerciseVars, queue, raised, readVars, sessionState, endVars,
                             state, running, exiting, presented, image, step, pc, late, outcome>>
<1>1. AppWaitsFrame => UNCHANGED <<constant, exerciseVars, queue, raised, readVars, sessionState, endVars,
                             state, running, exiting, presented, image, step, pc, late, outcome>>
  BY DEF AppWaitsFrame, Same
<1>2. AppQueuesFrame \/ SignalNoMoreFrames =>
                UNCHANGED <<constant, exerciseVars, queue, raised, readVars, sessionState, endVars,
                             state, running, exiting, presented, image, step, pc, late, outcome>>
  BY DEF AppQueuesFrame, SignalNoMoreFrames, Same, rtVars
<1> QED
  BY <1>1, <1>2, Zenon DEF AppThread

\* Types: appThread.
LEMMA AppThreadTyped ==
    ASSUME TypeInv, AppThread
    PROVE  TypeInv'
<1>1. UNCHANGED <<test, graphics, state, running, exiting, image, queue, raised, events, reader, seen,
                  born, sessionState, session, device, step>>
  BY AppThreadKeeps, Zenon DEF constant, readVars, endVars
<1>2. frame' = frame \/ frame' = frame \cup {"waited"}
  BY Zenon DEF AppThread, AppWaitsFrame, AppQueuesFrame, SignalNoMoreFrames, rtVars
<1>3. frame' \subseteq {"waited", "begun"}
  BY <1>2 DEF TypeInv
<1> QED
  BY <1>1, <1>3, PipeTyped, ScriptStays, Zenon DEF TypeInv, PipeType, Apps, Results

\* What the workers leave alone.
LEMMA WorkerKeeps ==
    Worker => UNCHANGED <<constant, pipe, rtVars, queue, raised, readVars, sessionState, endVars,
                          step, late>>
  BY Zenon DEF Worker, NotThreads

\* Types: the other steps.
LEMMA RestTyped ==
    ASSUME TypeInv, Worker \/ DeadlinePasses \/ LeaveBehind \/ UNCHANGED vars
    PROVE  TypeInv'
<1>1. Worker => UNCHANGED typed
  BY WorkerKeeps DEF typed, constant, rtVars, readVars, endVars
<1>2. DeadlinePasses => UNCHANGED typed
  BY DEF DeadlinePasses, typed, apart, constant, rtVars, readVars, endVars, exerciseVars
<1>3. LeaveBehind => UNCHANGED typed
  BY DEF LeaveBehind, typed, apart, constant, rtVars, readVars, endVars, exerciseVars, Goto
<1>4. UNCHANGED vars => UNCHANGED typed
  BY DEF vars, typed, apart, constant, rtVars, readVars, endVars, exerciseVars
<1> QED
  BY <1>1, <1>2, <1>3, <1>4, TypedKept

\* A step that moves as it should stays at places of its script.
LEMMA MovesPlace ==
    ASSUME TypeInv, PlaceInv, outcome = "none", test' = test, Moves
    PROVE  PlaceInv'
<1>1. CASE Goes
  <2>1. PICK l \in PlacesOf(doing[1]) \ {"session"} : Goto(l)
    BY <1>1, Zenon DEF Goes
  <2>2. pc' = l /\ step' = step /\ outcome' = outcome
    BY <2>1 DEF Goto
  <2>3. doing' = doing
    BY <2>2, ScriptStays, Zenon DEF doing
  <2>4. \A k : PlacesOf(k)' = PlacesOf(k)
    BY Zenon DEF PlacesOf, FramePlaces
  <2> QED  BY <2>1, <2>2, <2>3, Zenon DEF PlaceInv
<1>2. CASE Advances
  <2>1. pc' = "top" /\ outcome' = "none"
    BY <1>2 DEF Advances
  <2> QED  BY <2>1, PlacesAre, Zenon DEF PlaceInv
<1>3. CASE Ends
  BY <1>3 DEF Ends, PlaceInv
<1> QED  BY <1>1, <1>2, <1>3 DEF Moves

\* Places: the steps of the framework.
LEMMA StepPlace ==
    ASSUME TypeInv, PlaceInv, Step
    PROVE  PlaceInv'
<1>1. test' = test
  BY StepKeeps
<1> QED
  BY <1>1, StepOpen, MovesAre, MovesPlace

\* Places: the creation of the session.
LEMMA CreatePlace ==
    ASSUME TypeInv, PlaceInv, Create
    PROVE  PlaceInv'
<1>1. test' = test /\ outcome = "none" /\ doing[1] = "create"
  BY DEF Create, At, apart, constant
<1>2. Goto("session") \/ Done \/ Fail("create")
  BY Zenon DEF Create
<1>3. CASE Goto("session")
  <2>1. pc' = "session" /\ step' = step /\ outcome' = outcome
    BY <1>3 DEF Goto
  <2>2. doing' = doing
    BY <1>1, <2>1, ScriptStays, Zenon DEF doing
  <2> QED  BY <1>1, <2>1, <2>2, PlacesAre, Zenon DEF PlaceInv
<1>4. CASE Done \/ Fail("create")
  <2>1. Advances \/ Ends
    BY <1>1, <1>4, DoneMoves, FailOn
  <2>2. CASE Advances
    <3>1. pc' = "top" /\ outcome' = "none"
      BY <2>2 DEF Advances
    <3> QED  BY <3>1, PlacesAre, Zenon DEF PlaceInv
  <2>3. CASE Ends
    BY <2>3 DEF Ends, PlaceInv
  <2> QED  BY <2>1, <2>2, <2>3
<1> QED  BY <1>2, <1>3, <1>4

\* Places: the steps that stay there.
LEMMA PlaceKept ==
    ASSUME PlaceInv, UNCHANGED <<test, step, pc, outcome>>
    PROVE  PlaceInv'
<1>1. doing' = doing
  BY ScriptStays, Zenon DEF doing
<1> QED  BY <1>1, Zenon DEF PlaceInv

\* Places: the other steps.
LEMMA RestPlace ==
    ASSUME PlaceInv,
           \/ DestroySession \/ ShutdownDevice \/ LeaveBehind \/ AppThread \/ Worker \/ DeadlinePasses
           \/ ProfileChanges \/ UNCHANGED vars \/ \E s \in States : RuntimeChanges(s)
    PROVE  PlaceInv'
<1>1. ASSUME DestroySession PROVE PlaceInv'
  <2>1. pc = "destroy" /\ pc' = "device" /\ outcome' = outcome
    BY <1>1 DEF DestroySession, Goto
  <2>2. outcome # "none"
    BY <2>1, PlacesOnly DEF PlaceInv
  <2> QED  BY <2>1, <2>2 DEF PlaceInv
<1>2. ASSUME ShutdownDevice \/ LeaveBehind PROVE PlaceInv'
  <2>1. pc \in {"destroy", "device"} /\ pc' = "gone" /\ outcome' = outcome
    BY <1>2 DEF ShutdownDevice, LeaveBehind, Goto
  <2>2. outcome # "none"
    BY <2>1, PlacesOnly DEF PlaceInv
  <2> QED  BY <2>1, <2>2 DEF PlaceInv
<1>3. ASSUME Worker PROVE PlaceInv'
  <2>1. UNCHANGED <<test, step>>
    BY <1>3, WorkerKeeps, Zenon DEF constant
  <2>2. UNCHANGED <<pc, outcome>> \/ (outcome' = "crashed" /\ pc' = "gone")
    BY <1>3, Zenon DEF Worker
  <2>3. CASE UNCHANGED <<pc, outcome>>
    BY <2>1, <2>3, PlaceKept
  <2>4. CASE outcome' = "crashed" /\ pc' = "gone"
    BY <2>4 DEF PlaceInv
  <2> QED  BY <2>2, <2>3, <2>4
<1>4. ASSUME AppThread PROVE PlaceInv'
  <2>1. UNCHANGED <<test, step, pc, outcome>>
    BY <1>4, AppThreadKeeps, Zenon DEF constant
  <2> QED  BY <2>1, PlaceKept
<1>5. ASSUME DeadlinePasses \/ ProfileChanges PROVE PlaceInv'
  <2>1. UNCHANGED <<test, step, pc, outcome>>
    BY <1>5 DEF DeadlinePasses, ProfileChanges, apart, constant
  <2> QED  BY <2>1, PlaceKept
<1>6. ASSUME UNCHANGED vars PROVE PlaceInv'
  <2>1. UNCHANGED <<test, step, pc, outcome>>
    BY <1>6 DEF vars, apart, constant
  <2> QED  BY <2>1, PlaceKept
<1>7. ASSUME NEW s \in States, RuntimeChanges(s) PROVE PlaceInv'
  <2>1. UNCHANGED <<test, step, pc, outcome>>
    BY <1>7 DEF RuntimeChanges, apart, constant
  <2> QED  BY <2>1, PlaceKept
<1> QED
  BY <1>1, <1>2, <1>3, <1>4, <1>5, <1>6, <1>7, Zenon

\* Where each script creates and begins the session and where it makes the manager.
LEMMA Places ==
    \A t \in DOMAIN Script :
        /\ CreateAt[t] \in Nat /\ BeginAt[t] \in Nat /\ ManagerAt[t] \in Nat
        /\ CreateAt[t] < BeginAt[t] /\ CreateAt[t] < ManagerAt[t]
        /\ t \in Helpers => CreateAt[t] = 1
        /\ t = "helper" => BeginAt[t] = 4 /\ ManagerAt[t] = 5
        /\ t = "manager" => BeginAt[t] = 5 /\ ManagerAt[t] = 3
        /\ t = "iterated" => BeginAt[t] = 3
        /\ t = "by_hand" => BeginAt[t] = 4
        /\ t \notin {"helper", "manager"} => ManagerAt[t] = 20
<1> SUFFICES ASSUME NEW t \in {"focused", "by_hand", "iterated", "helper", "manager", "cycle",
                               "pipelined", "threads"}
             PROVE
        /\ CreateAt[t] \in Nat /\ BeginAt[t] \in Nat /\ ManagerAt[t] \in Nat
        /\ CreateAt[t] < BeginAt[t] /\ CreateAt[t] < ManagerAt[t]
        /\ t \in Helpers => CreateAt[t] = 1
        /\ t = "helper" => BeginAt[t] = 4 /\ ManagerAt[t] = 5
        /\ t = "manager" => BeginAt[t] = 5 /\ ManagerAt[t] = 3
        /\ t = "iterated" => BeginAt[t] = 3
        /\ t = "by_hand" => BeginAt[t] = 4
        /\ t \notin {"helper", "manager"} => ManagerAt[t] = 20
  BY Scripts, Zenon
<1>1. CreateAt[t] \in {1, 4} /\ (t # "threads" => CreateAt[t] = 1) /\ (t = "threads" => CreateAt[t] = 4)
  BY DEF CreateAt
<1>2. BeginAt[t] \in {3, 4, 5, 6} /\ (t = "threads" => BeginAt[t] = 6)
  BY DEF BeginAt
<1>3. t = "helper" => BeginAt[t] = 4 /\ ManagerAt[t] = 5
  BY DEF BeginAt, ManagerAt
<1>4. t = "manager" => BeginAt[t] = 5 /\ ManagerAt[t] = 3
  BY DEF BeginAt, ManagerAt
<1>5. (t = "iterated" => BeginAt[t] = 3) /\ (t = "by_hand" => BeginAt[t] = 4)
  BY DEF BeginAt
<1>6. t \notin {"helper", "manager"} => ManagerAt[t] = 20
  BY DEF ManagerAt
<1>7. t \in Helpers => t # "threads"
  BY DEF Helpers
<1> QED  BY <1>1, <1>2, <1>3, <1>4, <1>5, <1>6, <1>7

\* Session and device: the steps of the framework.
LEMMA StepSession ==
    ASSUME TypeInv, PlaceInv, SessionInv, Step
    PROVE  SessionInv'
<1>1. outcome = "none" /\ Moves
  BY StepOpen, MovesAre
<1>2. UNCHANGED <<test, session, device>>
  BY StepKeeps
<1>3. step \in Nat /\ CreateAt[test] \in Nat /\ CreateAt' = CreateAt
  BY Places, StepKind DEF TypeInv, CreateAt
<1>4. IF step > CreateAt[test] THEN session = "alive" ELSE session = "none"
  BY <1>1 DEF SessionInv
<1>5. session = "alive" => device
  BY DEF SessionInv, DeviceOutlivesSession
<1>6. CASE Goes
  <2>1. PICK l \in PlacesOf(doing[1]) \ {"session"} : Goto(l)
    BY <1>6, Zenon DEF Goes
  <2>2. pc' = l /\ step' = step /\ outcome' = outcome
    BY <2>1 DEF Goto
  <2>3. l \notin {"session", "destroy", "device", "gone"}
    BY <2>1, PlacesOnly
  <2> QED  BY <1>1, <1>2, <1>3, <1>4, <1>5, <2>2, <2>3 DEF SessionInv, DeviceOutlivesSession, CleanedUp
<1>7. CASE Advances /\ step # CreateAt[test]
  BY <1>1, <1>2, <1>3, <1>4, <1>5, <1>7 DEF Advances, SessionInv, DeviceOutlivesSession, CleanedUp
<1>8. CASE Ends
  BY <1>1, <1>2, <1>5, <1>8 DEF Ends, SessionInv, DeviceOutlivesSession, CleanedUp
<1> QED  BY <1>1, <1>6, <1>7, <1>8 DEF Moves

\* Session and device: their creation.
LEMMA CreateSession ==
    ASSUME TypeInv, PlaceInv, SessionInv, Create
    PROVE  SessionInv'
<1>1. outcome = "none" /\ doing[1] = "create" /\ test' = test
  BY DEF Create, At, apart, constant
<1>2. step = CreateAt[test] /\ step \in Nat /\ CreateAt' = CreateAt
  BY <1>1, StepKind, Places DEF Scripted, TypeInv, CreateAt
<1>3. session = "none"
  BY <1>1, <1>2 DEF SessionInv
<1>4. \/ pc = "top" /\ device' = TRUE /\ Goto("session") /\ session' = session
      \/ pc = "session" /\ device' = device /\ session' = "alive" /\ Done
      \/ pc = "session" /\ device' = device /\ session' = session /\ Fail("create")
  BY Zenon DEF Create
<1>5. CASE pc = "top" /\ device' = TRUE /\ Goto("session") /\ session' = session
  BY <1>1, <1>2, <1>3, <1>5 DEF Goto, SessionInv, DeviceOutlivesSession, CleanedUp
<1>6. CASE pc = "session" /\ device' = device /\ session' = "alive" /\ Done
  <2>1. device' = TRUE
    BY <1>6 DEF SessionInv, TypeInv
  <2>2. Advances \/ Ends
    BY <1>1, <1>6, DoneMoves
  <2>3. CASE Advances
    BY <1>1, <1>2, <1>6, <2>1, <2>3 DEF Advances, SessionInv, DeviceOutlivesSession, CleanedUp
  <2>4. CASE Ends
    BY <1>1, <1>2, <1>6, <2>1, <2>4 DEF Ends, SessionInv, DeviceOutlivesSession, CleanedUp
  <2> QED  BY <2>2, <2>3, <2>4
<1>7. CASE pc = "session" /\ device' = device /\ session' = session /\ Fail("create")
  <2>1. Ends
    BY <1>7, FailOn
  <2> QED  BY <1>1, <1>3, <1>7, <2>1 DEF Ends, SessionInv, DeviceOutlivesSession, CleanedUp
<1> QED  BY <1>4, <1>5, <1>6, <1>7

\* Session and device: the steps that leave them alone.
LEMMA SessionKept ==
    ASSUME SessionInv, UNCHANGED <<test, step, pc, outcome, session, device>>
    PROVE  SessionInv'
<1>1. CreateAt' = CreateAt
  BY DEF CreateAt
<1> QED  BY <1>1, Zenon DEF SessionInv, DeviceOutlivesSession, CleanedUp

\* Session and device: their end, and the other steps.
LEMMA RestSession ==
    ASSUME TypeInv, PlaceInv, SessionInv,
           \/ DestroySession \/ ShutdownDevice \/ LeaveBehind \/ AppThread \/ Worker \/ DeadlinePasses
           \/ ProfileChanges \/ UNCHANGED vars \/ \E s \in States : RuntimeChanges(s)
    PROVE  SessionInv'
<1>1. ASSUME DestroySession PROVE SessionInv'
  <2>1. pc = "destroy" /\ pc' = "device" /\ outcome' = outcome
    BY <1>1 DEF DestroySession, Goto
  <2>2. outcome # "none"
    BY <2>1, PlacesOnly DEF PlaceInv
  <2>3. session' # "alive"
    BY <1>1 DEF DestroySession
  <2> QED  BY <2>1, <2>2, <2>3 DEF SessionInv, DeviceOutlivesSession, CleanedUp
<1>2. ASSUME ShutdownDevice PROVE SessionInv'
  <2>1. pc = "device" /\ pc' = "gone" /\ outcome' = outcome /\ device' = FALSE /\ session' = session
    BY <1>2 DEF ShutdownDevice, Goto
  <2>2. outcome # "none"
    BY <2>1, PlacesOnly DEF PlaceInv
  <2>3. session' # "alive"
    BY <2>1 DEF SessionInv
  <2> QED  BY <2>1, <2>2, <2>3 DEF SessionInv, DeviceOutlivesSession, CleanedUp
<1>3. ASSUME LeaveBehind PROVE SessionInv'
  <2>1. pc = "destroy" /\ pc' = "gone" /\ outcome' = outcome /\ UNCHANGED <<test, session, device>>
    BY <1>3 DEF LeaveBehind, Goto, apart, constant, endVars
  <2>2. test \in Helpers /\ outcome = "create"
    BY <1>3 DEF LeaveBehind, ConstructorThrew
  <2>3. Helpers' = Helpers
    BY DEF Helpers
  <2> QED  BY <2>1, <2>2, <2>3, Zenon DEF SessionInv, DeviceOutlivesSession, CleanedUp
<1>4. ASSUME Worker PROVE SessionInv'
  <2>1. UNCHANGED <<test, step, session, device>>
    BY <1>4, WorkerKeeps, Zenon DEF constant, endVars
  <2>2. UNCHANGED <<pc, outcome>> \/ (outcome' = "crashed" /\ pc' = "gone")
    BY <1>4, Zenon DEF Worker
  <2>3. CASE UNCHANGED <<pc, outcome>>
    BY <2>1, <2>3, SessionKept
  <2>4. CASE outcome' = "crashed" /\ pc' = "gone"
    BY <2>1, <2>4 DEF SessionInv, DeviceOutlivesSession, CleanedUp
  <2> QED  BY <2>2, <2>3, <2>4
<1>5. ASSUME AppThread PROVE SessionInv'
  <2>1. UNCHANGED <<test, step, pc, outcome, session, device>>
    BY <1>5, AppThreadKeeps, Zenon DEF constant, endVars
  <2> QED  BY <2>1, SessionKept
<1>6. ASSUME DeadlinePasses \/ ProfileChanges PROVE SessionInv'
  <2>1. UNCHANGED <<test, step, pc, outcome, session, device>>
    BY <1>6 DEF DeadlinePasses, ProfileChanges, apart, constant, endVars
  <2> QED  BY <2>1, SessionKept
<1>7. ASSUME UNCHANGED vars PROVE SessionInv'
  <2>1. UNCHANGED <<test, step, pc, outcome, session, device>>
    BY <1>7 DEF vars, apart, constant, endVars
  <2> QED  BY <2>1, SessionKept
<1>8. ASSUME NEW s \in States, RuntimeChanges(s) PROVE SessionInv'
  <2>1. UNCHANGED <<test, step, pc, outcome, session, device>>
    BY <1>8 DEF RuntimeChanges, apart, constant, endVars
  <2> QED  BY <2>1, SessionKept
<1> QED
  BY <1>1, <1>2, <1>3, <1>4, <1>5, <1>6, <1>7, <1>8, Zenon

\* Append of an event, place by place and as a set.
LEMMA Appended ==
    ASSUME NEW s \in Seq(Events), NEW e \in Events
    PROVE  /\ Len(Append(s, e)) = Len(s) + 1 /\ Len(s) \in Nat
           /\ DOMAIN s = 1..Len(s) /\ DOMAIN Append(s, e) = 1..(Len(s) + 1)
           /\ \A i \in 1..Len(s) : Append(s, e)[i] = s[i]
           /\ Append(s, e)[Len(s) + 1] = e
           /\ \A x : x \in ToSet(Append(s, e)) <=> x \in ToSet(s) \/ x = e
<1>1. /\ Len(Append(s, e)) = Len(s) + 1 /\ Len(s) \in Nat
      /\ DOMAIN s = 1..Len(s) /\ DOMAIN Append(s, e) = 1..(Len(s) + 1)
      /\ \A i \in 1..Len(s) : Append(s, e)[i] = s[i]
      /\ Append(s, e)[Len(s) + 1] = e
  OBVIOUS
<1>2. \A x : x \in ToSet(Append(s, e)) <=> x \in ToSet(s) \/ x = e
  <2> DEFINE u == Append(s, e)
  <2>1. DOMAIN u = DOMAIN s \cup {Len(s) + 1}
    BY <1>1
  <2>2. (\A i \in DOMAIN s : u[i] = s[i]) /\ u[Len(s) + 1] = e
    BY <1>1
  <2> HIDE DEF u
  <2>3. ToSet(u) = {u[i] : i \in DOMAIN u} /\ ToSet(s) = {s[i] : i \in DOMAIN s}
    BY Zenon DEF ToSet
  <2>4. \A x : x \in ToSet(u) <=> x \in ToSet(s) \/ x = e
    BY <2>1, <2>2, <2>3
  <2> QED  BY <2>4 DEF u
<1> QED  BY <1>1, <1>2

\* Events: the steps that leave them alone.
LEMMA EventKept ==
    ASSUME EventInv, UNCHANGED <<session, state, raised, queue, events>>
    PROVE  EventInv'
  BY Zenon DEF EventInv

\* Events: the steps of the framework.
LEMMA StepEvents ==
    ASSUME TypeInv, PlaceInv, EventInv, Step
    PROVE  EventInv'
<1>1. UNCHANGED <<session, state, raised>>
  BY StepKeeps
<1>2. CASE Reading
  <2>1. events' = events \o queue /\ queue' = <<>>
    BY <1>2, ReadingReads, ReadsOne, ReadsNone, Zenon DEF Read
  <2>2. session = "none" => events' = <<>>
    BY <2>1 DEF EventInv
  <2> QED  BY <1>1, <2>1, <2>2 DEF EventInv
<1>3. CASE Ticking
  <2>1. events' = events
    BY <1>3, TickingKeeps, Zenon DEF readVars
  <2>2. PICK n \in 0..Len(queue) : queue' = SubSeq(queue, n + 1, Len(queue))
    BY <1>3, TickingPolls
  <2>3. queue = <<>> => queue' = <<>>
    BY <2>2
  <2> QED  BY <1>1, <2>1, <2>3 DEF EventInv
<1>4. CASE ~Reading /\ ~Ticking
  <2>1. UNCHANGED <<queue, events>>
    BY <1>4, NewManagerKeeps, BeginningKeeps, EndingKeeps, FramingKeeps,
       ThreadingKeeps, PlainKeeps, RequestExitKeeps, Zenon DEF Step, readVars
  <2> QED  BY <1>1, <2>1, EventKept
<1> QED  BY <1>2, <1>3, <1>4

\* Events: the creation of the session.
LEMMA CreateEvents ==
    ASSUME TypeInv, EventInv, Create
    PROVE  EventInv'
<1>1. UNCHANGED <<state, raised, queue, events>>
  BY DEF Create, rtVars
<1>2. session' = session \/ session' = "alive"
  BY Zenon DEF Create
<1> QED  BY <1>1, <1>2 DEF EventInv

\* Events: a change of state.
LEMMA RuntimeChangesEvents ==
    ASSUME TypeInv, EventInv, NEW s \in States, RuntimeChanges(s)
    PROVE  EventInv'
<1>1. session = "alive" /\ session' = session /\ state' = s /\ s # "UNKNOWN"
  BY DEF RuntimeChanges, Life!Change, Life!Rest, Life!Run, Willing, endVars
<1>2. raised' = Append(raised, s) /\ raised \in Seq(Events) /\ s \in Events
  BY RaiseTyped DEF RuntimeChanges, Events, TypeInv
<1>3. \A x : x \in ToSet(raised') <=> x \in ToSet(raised) \/ x = s
  BY <1>2, Appended
<1>4. raised'[Len(raised')] = s
  BY <1>2
<1> QED  BY <1>1, <1>3, <1>4 DEF EventInv

\* Events: a change of interaction profile.
LEMMA ProfileChangesEvents ==
    ASSUME TypeInv, EventInv, ProfileChanges
    PROVE  EventInv'
<1>1. session = "alive" /\ session' = session /\ state = "FOCUSED" /\ state' = state
  BY DEF ProfileChanges, rtVars, endVars
<1>2. raised' = Append(raised, "OTHER") /\ raised \in Seq(Events) /\ "OTHER" \in Events
  BY RaiseTyped DEF ProfileChanges, Events, TypeInv
<1>3. \A x : x \in ToSet(raised') <=> x \in ToSet(raised) \/ x = "OTHER"
  BY <1>2, Appended
<1> QED  BY <1>1, <1>3 DEF EventInv

\* Events: the other steps.
LEMMA RestEvents ==
    ASSUME TypeInv, EventInv,
           \/ DestroySession \/ ShutdownDevice \/ LeaveBehind \/ AppThread \/ Worker \/ DeadlinePasses
           \/ UNCHANGED vars
    PROVE  EventInv'
<1>1. CASE DestroySession
  <2>1. UNCHANGED <<state, raised, events>> /\ queue' = <<>>
        /\ session' = IF session = "alive" THEN "destroyed" ELSE session
    BY <1>1 DEF DestroySession, rtVars, readVars
  <2> QED  BY <2>1 DEF EventInv
<1>2. CASE Worker
  <2>1. UNCHANGED <<session, state, raised, queue, events>>
    BY <1>2, WorkerKeeps, Zenon DEF rtVars, readVars, endVars
  <2> QED  BY <2>1, EventKept
<1>3. CASE AppThread
  <2>1. UNCHANGED <<session, state, raised, queue, events>>
    BY <1>3, AppThreadKeeps, Zenon DEF readVars, endVars
  <2> QED  BY <2>1, EventKept
<1>4. CASE ShutdownDevice \/ LeaveBehind \/ DeadlinePasses \/ UNCHANGED vars
  <2>1. UNCHANGED <<session, state, raised, queue, events>>
    BY <1>4 DEF ShutdownDevice, LeaveBehind, DeadlinePasses, vars, rtVars, readVars, endVars
  <2> QED  BY <2>1, EventKept
<1> QED  BY <1>1, <1>2, <1>3, <1>4

\* The step "begin" begins the session and does nothing else.
LEMMA BeginOnly ==
    ASSUME PlaceInv, Step, doing[1] = "begin"
    PROVE  BeginSession
<1>1. pc = "top" \/ outcome # "none"
  BY PlacesOnly DEF PlaceInv
<1>2. outcome # "none" => pc \in {"destroy", "device", "gone"}
  BY DEF PlaceInv
<1>3. PollEvents => pc = "poll"
  BY DEF PollEvents
<1>4. WaitFrame => pc = "frame" \/ doing[1] \in {"focus", "sync"}
  BY Zenon DEF WaitFrame
<1>5. ~(BeginFrame \/ AcquireImage \/ WaitImage \/ ReleaseImage \/ EndFrame)
  BY <1>1, <1>2 DEF BeginFrame, AcquireImage, WaitImage, ReleaseImage, EndFrame
<1>6. ~(Setup \/ CreateLayers \/ SyncUntilFocus \/ RunTestEnvironment \/ StartAppThread \/ CheckResult
        \/ DequeueFrame \/ JoinAppThread \/ NewManager \/ RequestExit)
  BY DEF Setup, CreateLayers, SyncUntilFocus, RunTestEnvironment, StartAppThread, CheckResult,
     DequeueFrame, JoinAppThread, NewManager, RequestExit, At
<1>7. ~(EndSession \/ EndEarly \/ TickBegins \/ Tick \/ NextSessionState \/ AwaitReady \/ AwaitOwnReady
        \/ LookForFocus)
  BY DEF EndSession, EndEarly, TickBegins, Tick, NextSessionState, AwaitReady, AwaitOwnReady,
     LookForFocus, At
<1> QED
  BY <1>1, <1>2, <1>3, <1>4, <1>5, <1>6, <1>7
     DEF Step, Reading, Ticking, Beginning, Ending, Framing, Threading, Plain

\* Where the script begins the session.
LEMMA BeginsAt ==
    ASSUME TypeInv
    PROVE  /\ step \in Nat /\ BeginAt[test] \in Nat /\ BeginAt' = BeginAt
           /\ doing[1] = "begin" => step = BeginAt[test] /\ test # "iterated"
           /\ step = BeginAt[test] /\ test # "iterated" => doing[1] = "begin"
           /\ doing[1] \in {"exit", "end"} => step > BeginAt[test]
           /\ doing[1] = "run" => step > BeginAt[test]
                                  \/ (test = "iterated" /\ step = BeginAt[test])
                                  \/ (test = "by_hand" /\ doing[2] = "READY")
           /\ doing[1] = "end" /\ test # "cycle" => step = Len(Script[test])
           /\ doing[1] = "end_early" => test = "cycle"
           /\ test = "iterated" => step <= BeginAt[test] /\ BeginAt[test] = Len(Script[test])
<1>1. step \in Nat /\ BeginAt[test] \in Nat
  BY Places DEF TypeInv
<1>2. BeginAt' = BeginAt
  BY DEF BeginAt
<1>3. Scripted(test, step) /\ doing = Script[test][step]
  BY StepKind DEF doing
<1> QED
  BY <1>1, <1>2, <1>3, Places DEF Scripted, TypeInv

\* What has been raised, where nothing is.
LEMMA RaisedKept ==
    ASSUME RaisedInv, UNCHANGED <<running, exiting, state, raised>>
    PROVE  RaisedInv'
  BY Zenon DEF RaisedInv, ReadyTakenBack

\* Beginning the session.
LEMMA BeginningPhase ==
    ASSUME TypeInv, PlaceInv, EventInv, PhaseInv, Beginning
    PROVE  PhaseInv'
<1>1. outcome = "none" /\ Moves
  BY StepOpen, MovesAre DEF Step
<1>2. UNCHANGED <<test, state, exiting, raised>>
  BY BeginningKeeps, Zenon DEF constant
<1> SUFFICES ASSUME outcome' = "none", test # "cycle"
             PROVE  ScriptRuns' /\ RaisedInv'
  BY <1>2 DEF PhaseInv
<1>3. ScriptRuns /\ RaisedInv
  BY <1>1 DEF PhaseInv
<1>4. \/ BeginSession /\ Done
      \/ TickBegins /\ Goto("frame")
  <2>1. Fail("refused") \/ Fail("lost") => outcome' # "none"
    BY FailOn DEF Ends
  <2> QED  BY <2>1, Zenon DEF Beginning, BeginSession, TickBegins, Begin, Call
<1>5. running' = TRUE /\ state = "READY" /\ ~running
  <2>1. Fail("refused") \/ Fail("lost") => outcome' # "none"
    BY FailOn DEF Ends
  <2> QED  BY <2>1, Zenon DEF Beginning, BeginSession, TickBegins, Begin, Call
<1>6. ScriptRuns'
  <2>1. CASE BeginSession /\ Done
    <3>1. doing[1] = "begin"
      BY <2>1 DEF BeginSession, At
    <3>2. Advances
      BY <1>1, <2>1, DoneMoves DEF Ends
    <3> QED  BY <1>2, <1>5, <3>1, <3>2, BeginsAt DEF Advances, ScriptRuns
  <2>2. CASE TickBegins /\ Goto("frame")
    <3>1. doing[1] = "run" /\ pc = "begin"
      BY <2>2 DEF TickBegins, At
    <3>2. step' = step /\ pc' = "frame"
      BY <2>2 DEF Goto
    <3> QED  BY <1>2, <1>3, <1>5, <3>1, <3>2, BeginsAt DEF ScriptRuns
  <2> QED  BY <1>4, <2>1, <2>2
<1>7. RaisedInv'
  BY <1>2, <1>3, <1>5 DEF RaisedInv, ReadyTakenBack
<1> QED  BY <1>6, <1>7

\* The other steps: what runs, runs on.
LEMMA OtherPhase ==
    ASSUME TypeInv, PlaceInv, EventInv, PhaseInv, Step, ~Beginning
    PROVE  PhaseInv'
<1>1. outcome = "none" /\ Moves
  BY StepOpen, MovesAre
<1>2. UNCHANGED <<test, state, raised>>
  BY StepKeeps
<1> SUFFICES ASSUME outcome' = "none", test # "cycle"
             PROVE  ScriptRuns' /\ RaisedInv'
  BY <1>2 DEF PhaseInv
<1>3. ScriptRuns /\ RaisedInv
  BY <1>1 DEF PhaseInv
<1>4. ~Ending
  <2>1. EndEarly => test = "cycle"
    BY BeginsAt DEF EndEarly, At
  <2>2. ASSUME EndSession PROVE FALSE
    <3>1. doing[1] = "end"
      BY <2>2 DEF EndSession, At
    <3>2. Done \/ Ends
      BY <2>2, FailOn, Zenon DEF EndSession, Call
    <3>3. step = Len(Script[test])
      BY <3>1, BeginsAt
    <3> QED  BY <3>2, <3>3 DEF Done, Ends
  <2> QED  BY <2>1, <2>2 DEF Ending
<1>5. running' = running
  BY <1>4, ReadingKeeps, TickingKeeps, NewManagerKeeps, FramingKeeps,
     ThreadingKeeps, PlainKeeps, RequestExitKeeps, Zenon DEF Step, rtVars
<1>6. ScriptRuns'
  <2>1. CASE Goes
    <3>1. PICK l \in PlacesOf(doing[1]) \ {"session"} : Goto(l) /\ (l = "begin" => doing[2] # "READY")
      BY <2>1 DEF Goes
    <3>2. pc' = l /\ step' = step
      BY <3>1 DEF Goto
    <3>3. doing' = doing
      BY <1>2, <3>2, ScriptStays, Zenon DEF doing
    <3> QED  BY <1>2, <1>3, <1>5, <3>1, <3>2, <3>3, BeginsAt DEF ScriptRuns
  <2>2. CASE Advances
    <3>1. doing[1] # "begin"
      BY BeginOnly DEF Beginning
    <3> QED  BY <1>2, <1>3, <1>5, <2>2, <3>1, BeginsAt DEF Advances, ScriptRuns
  <2> QED  BY <1>1, <2>1, <2>2 DEF Moves, Ends
<1>7. RaisedInv'
  <2>1. CASE RequestExit
    <3>1. doing[1] = "exit"
      BY <2>1 DEF RequestExit, At
    <3>2. running
      BY <1>3, <3>1, BeginsAt DEF ScriptRuns
    <3> QED  BY <1>2, <1>3, <1>5, <3>2 DEF RaisedInv, ReadyTakenBack
  <2>2. CASE ~RequestExit
    <3>1. exiting' = exiting
      BY <1>4, <2>2, ReadingKeeps, TickingKeeps, NewManagerKeeps, FramingKeeps,
         ThreadingKeeps, PlainKeeps, Zenon DEF Step, rtVars
    <3> QED  BY <1>2, <1>3, <1>5, <3>1, RaisedKept
  <2> QED  BY <2>1, <2>2
<1> QED  BY <1>6, <1>7

\* That READY was taken back is never undone; IDLE after READY takes it back.
LEMMA TakenBackStays ==
    ASSUME raised \in Seq(Events), NEW e \in Events, raised' = Append(raised, e)
    PROVE  /\ ReadyTakenBack => ReadyTakenBack'
           /\ raised # <<>> /\ raised[Len(raised)] = "READY" /\ e = "IDLE" => ReadyTakenBack'
<1>1. /\ Len(raised') = Len(raised) + 1 /\ Len(raised) \in Nat
      /\ \A i \in 1..Len(raised) : raised'[i] = raised[i]
      /\ raised'[Len(raised) + 1] = e
  BY Appended
<1>2. ASSUME ReadyTakenBack PROVE ReadyTakenBack'
  <2>1. PICK i \in 2..Len(raised) : raised[i - 1] = "READY" /\ raised[i] = "IDLE"
    BY <1>2 DEF ReadyTakenBack
  <2>2. i \in 2..Len(raised') /\ i \in 1..Len(raised) /\ i - 1 \in 1..Len(raised)
    BY <1>1
  <2> QED  BY <1>1, <2>1, <2>2 DEF ReadyTakenBack
<1>3. ASSUME raised # <<>>, raised[Len(raised)] = "READY", e = "IDLE" PROVE ReadyTakenBack'
  <2> DEFINE n == Len(raised) + 1
  <2>1. n \in 2..Len(raised') /\ n - 1 = Len(raised) /\ n - 1 \in 1..Len(raised)
    BY <1>1, <1>3
  <2>2. raised'[n - 1] = "READY" /\ raised'[n] = "IDLE"
    BY <1>1, <1>3, <2>1
  <2> QED  BY <2>1, <2>2 DEF ReadyTakenBack
<1> QED  BY <1>2, <1>3

\* Only the last event may come after READY.
LEMMA OneMore ==
    ASSUME raised \in Seq(Events), NEW e \in Events, raised' = Append(raised, e),
           \A i, j \in DOMAIN raised : i < j /\ raised[i] = "READY" => raised[j] \notin {"READY", "IDLE"},
           e \in {"READY", "IDLE"} => "READY" \notin ToSet(raised)
    PROVE  \A i, j \in DOMAIN raised' : i < j /\ raised'[i] = "READY" => raised'[j] \notin {"READY", "IDLE"}
<1>1. /\ Len(raised) \in Nat /\ DOMAIN raised = 1..Len(raised) /\ DOMAIN raised' = 1..(Len(raised) + 1)
      /\ \A i \in 1..Len(raised) : raised'[i] = raised[i]
      /\ raised'[Len(raised) + 1] = e
  BY Appended
<1>2. \A i \in DOMAIN raised : raised[i] \in ToSet(raised)
  BY DEF ToSet
<1> SUFFICES ASSUME NEW i \in DOMAIN raised', NEW j \in DOMAIN raised', i < j, raised'[i] = "READY"
             PROVE  raised'[j] \notin {"READY", "IDLE"}
  OBVIOUS
<1>3. i \in DOMAIN raised /\ raised[i] = "READY"
  BY <1>1
<1>4. CASE j \in DOMAIN raised
  BY <1>1, <1>3, <1>4
<1>5. CASE j = Len(raised) + 1
  BY <1>1, <1>2, <1>3, <1>5
<1> QED  BY <1>1, <1>4, <1>5

\* The phases of the session: a change of state.
LEMMA RuntimeChangesPhase ==
    ASSUME TypeInv, EventInv, PhaseInv, NEW s \in States, RuntimeChanges(s)
    PROVE  PhaseInv'
<1>1. UNCHANGED <<test, running, exiting, step, pc, outcome>> /\ state' = s
  BY DEF RuntimeChanges, Life!Change, apart, constant
<1>2. raised' = Append(raised, s) /\ raised \in Seq(Events) /\ s \in Events
  BY RaiseTyped DEF RuntimeChanges, Events, TypeInv
<1>3. \A x : x \in ToSet(raised') <=> x \in ToSet(raised) \/ x = s
  BY <1>2, Appended
<1>4. s # state /\ (s = "EXITING" => exiting)
      /\ (s = "LOSS_PENDING" \/ (~running /\ Life!Rest(s)) \/ (running /\ Life!Run(s)))
  BY DEF RuntimeChanges, Willing, Life!Change
<1> SUFFICES ASSUME outcome = "none", test # "cycle"
             PROVE  ScriptRuns' /\ RaisedInv'
  BY <1>1 DEF PhaseInv
<1>5. ScriptRuns /\ RaisedInv
  BY DEF PhaseInv
<1>6. ScriptRuns'
  BY <1>1, <1>5, ScriptStays, BeginsAt, Zenon DEF ScriptRuns, doing
<1>7. ReadyTakenBack => ReadyTakenBack'
  BY <1>2, TakenBackStays
<1>8. CASE running
  <2>1. /\ s \in {"SYNCHRONIZED", "VISIBLE", "STOPPING", "FOCUSED", "LOSS_PENDING"}
        /\ state = "STOPPING" => s = "LOSS_PENDING" /\ state # "LOSS_PENDING"
    BY <1>4, <1>5, <1>8 DEF Life!Run, RaisedInv
  <2>2. "STOPPING" \in ToSet(raised') => state' \in {"STOPPING", "LOSS_PENDING"}
    BY <1>1, <1>3, <1>4, <1>5, <1>8, <2>1 DEF RaisedInv, Life!Run
  <2>3. \/ ReadyTakenBack'
        \/ \A i, j \in DOMAIN raised' : i < j /\ raised'[i] = "READY" => raised'[j] \notin {"READY", "IDLE"}
    BY <1>2, <1>5, <1>7, <2>1, OneMore DEF RaisedInv
  <2> QED  BY <1>1, <1>6, <1>8, <2>1, <2>2, <2>3 DEF RaisedInv
<1>9. CASE ~running
  <2>1. ~exiting /\ ToSet(raised) \subseteq {"IDLE", "READY", "LOSS_PENDING"}
        /\ ("READY" \in ToSet(raised) => ReadyTakenBack \/ state \in {"READY", "LOSS_PENDING"})
    BY <1>5, <1>9 DEF RaisedInv
  <2>2. state # "UNKNOWN" => state \in {"IDLE", "READY", "LOSS_PENDING"}
    BY <2>1 DEF EventInv
  <2>3. \/ s = "LOSS_PENDING"
        \/ s = "IDLE" /\ state \in {"UNKNOWN", "READY"}
        \/ s = "READY" /\ state = "IDLE"
    BY <1>4, <1>9, <2>1, <2>2 DEF Life!Rest
  <2>4. s = "IDLE" /\ state = "READY" => ReadyTakenBack'
    BY <1>2, TakenBackStays DEF EventInv, ToSet
  <2>5. "READY" \in ToSet(raised') => ReadyTakenBack' \/ state' \in {"READY", "LOSS_PENDING"}
    BY <1>1, <1>3, <1>7, <2>1, <2>3, <2>4 DEF EventInv, ToSet
  <2>6. \/ ReadyTakenBack'
        \/ \A i, j \in DOMAIN raised' : i < j /\ raised'[i] = "READY" => raised'[j] \notin {"READY", "IDLE"}
    <3>1. CASE ReadyTakenBack
      BY <1>7, <3>1
    <3>2. CASE ~ReadyTakenBack /\ ~(s = "IDLE" /\ state = "READY")
      <4>1. s \in {"READY", "IDLE"} => "READY" \notin ToSet(raised)
        BY <2>1, <2>3, <3>2
      <4> QED  BY <1>2, <1>5, <3>2, <4>1, OneMore DEF RaisedInv
    <3> QED  BY <2>4, <3>1, <3>2
  <2>7. ToSet(raised') \subseteq {"IDLE", "READY", "LOSS_PENDING"}
    BY <1>3, <2>1, <2>3
  <2> QED  BY <1>1, <1>6, <1>9, <2>1, <2>5, <2>6, <2>7 DEF RaisedInv
<1> QED  BY <1>8, <1>9

\* The phases of the session: a change of interaction profile.
LEMMA ProfileChangesPhase ==
    ASSUME TypeInv, EventInv, PhaseInv, ProfileChanges
    PROVE  PhaseInv'
<1>1. UNCHANGED <<test, running, exiting, step, pc, outcome, state>> /\ state = "FOCUSED"
  BY DEF ProfileChanges, apart, constant, rtVars
<1>2. raised' = Append(raised, "OTHER") /\ raised \in Seq(Events) /\ "OTHER" \in Events
  BY RaiseTyped DEF ProfileChanges, Events, TypeInv
<1>3. \A x : x \in ToSet(raised') <=> x \in ToSet(raised) \/ x = "OTHER"
  BY <1>2, Appended
<1> SUFFICES ASSUME outcome = "none", test # "cycle"
             PROVE  ScriptRuns' /\ RaisedInv'
  BY <1>1 DEF PhaseInv
<1>5. ScriptRuns /\ RaisedInv
  BY DEF PhaseInv
<1>6. ScriptRuns'
  BY <1>1, <1>5, ScriptStays, BeginsAt, Zenon DEF ScriptRuns, doing
<1>7. running
  BY <1>1, <1>5 DEF RaisedInv, EventInv
<1>8. ReadyTakenBack => ReadyTakenBack'
  BY <1>2, TakenBackStays
<1>9. \/ ReadyTakenBack'
      \/ \A i, j \in DOMAIN raised' : i < j /\ raised'[i] = "READY" => raised'[j] \notin {"READY", "IDLE"}
  BY <1>2, <1>5, <1>8, OneMore DEF RaisedInv
<1> QED  BY <1>1, <1>3, <1>5, <1>6, <1>7, <1>9 DEF RaisedInv

\* The phases of the session: the steps that leave it alone.
LEMMA PhaseKept ==
    ASSUME TypeInv, PhaseInv, UNCHANGED <<test, running, exiting, step, pc, outcome, state, raised>>
    PROVE  PhaseInv'
<1> SUFFICES ASSUME outcome = "none", test # "cycle"
             PROVE  ScriptRuns' /\ RaisedInv'
  BY DEF PhaseInv
<1>1. ScriptRuns /\ RaisedInv
  BY DEF PhaseInv
<1>2. ScriptRuns'
  BY <1>1, ScriptStays, BeginsAt, Zenon DEF ScriptRuns, doing
<1> QED  BY <1>1, <1>2, RaisedKept

\* The phases of the session: its creation.
LEMMA CreatePhase ==
    ASSUME TypeInv, PlaceInv, PhaseInv, Create
    PROVE  PhaseInv'
<1>1. UNCHANGED <<test, running, exiting, state, raised>> /\ outcome = "none" /\ doing[1] = "create"
  BY DEF Create, At, apart, constant, rtVars
<1>2. Goto("session") \/ Done \/ Fail("create")
  BY Zenon DEF Create
<1> SUFFICES ASSUME outcome' = "none", test # "cycle"
             PROVE  ScriptRuns' /\ RaisedInv'
  BY <1>1 DEF PhaseInv
<1>3. ScriptRuns /\ RaisedInv
  BY <1>1 DEF PhaseInv
<1>4. RaisedInv'
  BY <1>1, <1>3, RaisedKept
<1>5. (pc' = "session" /\ step' = step) \/ Advances
  BY <1>1, <1>2, DoneMoves, FailOn DEF Goto, Ends
<1>6. ScriptRuns'
  BY <1>1, <1>3, <1>5, BeginsAt DEF Advances, ScriptRuns
<1> QED  BY <1>4, <1>6

\* The phases of the session: the other steps.
LEMMA RestPhase ==
    ASSUME TypeInv, PlaceInv, PhaseInv,
           \/ DestroySession \/ ShutdownDevice \/ LeaveBehind \/ AppThread \/ Worker \/ DeadlinePasses
           \/ UNCHANGED vars
    PROVE  PhaseInv'
<1>1. CASE DestroySession \/ ShutdownDevice \/ LeaveBehind
  <2>1. pc \in {"destroy", "device"} /\ outcome' = outcome
    BY <1>1 DEF DestroySession, ShutdownDevice, LeaveBehind, Goto
  <2>2. outcome # "none"
    BY <2>1, PlacesOnly DEF PlaceInv
  <2> QED  BY <2>1, <2>2 DEF PhaseInv
<1>2. CASE Worker
  <2>1. UNCHANGED <<test, running, exiting, state, raised, step>>
    BY <1>2, WorkerKeeps, Zenon DEF rtVars, constant
  <2>2. UNCHANGED <<pc, outcome>> \/ outcome' = "crashed"
    BY <1>2, Zenon DEF Worker
  <2>3. CASE UNCHANGED <<pc, outcome>>
    BY <2>1, <2>3, PhaseKept
  <2>4. CASE outcome' = "crashed"
    BY <2>4 DEF PhaseInv
  <2> QED  BY <2>2, <2>3, <2>4
<1>3. CASE AppThread
  <2>1. UNCHANGED <<test, running, exiting, step, pc, outcome, state, raised>>
    BY <1>3, AppThreadKeeps, Zenon DEF constant
  <2> QED  BY <2>1, PhaseKept
<1>4. CASE DeadlinePasses \/ UNCHANGED vars
  <2>1. UNCHANGED <<test, running, exiting, step, pc, outcome, state, raised>>
    BY <1>4 DEF DeadlinePasses, vars, apart, constant, rtVars
  <2> QED  BY <2>1, PhaseKept
<1> QED  BY <1>1, <1>2, <1>3, <1>4

\* What is appended does not change a part of what was there.
LEMMA SubPrefix ==
    ASSUME NEW s \in Seq(Events), NEW u \in Seq(Events), NEW b \in Nat, NEW n \in Nat, n <= Len(s)
    PROVE  SubSeq(s \o u, b + 1, n) = SubSeq(s, b + 1, n)
<1>1. b + 1 \in Nat \ {0} /\ n \in 0..Len(s)
  OBVIOUS
<1> QED  BY <1>1, SubSeqOfConcat1

\* A part of a sequence and the next event.
LEMMA SubAppend ==
    ASSUME NEW s \in Seq(Events), NEW b \in Nat, NEW n \in Nat, b < n, n <= Len(s)
    PROVE  Append(SubSeq(s, b + 1, n - 1), s[n]) = SubSeq(s, b + 1, n)
  OBVIOUS

\* A reader that did not read still has returned all up to its place.
LEMMA FollowsOn ==
    ASSUME TypeInv, NEW r \in Readers, Follows(r), events' = events \o queue,
           reader'[r] = reader[r], seen'[r] = seen[r], born'[r] = born[r]
    PROVE  Follows(r)'
<1> SUFFICES ASSUME reader[r] # 0
             PROVE  /\ born[r] < reader[r] /\ reader[r] <= Len(events') + 1
                    /\ seen[r] = SubSeq(events', born[r] + 1, reader[r] - 1)
  BY DEF Follows
<1>1. events \in Seq(Events) /\ queue \in Seq(Events) /\ reader[r] \in Nat /\ born[r] \in Nat
  BY DEF TypeInv
<1>2. born[r] < reader[r] /\ reader[r] <= Len(events) + 1
      /\ seen[r] = SubSeq(events, born[r] + 1, reader[r] - 1)
  BY DEF Follows
<1>3. reader[r] - 1 \in Nat /\ reader[r] - 1 <= Len(events) /\ reader[r] <= Len(events') + 1
  BY <1>1, <1>2, ConcatType
<1> DEFINE n == reader[r] - 1
           b == born[r]
<1>4. b \in Nat /\ n \in Nat /\ n <= Len(events)
  BY <1>1, <1>3
<1> HIDE DEF n, b
<1>5. SubSeq(events \o queue, b + 1, n) = SubSeq(events, b + 1, n)
  BY ONLY <1>1, <1>4, SubPrefix, SMT
<1>6. SubSeq(events', born[r] + 1, reader[r] - 1) = SubSeq(events, born[r] + 1, reader[r] - 1)
  BY <1>5 DEF n, b
<1> QED  BY ONLY <1>2, <1>3, <1>6

\* A reader that read has returned one event more.
LEMMA FollowsMore ==
    ASSUME TypeInv, NEW r \in Readers, NEW e \in Events, Follows(r), reader[r] # 0, TryReadNext(r, e)
    PROVE  Follows(r)'
<1>1. events \in Seq(Events) /\ queue \in Seq(Events) /\ reader[r] \in Nat /\ born[r] \in Nat
      /\ reader \in [Readers -> Nat] /\ seen \in [Readers -> Seq(Events)]
  BY DEF TypeInv
<1>2. born[r] < reader[r] /\ reader[r] <= Len(events) + 1
      /\ seen[r] = SubSeq(events, born[r] + 1, reader[r] - 1)
  BY DEF Follows
<1>3. /\ events' = events \o queue /\ events' \in Seq(Events)
      /\ reader[r] <= Len(events') /\ e = events'[reader[r]] /\ born' = born
      /\ reader' = [reader EXCEPT ![r] = reader[r] + 1]
      /\ seen' = [seen EXCEPT ![r] = Append(seen[r], e)]
  BY ReadsOne, Zenon
<1>4. reader'[r] = reader[r] + 1
  BY <1>1, <1>3
<1>5. seen'[r] = Append(seen[r], e)
  <2>1. DOMAIN seen = Readers
    BY <1>1
  <2> QED  BY <1>3, <2>1, Zenon
<1> DEFINE n == reader[r]
           b == born[r]
<1>6. b \in Nat /\ n \in Nat /\ b < n /\ n - 1 \in Nat /\ n - 1 <= Len(events)
  BY <1>1, <1>2
<1>7. n <= Len(events') /\ Len(events') \in Nat /\ n + 1 - 1 = n
  BY <1>1, <1>3
<1> HIDE DEF n, b
<1>8. SubSeq(events', b + 1, n - 1) = SubSeq(events, b + 1, n - 1)
  <2>1. SubSeq(events \o queue, b + 1, n - 1) = SubSeq(events, b + 1, n - 1)
    BY <1>1, <1>6, SubPrefix
  <2> QED  BY <1>3, <2>1
<1>9. Append(SubSeq(events', b + 1, n - 1), events'[n]) = SubSeq(events', b + 1, n)
  BY <1>3, <1>6, <1>7, SubAppend
<1>10. seen'[r] = SubSeq(events', b + 1, n)
  BY <1>2, <1>3, <1>5, <1>8, <1>9, Zenon DEF n, b
<1>11. b < n + 1 /\ n + 1 <= Len(events') + 1
  BY <1>6, <1>7
<1>12. born'[r] = b /\ reader'[r] = n + 1
  BY <1>3, <1>4, Zenon DEF n, b
<1>13. seen'[r] = SubSeq(events', b + 1, n + 1 - 1)
  BY <1>7, <1>10
<1> DEFINE n1 == reader'[r]
           b1 == born'[r]
<1>14. b1 = b /\ n1 = n + 1
  BY <1>12
<1> HIDE DEF n1, b1
<1>15. n1 - 1 = n /\ b1 < n1 /\ n1 <= Len(events') + 1
  BY <1>6, <1>7, <1>11, <1>14
<1>16. seen'[r] = SubSeq(events', b1 + 1, n1 - 1)
  BY <1>10, <1>14, <1>15, Zenon
<1>17. n1 # 0 => /\ b1 < n1 /\ n1 <= Len(events') + 1
                /\ seen'[r] = SubSeq(events', b1 + 1, n1 - 1)
  BY <1>15, <1>16, Zenon
<1> QED  BY <1>17, Zenon DEF Follows, n1, b1

\* Which reader a step reads with, and that the reader is there.
LEMMA ReadersThere ==
    ASSUME TypeInv, PlaceInv, ReaderInv, Reading
    PROVE  \/ (AwaitReady \/ AwaitOwnReady \/ PollEvents) /\ reader["private"] # 0
           \/ LookForFocus /\ reader["manager"] # 0
<1>1. outcome = "none" /\ ReadersAt
  BY StepOpen DEF Step, ReaderInv
<1>2. Scripted(test, step) /\ doing[1] = Script[test][step][1] /\ test \in DOMAIN Script /\ step \in Nat
  BY StepKind DEF TypeInv
<1>3. CreateAt[test] \in Nat /\ BeginAt[test] \in Nat /\ CreateAt[test] < BeginAt[test]
  BY <1>2, Places
<1>4. AwaitReady \/ AwaitOwnReady => doing[1] \in {"await", "await_own"}
  BY DEF AwaitReady, AwaitOwnReady, At
<1>5. PollEvents => doing[1] \in {"focus", "sync"}
  BY <1>1, PlacesOnly DEF PollEvents, PlaceInv
<1>6. doing[1] \in {"await", "await_own", "focus", "sync"} => step > CreateAt[test]
  BY <1>2, <1>3 DEF Scripted
<1>7. LookForFocus => step > ManagerAt[test]
  <2>1. LookForFocus => doing[1] = "focus"
    BY DEF LookForFocus, At
  <2>2. doing[1] = "focus" => test \in {"helper", "manager"} /\ step = 6
    BY <1>2 DEF Scripted
  <2> QED  BY <1>2, <2>1, <2>2, Places
<1> QED  BY <1>1, <1>4, <1>5, <1>6, <1>7 DEF Reading, ReadersAt

\* A step that reads does so with one of the readers.
LEMMA ReadsWith ==
    ASSUME TypeInv, PlaceInv, ReaderInv, Reading
    PROVE  \/ \E r \in Readers, e \in Events : TryReadNext(r, e) /\ reader[r] # 0
           \/ \E r \in Readers : NothingToRead(r)
<1>1. "private" \in Readers /\ "manager" \in Readers
  BY DEF Readers
<1>2. AwaitReady \/ AwaitOwnReady \/ PollEvents =>
         (\E e \in Events : TryReadNext("private", e)) \/ NothingToRead("private")
  BY Zenon DEF AwaitReady, AwaitOwnReady, PollEvents
<1>3. LookForFocus => (\E e \in Events : TryReadNext("manager", e)) \/ NothingToRead("manager")
  BY Zenon DEF LookForFocus
<1> QED  BY <1>1, <1>2, <1>3, ReadersThere, Zenon

\* No other step is at the place of a creation.
LEMMA StepNotCreate ==
    ASSUME PlaceInv, Step
    PROVE  pc # "session"
<1>1. outcome = "none"
  BY StepOpen
<1>2. pc = "session" => doing[1] = "create"
  BY <1>1, PlacesOnly DEF PlaceInv
<1>3. PollEvents \/ NextSessionState \/ WaitFrame \/ BeginFrame \/ AcquireImage \/ WaitImage
      \/ ReleaseImage \/ EndFrame => pc \in {"poll", "top", "frame", "waited", "acquire", "image", "release", "end"}
  BY Zenon DEF PollEvents, NextSessionState, WaitFrame, BeginFrame, AcquireImage, WaitImage, ReleaseImage, EndFrame
<1>4. ~(PollEvents \/ NextSessionState \/ WaitFrame \/ BeginFrame \/ AcquireImage \/ WaitImage
      \/ ReleaseImage \/ EndFrame) =>
         doing[1] \in {"await", "await_own", "focus", "run", "begin", "end", "end_early", "render", "setup",
                       "layers", "sync", "threads", "manager", "exit"}
  BY Zenon DEF Step, Reading, Ticking, Beginning, Ending, Framing, Threading, Plain, NewManager,
     RequestExit, Setup, CreateLayers, SyncUntilFocus, RunTestEnvironment, StartAppThread,
     CheckResult, DequeueFrame, JoinAppThread, EndSession, EndEarly, BeginSession, TickBegins, Tick,
     AwaitReady, AwaitOwnReady, LookForFocus, At
<1> QED  BY <1>2, <1>3, <1>4

\* The step "manager" makes the reader and does nothing else.
LEMMA ManagerOnly ==
    ASSUME PlaceInv, Step, doing[1] = "manager"
    PROVE  NewManager
<1>1. pc = "top" \/ outcome # "none"
  BY PlacesOnly DEF PlaceInv
<1>2. outcome # "none" => pc \in {"destroy", "device", "gone"}
  BY DEF PlaceInv
<1>3. PollEvents => pc = "poll"
  BY DEF PollEvents
<1>4. WaitFrame => pc = "frame" \/ doing[1] \in {"focus", "sync"}
  BY Zenon DEF WaitFrame
<1>5. ~(BeginFrame \/ AcquireImage \/ WaitImage \/ ReleaseImage \/ EndFrame)
  BY <1>1, <1>2 DEF BeginFrame, AcquireImage, WaitImage, ReleaseImage, EndFrame
<1>6. ~(Setup \/ CreateLayers \/ SyncUntilFocus \/ RunTestEnvironment \/ StartAppThread \/ CheckResult
        \/ DequeueFrame \/ JoinAppThread \/ RequestExit \/ BeginSession)
  BY DEF Setup, CreateLayers, SyncUntilFocus, RunTestEnvironment, StartAppThread, CheckResult,
     DequeueFrame, JoinAppThread, RequestExit, BeginSession, At
<1>7. ~(EndSession \/ EndEarly \/ TickBegins \/ Tick \/ NextSessionState \/ AwaitReady \/ AwaitOwnReady
        \/ LookForFocus)
  BY DEF EndSession, EndEarly, TickBegins, Tick, NextSessionState, AwaitReady, AwaitOwnReady,
     LookForFocus, At
<1> QED
  BY <1>1, <1>2, <1>3, <1>4, <1>5, <1>6, <1>7
     DEF Step, Reading, Ticking, Beginning, Ending, Framing, Threading, Plain

\* No helper takes events past its queue.
LEMMA TickingNotHelper ==
    ASSUME TypeInv, Ticking
    PROVE  test \notin Helpers
<1>1. doing[1] \in {"run", "next", "submit", "quiet"}
  BY Zenon DEF Ticking, Tick, NextSessionState, At
<1>2. test \in Running \cup {"cycle"}
  BY <1>1, StepKind DEF Scripted
<1> QED  BY <1>2 DEF Running, Helpers

\* Where the readers are, after a step that makes none.
LEMMA ReadersStay ==
    ASSUME TypeInv, PlaceInv, ReadersAt, Step, ~NewManager, outcome' = "none",
           \A r \in Readers : /\ reader'[r] # 0 <=> reader[r] # 0
                              /\ reader'[r] = 0 => seen'[r] = seen[r] /\ born'[r] = born[r]
    PROVE  ReadersAt'
<1>1. outcome = "none" /\ Moves /\ pc # "session"
  BY StepOpen, MovesAre, StepNotCreate
<1>2. test' = test
  BY StepKeeps
<1>3. /\ CreateAt' = CreateAt /\ ManagerAt' = ManagerAt /\ Readers' = Readers
  BY DEF CreateAt, ManagerAt, Readers
<1>4. step \in Nat /\ CreateAt[test] \in Nat /\ ManagerAt[test] \in Nat
  BY Places DEF TypeInv
<1>5. "private" \in Readers /\ "manager" \in Readers
  BY DEF Readers
<1>6. step # ManagerAt[test]
  BY ManagerOnly, StepKind DEF Scripted
<1>7. CASE Goes
  <2>1. PICK l \in PlacesOf(doing[1]) \ {"session"} : Goto(l)
    BY <1>7, Zenon DEF Goes
  <2>2. pc' # "session" /\ step' = step
    BY <2>1 DEF Goto
  <2> QED  BY <1>1, <1>2, <1>3, <1>5, <2>2 DEF ReadersAt
<1>8. CASE Advances /\ step # CreateAt[test]
  <2>1. pc' # "session" /\ step' = step + 1
    BY <1>8 DEF Advances
  <2>2. (step' > CreateAt[test] <=> step > CreateAt[test]) /\ (step' > ManagerAt[test] <=> step > ManagerAt[test])
    BY <1>4, <1>6, <1>8, <2>1
  <2> QED  BY <1>1, <1>2, <1>3, <1>5, <2>1, <2>2 DEF ReadersAt
<1> QED  BY <1>1, <1>7, <1>8 DEF Moves, Ends

\* Readers that nothing touches.
LEMMA FollowsKept ==
    ASSUME ReaderInv, UNCHANGED <<events, reader, seen, born>>
    PROVE  \A r \in Readers : Follows(r)'
<1>1. Readers' = Readers
  BY DEF Readers
<1> QED  BY <1>1, Zenon DEF ReaderInv, Follows

\* Readers: the steps that read.
LEMMA ReadingReaders ==
    ASSUME TypeInv, PlaceInv, ReaderInv, Reading
    PROVE  ReaderInv'
<1>1. UNCHANGED <<test, session, raised>>
  BY ReadingKeeps, Zenon DEF constant, endVars
<1>2. events' = events \o queue /\ queue' = <<>>
  BY ReadingReads, ReadsOne, ReadsNone, Zenon DEF Read
<1>3. Readers' = Readers /\ Helpers' = Helpers
  BY DEF Readers, Helpers
<1>4. NothingDropped'
  <2>1. events' \in Seq(Events)
    BY <1>2, ConcatType DEF TypeInv
  <2>2. events' \o <<>> = events'
    BY <2>1
  <2> QED  BY <1>1, <1>2, <1>3, <2>2, Zenon DEF ReaderInv, NothingDropped
<1>5. /\ \A r \in Readers : Follows(r)'
      /\ \A r \in Readers : /\ reader'[r] # 0 <=> reader[r] # 0
                            /\ reader'[r] = 0 => seen'[r] = seen[r] /\ born'[r] = born[r]
  <2>1. CASE \E r \in Readers, e \in Events : TryReadNext(r, e) /\ reader[r] # 0
    <3>1. PICK r \in Readers, e \in Events : TryReadNext(r, e) /\ reader[r] # 0
      BY <2>1
    <3>2. /\ reader' = [reader EXCEPT ![r] = reader[r] + 1] /\ seen' = [seen EXCEPT ![r] = Append(seen[r], e)]
          /\ born' = born
      BY <3>1, ReadsOne, Zenon
    <3>3. Follows(r)'
      BY <3>1, FollowsMore DEF ReaderInv
    <3>4. ASSUME NEW q \in Readers, q # r
          PROVE  reader'[q] = reader[q] /\ seen'[q] = seen[q] /\ born'[q] = born[q] /\ Follows(q)'
      <4>1. DOMAIN reader = Readers /\ DOMAIN seen = Readers
        BY DEF TypeInv
      <4>2. reader'[q] = reader[q] /\ seen'[q] = seen[q] /\ born'[q] = born[q]
        BY <3>2, <3>4, <4>1, Zenon
      <4> QED  BY <1>2, <4>2, FollowsOn DEF ReaderInv
    <3>5. reader'[r] # 0
      <4>1. reader \in [Readers -> Nat]
        BY DEF TypeInv
      <4> QED  BY <3>2, <4>1
    <3> QED  BY <3>1, <3>3, <3>4, <3>5, Zenon
  <2>2. CASE \E r \in Readers : NothingToRead(r)
    <3>1. UNCHANGED <<reader, seen, born>>
      BY <2>2, ReadsNone
    <3> QED  BY <1>2, <3>1, FollowsOn, Zenon DEF ReaderInv
  <2> QED  BY <2>1, <2>2, ReadsWith
<1>6. outcome' = "none" => ReadersAt'
  <2>1. ~NewManager
    <3>1. doing[1] # "manager"
      BY StepKind, StepOpen, PlacesOnly DEF Reading, AwaitReady, AwaitOwnReady, PollEvents, LookForFocus, At, PlaceInv, Step
    <3> QED  BY <3>1 DEF NewManager, At
  <2> QED  BY <1>5, <2>1, ReadersStay, StepOpen DEF Step, ReaderInv
<1> QED  BY <1>3, <1>4, <1>5, <1>6, Zenon DEF ReaderInv

\* Readers: the new reader of the manager.
LEMMA NewManagerReaders ==
    ASSUME TypeInv, PlaceInv, ReaderInv, NewManager
    PROVE  ReaderInv'
<1>1. UNCHANGED <<test, session, raised, queue, events, seen>>
  BY NewManagerKeeps, Zenon DEF constant, endVars
<1>2. Readers' = Readers /\ Helpers' = Helpers /\ CreateAt' = CreateAt /\ ManagerAt' = ManagerAt
  BY DEF Readers, Helpers, CreateAt, ManagerAt
<1>3. /\ reader' = [reader EXCEPT !["manager"] = Len(events) + 1]
      /\ born' = [born EXCEPT !["manager"] = Len(events)]
      /\ outcome = "none" /\ doing[1] = "manager" /\ Done
  BY DEF NewManager, NewReader, At
<1>4. events \in Seq(Events) /\ reader \in [Readers -> Nat] /\ born \in [Readers -> Nat] /\ Len(events) \in Nat
      /\ "manager" \in Readers /\ "private" \in Readers /\ \A q \in Readers : q \in {"private", "manager"}
  BY DEF TypeInv, Readers
<1>5. ReadersAt /\ NothingDropped
  BY <1>3 DEF ReaderInv
<1>6. step = ManagerAt[test] /\ step \in Nat /\ CreateAt[test] \in Nat /\ ManagerAt[test] \in Nat /\ step # CreateAt[test]
  BY <1>3, StepKind, Places DEF Scripted, TypeInv
<1>7. reader["manager"] = 0 /\ seen["manager"] = <<>>
  BY <1>4, <1>5, <1>6 DEF ReadersAt
<1>8. reader'["manager"] = Len(events) + 1 /\ born'["manager"] = Len(events)
      /\ reader'["private"] = reader["private"] /\ born'["private"] = born["private"]
  BY <1>3, <1>4
<1>9. Follows("private")'
  BY <1>1, <1>4, <1>8, Zenon DEF ReaderInv, Follows
<1>10. Follows("manager")'
  <2> DEFINE n == Len(events)
  <2>1. n \in Nat /\ n < n + 1 /\ n + 1 <= n + 1 /\ n + 1 - 1 = n
    BY <1>4
  <2>2. SubSeq(events, n + 1, n + 1 - 1) = <<>>
    BY <1>4
  <2> DEFINE n1 == reader'["manager"]
             b1 == born'["manager"]
  <2>3. b1 = n /\ n1 = n + 1
    BY <1>8
  <2> HIDE DEF n, n1, b1
  <2>4. b1 < n1 /\ n1 <= n + 1 /\ SubSeq(events, b1 + 1, n1 - 1) = <<>>
    BY <2>1, <2>2, <2>3
  <2>5. n1 # 0 => b1 < n1 /\ n1 <= Len(events') + 1 /\ seen'["manager"] = SubSeq(events', b1 + 1, n1 - 1)
    BY <1>1, <1>7, <2>4, Zenon DEF n
  <2> QED  BY <2>5, Zenon DEF Follows, n1, b1
<1>11. outcome' = "none" => ReadersAt'
  <2> SUFFICES ASSUME outcome' = "none" PROVE ReadersAt'
    OBVIOUS
  <2>1. Advances
    BY <1>3, DoneMoves DEF Ends
  <2>2. step' = step + 1 /\ pc' = "top" /\ test' = test
    BY <1>1, <2>1 DEF Advances
  <2>3. pc # "session"
    BY StepNotCreate DEF Step
  <2>4. reader'["manager"] # 0 /\ step' > ManagerAt[test]
    BY <1>4, <1>6, <1>8, <2>2
  <2>5. reader'["private"] # 0 <=> step' > CreateAt[test] \/ pc' = "session"
    BY <1>5, <1>6, <1>8, <2>2, <2>3 DEF ReadersAt
  <2>6. ASSUME NEW q \in Readers, reader'[q] = 0 PROVE seen'[q] = <<>> /\ born'[q] = 0
    BY <1>1, <1>4, <1>5, <1>8, <2>4, <2>6 DEF ReadersAt
  <2> QED  BY <1>2, <2>2, <2>4, <2>5, <2>6, Zenon DEF ReadersAt
<1>12. NothingDropped'
  BY <1>1, <1>2, <1>5, Zenon DEF NothingDropped
<1>13. \A q \in Readers : Follows(q)'
  BY <1>4, <1>9, <1>10
<1> QED  BY <1>2, <1>11, <1>12, <1>13, Zenon DEF ReaderInv

\* Readers: the steps of the framework.
LEMMA StepReaders ==
    ASSUME TypeInv, PlaceInv, ReaderInv, Step
    PROVE  ReaderInv'
<1>1. Readers' = Readers /\ Helpers' = Helpers
  BY DEF Readers, Helpers
<1>2. CASE ~Reading /\ ~NewManager
  <2>1. UNCHANGED <<test, session, raised, events, reader, seen, born>>
    BY <1>2, ReadingKeeps, TickingKeeps, NewManagerKeeps, BeginningKeeps, EndingKeeps, FramingKeeps,
       ThreadingKeeps, PlainKeeps, RequestExitKeeps, Zenon DEF Step, constant, readVars, endVars
  <2>2. ~Ticking => queue' = queue
    BY <1>2, ReadingKeeps, TickingKeeps, NewManagerKeeps, BeginningKeeps, EndingKeeps, FramingKeeps,
       ThreadingKeeps, PlainKeeps, RequestExitKeeps, Zenon DEF Step
  <2>3. NothingDropped'
    BY <1>1, <2>1, <2>2, TickingNotHelper, Zenon DEF ReaderInv, NothingDropped
  <2>4. \A r \in Readers : Follows(r)'
    BY <2>1, FollowsKept
  <2>5. outcome' = "none" => ReadersAt'
    BY <1>2, <2>1, ReadersStay, StepOpen, Zenon DEF ReaderInv
  <2> QED  BY <1>1, <2>3, <2>4, <2>5, Zenon DEF ReaderInv
<1> QED  BY <1>2, ReadingReaders, NewManagerReaders

\* Readers: the private reader of a new queue.
LEMMA CreateReaders ==
    ASSUME TypeInv, PlaceInv, SessionInv, ReaderInv, Create
    PROVE  ReaderInv'
<1>1. UNCHANGED <<test, raised, queue, events, seen, born>> /\ outcome = "none" /\ doing[1] = "create"
  BY DEF Create, At, apart, constant
<1>2. Readers' = Readers /\ Helpers' = Helpers /\ CreateAt' = CreateAt /\ ManagerAt' = ManagerAt
  BY DEF Readers, Helpers, CreateAt, ManagerAt
<1>3. ReadersAt /\ NothingDropped /\ \A q \in Readers : Follows(q)
  BY <1>1 DEF ReaderInv
<1>4. step = CreateAt[test] /\ step \in Nat /\ ManagerAt[test] \in Nat /\ step < ManagerAt[test]
  BY <1>1, StepKind, Places DEF Scripted, TypeInv
<1>5. events \in Seq(Events) /\ reader \in [Readers -> Nat]
      /\ "manager" \in Readers /\ "private" \in Readers /\ \A q \in Readers : q \in {"private", "manager"}
  BY DEF TypeInv, Readers
<1>6. CASE pc = "top"
  <2>1. reader' = [reader EXCEPT !["private"] = 1] /\ pc' = "session" /\ step' = step /\ session' = session
    BY <1>6 DEF Create, Goto
  <2>2. reader["private"] = 0 /\ reader["manager"] = 0
    BY <1>3, <1>4, <1>6 DEF ReadersAt
  <2>3. reader'["private"] = 1 /\ reader'["manager"] = 0
    BY <1>5, <2>1, <2>2
  <2>4. seen["private"] = <<>> /\ born["private"] = 0 /\ seen["manager"] = <<>> /\ born["manager"] = 0
    BY <1>3, <1>5, <2>2 DEF ReadersAt
  <2>5. Follows("private")'
    <3>1. SubSeq(events, 0 + 1, 1 - 1) = <<>> /\ 1 <= Len(events) + 1 /\ 0 < 1
      BY <1>5
    <3> QED  BY <1>1, <2>3, <2>4, <3>1, Zenon DEF Follows
  <2>6. Follows("manager")'
    BY <2>3 DEF Follows
  <2>7. ReadersAt'
    BY <1>1, <1>2, <1>4, <1>5, <2>1, <2>3, <2>4 DEF ReadersAt
  <2>8. NothingDropped'
    BY <1>1, <1>2, <1>3, <2>1, Zenon DEF NothingDropped
  <2> QED  BY <1>2, <1>5, <2>5, <2>6, <2>7, <2>8 DEF ReaderInv
<1>7. CASE pc # "top"
  <2>1. pc = "session" /\ reader' = reader /\ (session' = session \/ session' = "alive") /\ (Done \/ Fail("create"))
    BY <1>7, Zenon DEF Create
  <2>2. \A q \in Readers : Follows(q)'
    BY <1>1, <2>1, FollowsKept
  <2>3. NothingDropped'
    <3>3. session # "destroyed"
      BY <1>1, <1>4 DEF SessionInv
    <3> QED  BY <1>1, <1>2, <1>3, <3>3, Zenon DEF NothingDropped
  <2>4. outcome' = "none" => ReadersAt'
    <3> SUFFICES ASSUME outcome' = "none" PROVE ReadersAt'
      OBVIOUS
    <3>1. Advances
      BY <1>1, <2>1, DoneMoves, FailOn DEF Ends
    <3>2. step' = step + 1 /\ pc' = "top"
      BY <3>1 DEF Advances
    <3>3. step' > CreateAt[test] /\ ~(step' > ManagerAt[test])
      BY <1>4, <3>2
    <3> QED  BY <1>1, <1>2, <1>3, <1>4, <2>1, <3>2, <3>3 DEF ReadersAt
  <2> QED  BY <1>2, <2>2, <2>3, <2>4, Zenon DEF ReaderInv
<1> QED  BY <1>6, <1>7

\* Appending to the queue appends to all that is known.
LEMMA ConcatAppend ==
    ASSUME NEW s \in Seq(Events), NEW u \in Seq(Events), NEW e \in Events
    PROVE  s \o Append(u, e) = Append(s \o u, e)
  OBVIOUS

\* The steps that leave the readers and the place in the script alone.
LEMMA ReadersKept ==
    ASSUME ReaderInv, UNCHANGED <<test, events, reader, seen, born, step, pc, outcome>>, NothingDropped'
    PROVE  ReaderInv'
<1>1. Readers' = Readers /\ CreateAt' = CreateAt /\ ManagerAt' = ManagerAt
  BY DEF Readers, CreateAt, ManagerAt
<1>2. \A r \in Readers : Follows(r)'
  BY FollowsKept
<1>3. outcome' = "none" => ReadersAt'
  BY <1>1, Zenon DEF ReaderInv, ReadersAt
<1> QED  BY <1>1, <1>2, <1>3, Zenon DEF ReaderInv

\* Readers: an event is raised.
LEMMA RaisesReaders ==
    ASSUME TypeInv, ReaderInv, NEW e \in Events, Raise(e),
           UNCHANGED <<test, events, reader, seen, born, step, pc, outcome, session>>
    PROVE  ReaderInv'
<1>1. queue' = Append(queue, e) /\ raised' = Append(raised, e) /\ Helpers' = Helpers
  BY RaiseTyped DEF Helpers
<1>2. events \o Append(queue, e) = Append(events \o queue, e)
  BY ConcatAppend DEF TypeInv
<1>3. NothingDropped'
  BY <1>1, <1>2, Zenon DEF ReaderInv, NothingDropped
<1> QED  BY <1>3, ReadersKept

\* Readers: a change of state.
LEMMA RuntimeChangesReaders ==
    ASSUME TypeInv, ReaderInv, NEW s \in States, RuntimeChanges(s)
    PROVE  ReaderInv'
<1>1. Raise(s) /\ s \in Events /\ UNCHANGED <<test, events, reader, seen, born, step, pc, outcome, session>>
  BY DEF RuntimeChanges, Events, apart, constant, readVars, endVars
<1> QED  BY <1>1, RaisesReaders

\* Readers: a change of interaction profile.
LEMMA ProfileChangesReaders ==
    ASSUME TypeInv, ReaderInv, ProfileChanges
    PROVE  ReaderInv'
<1>1. Raise("OTHER") /\ "OTHER" \in Events
      /\ UNCHANGED <<test, events, reader, seen, born, step, pc, outcome, session>>
  BY DEF ProfileChanges, Events, apart, constant, readVars, endVars
<1> QED  BY <1>1, RaisesReaders

\* Readers: the other steps.
LEMMA RestReaders ==
    ASSUME TypeInv, PlaceInv, EventInv, ReaderInv,
           \/ DestroySession \/ ShutdownDevice \/ LeaveBehind \/ AppThread \/ Worker \/ DeadlinePasses
           \/ UNCHANGED vars
    PROVE  ReaderInv'
<1>1. CASE DestroySession
  <2>1. UNCHANGED <<test, raised, events, reader, seen, born, outcome>> /\ queue' = <<>>
        /\ session' = (IF session = "alive" THEN "destroyed" ELSE session) /\ pc = "destroy"
    BY <1>1 DEF DestroySession, apart, constant, readVars, Goto
  <2>2. outcome # "none"
    BY <2>1, PlacesOnly DEF PlaceInv
  <2>3. NothingDropped'
    <3>1. session' # "destroyed" => session = "none" \/ session = "destroyed"
      BY <2>1 DEF TypeInv
    <3>2. session = "none" => raised = <<>> /\ events = <<>> /\ <<>> \o <<>> = <<>>
      BY DEF EventInv
    <3>3. session = "destroyed" => session' = "destroyed"
      BY <2>1
    <3> QED  BY <2>1, <3>1, <3>2, <3>3 DEF NothingDropped
  <2>4. \A r \in Readers : Follows(r)'
    BY <2>1, FollowsKept
  <2>5. Readers' = Readers
    BY DEF Readers
  <2> QED  BY <2>1, <2>2, <2>3, <2>4, <2>5, Zenon DEF ReaderInv
<1>2. CASE ShutdownDevice
  <2>1. UNCHANGED <<test, raised, queue, events, outcome, session>> /\ reader' = [r \in Readers |-> 0] /\ pc = "device"
    BY <1>2 DEF ShutdownDevice, apart, constant, Goto
  <2>2. outcome # "none"
    BY <2>1, PlacesOnly DEF PlaceInv
  <2>3. NothingDropped'
    BY <2>1, Zenon DEF ReaderInv, NothingDropped, Helpers
  <2>4. \A r \in Readers : Follows(r)'
    BY <2>1, Zenon DEF Follows
  <2>5. Readers' = Readers
    BY DEF Readers
  <2> QED  BY <2>1, <2>2, <2>3, <2>4, <2>5, Zenon DEF ReaderInv
<1>3. CASE LeaveBehind
  <2>1. UNCHANGED <<test, raised, queue, events, reader, seen, born, outcome, session>> /\ pc = "destroy"
    BY <1>3 DEF LeaveBehind, apart, constant, readVars, endVars, Goto
  <2>2. outcome # "none"
    BY <2>1, PlacesOnly DEF PlaceInv
  <2>3. NothingDropped'
    BY <2>1, Zenon DEF ReaderInv, NothingDropped, Helpers
  <2>4. \A r \in Readers : Follows(r)'
    BY <2>1, FollowsKept
  <2>5. Readers' = Readers
    BY DEF Readers
  <2> QED  BY <2>1, <2>2, <2>3, <2>4, <2>5, Zenon DEF ReaderInv
<1>4. CASE Worker
  <2>1. UNCHANGED <<test, raised, queue, events, reader, seen, born, session, step>>
    BY <1>4, WorkerKeeps, Zenon DEF constant, readVars, endVars
  <2>2. UNCHANGED <<pc, outcome>> \/ outcome' = "crashed"
    BY <1>4, Zenon DEF Worker
  <2>3. NothingDropped'
    BY <2>1, Zenon DEF ReaderInv, NothingDropped, Helpers
  <2>4. \A r \in Readers : Follows(r)'
    BY <2>1, FollowsKept
  <2>5. Readers' = Readers
    BY DEF Readers
  <2>6. UNCHANGED <<pc, outcome>> => ReaderInv'
    BY <2>1, <2>3, ReadersKept
  <2>7. outcome' = "crashed" => outcome' # "none"
    OBVIOUS
  <2> QED  BY <2>2, <2>3, <2>4, <2>5, <2>6, <2>7, Zenon DEF ReaderInv
<1>5. CASE AppThread \/ DeadlinePasses \/ UNCHANGED vars
  <2>1. AppThread => UNCHANGED <<test, raised, queue, events, reader, seen, born, session, step, pc, outcome>>
    BY AppThreadKeeps, Zenon DEF constant, readVars, endVars
  <2>2. DeadlinePasses \/ UNCHANGED vars =>
           UNCHANGED <<test, raised, queue, events, reader, seen, born, session, step, pc, outcome>>
    BY DEF DeadlinePasses, vars, apart, constant, rtVars, readVars, endVars
  <2>3. UNCHANGED <<test, raised, queue, events, reader, seen, born, session, step, pc, outcome>>
    BY <1>5, <2>1, <2>2
  <2>4. NothingDropped'
    BY <2>3, Zenon DEF ReaderInv, NothingDropped, Helpers
  <2> QED  BY <2>3, <2>4, ReadersKept
<1> QED  BY <1>1, <1>2, <1>3, <1>4, <1>5

\* The events of a concatenation.
LEMMA ConcatSet ==
    ASSUME NEW s \in Seq(Events), NEW u \in Seq(Events)
    PROVE  ToSet(s) \subseteq ToSet(s \o u) /\ \A i \in 1..Len(s \o u) : (s \o u)[i] \in ToSet(s \o u)
<1> DEFINE v == s \o u
<1>1. DOMAIN s = 1..Len(s) /\ DOMAIN v = 1..Len(v) /\ DOMAIN s \subseteq DOMAIN v /\ \A i \in DOMAIN s : v[i] = s[i]
  BY ConcatType
<1> HIDE DEF v
<1>2. ToSet(s) \subseteq ToSet(v) /\ \A i \in 1..Len(v) : v[i] \in ToSet(v)
  BY <1>1, Zenon DEF ToSet
<1> QED  BY <1>2 DEF v

\* A step that does not end the test stays at its step of the script or goes to the next.
LEMMA StepForward ==
    ASSUME TypeInv, PlaceInv, Step, outcome' = "none"
    PROVE  /\ outcome = "none" /\ test' = test /\ raised' = raised
           /\ step \in Nat /\ (step' = step \/ step' = step + 1)
           /\ Helpers' = Helpers /\ BeginAt' = BeginAt /\ ManagerAt' = ManagerAt /\ Readers' = Readers
<1>1. outcome = "none" /\ Moves
  BY StepOpen, MovesAre
<1>2. test' = test /\ raised' = raised
  BY StepKeeps
<1>3. step \in Nat /\ (step' = step \/ step' = step + 1)
  BY <1>1 DEF Moves, Goes, Goto, Advances, Ends, TypeInv
<1> QED  BY <1>1, <1>2, <1>3, Zenon DEF Helpers, BeginAt, ManagerAt, Readers

\* Before the session begins it has no focus.
LEMMA NoFocusBefore ==
    ASSUME PhaseInv, ReaderInv, SessionInv, TypeInv, outcome = "none", test \in Helpers, step < BeginAt[test],
           step > CreateAt[test]
    PROVE  raised = events \o queue /\ "FOCUSED" \notin ToSet(raised)
<1>1. test # "cycle"
  BY DEF Helpers
<1>2. ~running /\ RaisedInv
  BY <1>1 DEF PhaseInv, ScriptRuns
<1>3. "FOCUSED" \notin ToSet(raised)
  BY <1>2 DEF RaisedInv
<1>4. session = "alive"
  BY DEF SessionInv
<1> QED  BY <1>3, <1>4 DEF ReaderInv, NothingDropped

\* Which steps of the two helper scripts read.
LEMMA ReadingAt ==
    ASSUME TypeInv, PlaceInv, Reading, test \in {"helper", "manager"}
    PROVE  /\ outcome = "none" /\ step > CreateAt[test]
           /\ step < BeginAt[test] \/ step >= 6
           /\ LookForFocus => step = 6
           /\ AwaitOwnReady => step + 1 = BeginAt[test]
<1>1. outcome = "none"
  BY StepOpen DEF Step
<1>2. Scripted(test, step) /\ doing[1] = Script[test][step][1] /\ test \in DOMAIN Script /\ step \in Nat
  BY StepKind DEF TypeInv
<1>3. ~AwaitReady
  BY <1>2 DEF AwaitReady, At, Scripted
<1>4. AwaitOwnReady => step + 1 = BeginAt[test]
  BY <1>2 DEF AwaitOwnReady, At, Scripted
<1>5. LookForFocus => step = 6
  BY <1>2 DEF LookForFocus, At, Scripted
<1>6. PollEvents => doing[1] \in {"focus", "sync"}
  BY <1>1, PlacesOnly DEF PollEvents, PlaceInv
<1>7. PollEvents => step > BeginAt[test] /\ step # 5
  <2>1. doing[1] \in {"focus", "sync"} => step > BeginAt[test]
    BY <1>2 DEF Scripted
  <2>2. doing[1] \in {"focus", "sync"} => step # ManagerAt[test]
    BY <1>2 DEF Scripted
  <2> QED  BY <1>2, <1>6, <2>1, <2>2, Places
<1>8. BeginAt[test] \in {4, 5} /\ CreateAt[test] = 1 /\ BeginAt[test] \in Nat
      /\ (test = "helper" => BeginAt[test] = 4) /\ (test = "manager" => BeginAt[test] = 5)
  BY <1>2, Places DEF Helpers
<1>9. PollEvents => step >= 6
  BY <1>2, <1>7, <1>8, Places
<1> QED  BY <1>1, <1>2, <1>3, <1>4, <1>5, <1>8, <1>9 DEF Reading

\* Focus: the steps that read.
LEMMA ReadingFocus ==
    ASSUME TypeInv, PlaceInv, SessionInv, PhaseInv, ReaderInv, FocusInv, Reading
    PROVE  FocusInv'
<1> SUFFICES ASSUME outcome' = "none" PROVE NoFocusYet' /\ NoFocusRead'
  BY DEF FocusInv
<1>1. /\ outcome = "none" /\ test' = test /\ raised' = raised /\ step \in Nat /\ (step' = step \/ step' = step + 1)
      /\ ManagerAt' = ManagerAt
  BY StepForward DEF Step
<1>2. NoFocusYet /\ NoFocusRead /\ ReadersAt
  BY <1>1 DEF FocusInv, ReaderInv
<1>3. events' = events \o queue /\ events \in Seq(Events) /\ queue \in Seq(Events)
  BY ReadingReads, ReadsOne, ReadsNone, Zenon DEF Read, TypeInv
<1>4. test \in {"helper", "manager"} /\ step < BeginAt[test] => "FOCUSED" \notin ToSet(events')
  BY <1>1, <1>3, NoFocusBefore, ReadingAt DEF Helpers
<1>5. NoFocusYet'
  <2> SUFFICES ASSUME test = "helper", step' <= 5 PROVE "FOCUSED" \notin ToSet(events')
    BY <1>1 DEF NoFocusYet
  <2>1. step < BeginAt[test]
    BY <1>1, ReadingAt
  <2> QED  BY <1>4, <2>1
<1>6. NoFocusRead'
  <2> SUFFICES ASSUME test \in {"helper", "manager"}, step' > ManagerAt[test], step' <= 6,
                      NEW i \in 1..(reader'["manager"] - 1)
               PROVE  events'[i] # "FOCUSED"
    BY <1>1 DEF NoFocusRead
  <2>1. step <= 6 /\ ManagerAt[test] \in Nat
    BY <1>1, Places DEF TypeInv
  <2>2. step > ManagerAt[test]
    <3>1. doing[1] # "manager"
      BY StepKind, StepOpen, PlacesOnly DEF Reading, AwaitReady, AwaitOwnReady, PollEvents, LookForFocus, At, PlaceInv, Step
    <3>2. step # ManagerAt[test]
      BY <3>1, StepKind DEF Scripted
    <3> QED  BY <1>1, <2>1, <3>2
  <2>3. \A j \in 1..(reader["manager"] - 1) : events[j] # "FOCUSED"
    BY <1>2, <2>1, <2>2 DEF NoFocusRead
  <2>4. "manager" \in Readers /\ "private" \in Readers /\ reader \in [Readers -> Nat]
    BY DEF Readers, TypeInv
  <2>5. reader["manager"] \in Nat /\ reader["manager"] # 0 /\ reader["manager"] - 1 <= Len(events)
    <3>1. reader["manager"] # 0 /\ Follows("manager")
      BY <1>2, <2>2, <2>4 DEF ReadersAt, ReaderInv
    <3> QED  BY <1>3, <2>4, <3>1 DEF Follows
  <2>6. \A j \in 1..(reader["manager"] - 1) : events'[j] # "FOCUSED"
    BY <1>3, <2>3, <2>5, ConcatType
  <2>7. CASE \E e \in Events : TryReadNext("manager", e) /\ e # "FOCUSED"
    <3>1. PICK e \in Events : TryReadNext("manager", e) /\ e # "FOCUSED"
      BY <2>7
    <3>2. reader' = [reader EXCEPT !["manager"] = reader["manager"] + 1] /\ e = events'[reader["manager"]]
      BY <2>4, <3>1, ReadsOne, Zenon
    <3>3. reader'["manager"] = reader["manager"] + 1
      BY <2>4, <3>2
    <3> QED  BY <2>5, <2>6, <3>1, <3>2, <3>3
  <2>8. CASE reader'["manager"] = reader["manager"]
    BY <2>6, <2>8
  <2>9. ASSUME NEW e \in Events, TryReadNext("private", e) PROVE reader'["manager"] = reader["manager"]
    <3>1. reader' = [reader EXCEPT !["private"] = reader["private"] + 1]
      BY <2>4, <2>9, ReadsOne, Zenon
    <3> QED  BY <2>4, <3>1
  <2>10. ASSUME NEW r \in Readers, NothingToRead(r) PROVE reader'["manager"] = reader["manager"]
    BY <2>10, ReadsNone
  <2>11. AwaitReady \/ AwaitOwnReady \/ PollEvents => reader'["manager"] = reader["manager"]
    BY <2>4, <2>9, <2>10, Zenon DEF AwaitReady, AwaitOwnReady, PollEvents
  <2>12. LookForFocus => \/ \E e \in Events : TryReadNext("manager", e) /\ e # "FOCUSED"
                         \/ TryReadNext("manager", "FOCUSED") /\ Done
                         \/ NothingToRead("manager")
    BY Zenon DEF LookForFocus
  <2>13. ~(LookForFocus /\ Done)
    <3>1. LookForFocus => step = 6
      BY ReadingAt
    <3>2. Done => step' = step + 1
      BY <1>1, DoneMoves DEF Advances, Ends
    <3> QED  BY <3>1, <3>2
  <2> QED  BY <2>4, <2>7, <2>8, <2>10, <2>11, <2>12, <2>13 DEF Reading
<1> QED  BY <1>5, <1>6

\* Focus: the steps of the framework.
LEMMA StepFocus ==
    ASSUME TypeInv, PlaceInv, SessionInv, PhaseInv, ReaderInv, FocusInv, Step
    PROVE  FocusInv'
<1> SUFFICES ASSUME outcome' = "none", ~Reading PROVE NoFocusYet' /\ NoFocusRead'
  BY ReadingFocus DEF FocusInv
<1>1. /\ outcome = "none" /\ test' = test /\ raised' = raised /\ step \in Nat /\ (step' = step \/ step' = step + 1)
      /\ ManagerAt' = ManagerAt
  BY StepForward
<1>2. NoFocusYet /\ NoFocusRead /\ ReadersAt
  BY <1>1 DEF FocusInv, ReaderInv
<1>3. events' = events
  BY ReadingKeeps, TickingKeeps, NewManagerKeeps, BeginningKeeps, EndingKeeps, FramingKeeps,
     ThreadingKeeps, PlainKeeps, RequestExitKeeps, Zenon DEF Step, readVars
<1>4. NoFocusYet'
  BY <1>1, <1>2, <1>3 DEF NoFocusYet
<1>5. CASE NewManager
  <2> SUFFICES ASSUME test \in {"helper", "manager"}, NEW i \in 1..(reader'["manager"] - 1)
               PROVE  events[i] # "FOCUSED"
    BY <1>1, <1>3, <1>4 DEF NoFocusRead
  <2>1. doing[1] = "manager"
    BY <1>5 DEF NewManager, At
  <2>2. step = ManagerAt[test] /\ CreateAt[test] < ManagerAt[test] /\ CreateAt[test] \in Nat /\ ManagerAt[test] \in Nat
    BY <2>1, StepKind, Places DEF Scripted, TypeInv
  <2>3. "FOCUSED" \notin ToSet(events)
    <3>1. CASE test = "helper"
      <4>1. step = 5
        BY <2>2, <3>1, Places DEF TypeInv
      <4> QED  BY <1>2, <3>1, <4>1 DEF NoFocusYet
    <3>2. CASE test = "manager"
      <4>1. step < BeginAt[test] /\ step > CreateAt[test] /\ test \in Helpers
        BY <2>2, <3>2, Places DEF Helpers, TypeInv
      <4>2. raised = events \o queue /\ "FOCUSED" \notin ToSet(raised)
        BY <1>1, <4>1, NoFocusBefore
      <4> QED  BY <4>2, ConcatSet DEF TypeInv
    <3> QED  BY <3>1, <3>2
  <2>4. reader' = [reader EXCEPT !["manager"] = Len(events) + 1]
    BY <1>5 DEF NewManager, NewReader
  <2>5. reader'["manager"] = Len(events) + 1 /\ events \in Seq(Events) /\ Len(events) \in Nat
    BY <2>4 DEF TypeInv, Readers
  <2>6. i \in DOMAIN events
    BY <2>5
  <2> QED  BY <2>3, <2>6, Zenon DEF ToSet
<1>6. CASE ~NewManager
  <2>1. reader' = reader
    BY <1>6, ReadingKeeps, TickingKeeps, NewManagerKeeps, BeginningKeeps, EndingKeeps, FramingKeeps,
       ThreadingKeeps, PlainKeeps, RequestExitKeeps, Zenon DEF Step, readVars
  <2>2. step # ManagerAt[test]
    BY <1>6, ManagerOnly, StepKind DEF Scripted
  <2>3. ManagerAt[test] \in Nat
    BY Places DEF TypeInv
  <2> QED  BY <1>1, <1>2, <1>3, <1>4, <2>1, <2>2, <2>3 DEF NoFocusRead
<1> QED  BY <1>4, <1>5, <1>6

\* Focus: the creation of the session.
LEMMA CreateFocus ==
    ASSUME TypeInv, EventInv, FocusInv, SessionInv, Create
    PROVE  FocusInv'
<1> SUFFICES ASSUME outcome' = "none" PROVE NoFocusYet' /\ NoFocusRead'
  BY DEF FocusInv
<1>1. UNCHANGED <<test, events>> /\ outcome = "none" /\ doing[1] = "create" /\ ManagerAt' = ManagerAt
  BY DEF Create, At, apart, constant, ManagerAt
<1>2. step = CreateAt[test] /\ step \in Nat /\ ManagerAt[test] \in Nat /\ step < ManagerAt[test]
  BY <1>1, StepKind, Places DEF Scripted, TypeInv
<1>3. events = <<>>
  BY <1>1, <1>2 DEF SessionInv, EventInv
<1>4. NoFocusYet'
  BY <1>1, <1>3 DEF NoFocusYet, ToSet
<1>5. step' = step \/ step' = step + 1
  <2>1. Goto("session") \/ Done \/ Fail("create")
    BY Zenon DEF Create
  <2> QED  BY <1>1, <2>1, DoneMoves, FailOn DEF Goto, Advances, Ends
<1>6. NoFocusRead'
  BY <1>1, <1>2, <1>5 DEF NoFocusRead
<1> QED  BY <1>4, <1>6

\* Focus: the other steps.
LEMMA RestFocus ==
    ASSUME TypeInv, PlaceInv, FocusInv,
           \/ \E s \in States : RuntimeChanges(s)
           \/ ProfileChanges \/ DestroySession \/ ShutdownDevice \/ LeaveBehind \/ AppThread \/ Worker
           \/ DeadlinePasses \/ UNCHANGED vars
    PROVE  FocusInv'
<1>1. CASE DestroySession \/ ShutdownDevice \/ LeaveBehind
  <2>1. pc \in {"destroy", "device"} /\ outcome' = outcome
    BY <1>1 DEF DestroySession, ShutdownDevice, LeaveBehind, Goto
  <2>2. outcome # "none"
    BY <2>1, PlacesOnly DEF PlaceInv
  <2> QED  BY <2>1, <2>2 DEF FocusInv
<1>2. CASE ~(DestroySession \/ ShutdownDevice \/ LeaveBehind)
  <2>1. AppThread => UNCHANGED <<test, events, reader, step, outcome>>
    BY AppThreadKeeps, Zenon DEF constant, readVars
  <2>2. DeadlinePasses \/ UNCHANGED vars \/ ProfileChanges => UNCHANGED <<test, events, reader, step, outcome>>
    BY DEF DeadlinePasses, ProfileChanges, vars, apart, constant, rtVars, readVars
  <2>3. (\E s \in States : RuntimeChanges(s)) => UNCHANGED <<test, events, reader, step, outcome>>
    BY DEF RuntimeChanges, apart, constant, readVars
  <2>4. Worker => UNCHANGED <<test, events, reader, step>> /\ (outcome' = outcome \/ outcome' = "crashed")
    <3>1. Worker => outcome' = outcome \/ outcome' = "crashed"
      BY Zenon DEF Worker
    <3> QED  BY <3>1, WorkerKeeps, Zenon DEF constant, readVars
  <2>5. UNCHANGED <<test, events, reader, step>> /\ (outcome' = outcome \/ outcome' = "crashed")
    BY <1>2, <2>1, <2>2, <2>3, <2>4
  <2>6. outcome' = "none" => outcome = "none"
    BY <2>5
  <2>7. NoFocusYet => NoFocusYet'
    BY <2>5 DEF NoFocusYet
  <2>8. NoFocusRead => NoFocusRead'
    BY <2>5, Zenon DEF NoFocusRead, ManagerAt
  <2> QED  BY <2>6, <2>7, <2>8, Zenon DEF FocusInv
<1> QED  BY <1>1, <1>2

\* An index into the second part of a concatenation.
LEMMA Shifted ==
    ASSUME NEW a \in Nat, NEW c \in Nat, NEW d \in Nat, NEW b \in Nat, NEW i \in 1..(a + c), i > a, a = d - b
    PROVE  i - a \in 1..c /\ a + (i - a) = i /\ d + (i - a) = b + i
  OBVIOUS

\* A sequence of events taken apart where a reader stands.
LEMMA SplitAt ==
    ASSUME NEW s \in Seq(Events), NEW u \in Seq(Events), NEW b \in Nat, NEW n \in Nat, b < n, n <= Len(s) + 1
    PROVE  SubSeq(s, b + 1, n - 1) \o SubSeq(s, n, Len(s)) \o u = SubSeq(s \o u, b + 1, Len(s \o u))
<1> DEFINE p == SubSeq(s, b + 1, n - 1)
           q == SubSeq(s, n, Len(s))
           v == s \o u
           w == SubSeq(v, b + 1, Len(v))
<1>1. p \in Seq(Events) /\ Len(p) = n - 1 - b /\ \A i \in 1..Len(p) : p[i] = s[b + i]
  OBVIOUS
<1>2. q \in Seq(Events) /\ Len(q) = Len(s) - n + 1 /\ \A i \in 1..Len(q) : q[i] = s[n - 1 + i]
  OBVIOUS
<1>3. v \in Seq(Events) /\ Len(v) = Len(s) + Len(u) /\ (\A i \in 1..Len(s) : v[i] = s[i])
      /\ \A i \in 1..Len(u) : v[Len(s) + i] = u[i]
  BY ConcatType
<1>4. w \in Seq(Events) /\ Len(w) = Len(v) - b /\ \A i \in 1..Len(w) : w[i] = v[b + i]
  BY <1>3
<1> HIDE DEF p, q, v, w
<1>5. (p \o q) \in Seq(Events) /\ Len(p \o q) = Len(s) - b /\ \A i \in 1..Len(p \o q) : (p \o q)[i] = s[b + i]
  <2>1. (p \o q) \in Seq(Events) /\ Len(p \o q) = Len(p) + Len(q)
        /\ (\A i \in 1..Len(p) : (p \o q)[i] = p[i]) /\ \A i \in 1..Len(q) : (p \o q)[Len(p) + i] = q[i]
    BY <1>1, <1>2, ConcatType
  <2>2. Len(p \o q) = Len(s) - b
    BY <1>1, <1>2, <2>1
  <2>3. ASSUME NEW i \in 1..Len(p \o q) PROVE (p \o q)[i] = s[b + i]
    <3>1. CASE i <= Len(p)
      BY <1>1, <2>1, <3>1
    <3>2. CASE i > Len(p)
      <4>1. i - Len(p) \in 1..Len(q) /\ Len(p) + (i - Len(p)) = i /\ n - 1 + (i - Len(p)) = b + i
        <5>1. Len(p) \in Nat /\ Len(q) \in Nat /\ n - 1 \in Nat /\ Len(p) = (n - 1) - b
          BY <1>1, <1>2
        <5>2. i \in 1..(Len(p) + Len(q))
          BY <2>1
        <5>3. PICK a \in Nat : a = Len(p)
          BY <5>1
        <5>4. PICK c \in Nat : c = Len(q)
          BY <5>1
        <5>5. PICK m \in Nat : m = n - 1
          BY <5>1
        <5>6. i \in 1..(a + c) /\ i > a /\ a = m - b /\ i \in Int
          BY <3>2, <5>1, <5>2, <5>3, <5>4, <5>5
        <5>7. i - a \in 1..c /\ a + (i - a) = i /\ m + (i - a) = b + i
          BY ONLY <5>6, a \in Nat, b \in Nat, c \in Nat, m \in Nat, SMT
        <5> QED  BY <5>3, <5>4, <5>5, <5>7
      <4> DEFINE k == i - Len(p)
      <4>2. (p \o q)[Len(p) + k] = q[k] /\ q[k] = s[n - 1 + k]
        BY <1>2, <2>1, <4>1
      <4>3. Len(p) + k = i /\ n - 1 + k = b + i
        BY <4>1
      <4> HIDE DEF k
      <4>4. (p \o q)[i] = q[k]
        BY ONLY <4>2, <4>3, Zenon
      <4>5. s[b + i] = q[k]
        BY ONLY <4>2, <4>3, Zenon
      <4> QED  BY ONLY <4>4, <4>5
    <3> QED  BY <3>1, <3>2, <1>1
  <2> QED  BY <2>1, <2>2, <2>3
<1> DEFINE x == p \o q
<1>6. x \in Seq(Events) /\ Len(x) = Len(s) - b /\ \A i \in 1..Len(x) : x[i] = s[b + i]
  BY <1>5
<1> HIDE DEF x
<1>7. /\ x \o u \in Seq(Events) /\ Len(x \o u) = Len(x) + Len(u)
      /\ (\A i \in 1..Len(x) : (x \o u)[i] = x[i]) /\ \A i \in 1..Len(u) : (x \o u)[Len(x) + i] = u[i]
  BY <1>6, ConcatType
<1>8. Len(x \o u) = Len(w)
  BY <1>3, <1>4, <1>6, <1>7
<1>9. ASSUME NEW i \in 1..Len(w) PROVE (x \o u)[i] = w[i]
  <2>1. CASE i <= Len(x)
    <3>1. i \in 1..Len(x) /\ b + i \in 1..Len(s)
      BY <1>6, <1>7, <1>8, <2>1
    <3> QED  BY <1>3, <1>4, <1>6, <1>7, <3>1
  <2>2. CASE i > Len(x)
    <3>1. i - Len(x) \in 1..Len(u) /\ Len(x) + (i - Len(x)) = i /\ Len(s) + (i - Len(x)) = b + i
      <4>1. Len(x) \in Nat /\ Len(u) \in Nat /\ Len(s) \in Nat /\ Len(x) = Len(s) - b
        BY <1>6
      <4>2. i \in 1..(Len(x) + Len(u))
        BY <1>7, <1>8
      <4> QED  BY <2>2, <4>1, <4>2, Shifted
    <3> DEFINE k == i - Len(x)
    <3>2. w[i] = v[b + i]
      BY <1>4
    <3>3. (x \o u)[Len(x) + k] = u[k] /\ v[Len(s) + k] = u[k]
      BY <1>3, <1>7, <3>1
    <3>4. Len(x) + k = i /\ Len(s) + k = b + i
      BY <3>1
    <3> HIDE DEF k
    <3>5. (x \o u)[i] = u[k]
      BY ONLY <3>3, <3>4, Zenon
    <3>6. v[b + i] = u[k]
      BY ONLY <3>3, <3>4, Zenon
    <3> QED  BY ONLY <3>2, <3>5, <3>6
  <2>3. Len(x) \in Nat /\ Len(w) \in Nat
    BY <1>4, <1>6
  <2>4. i <= Len(x) \/ i > Len(x)
    BY <2>3
  <2> QED  BY <2>1, <2>2, <2>4, Zenon
<1>10. x \o u = w
  BY <1>4, <1>7, <1>8, <1>9, SeqEqual
<1> QED  BY <1>10 DEF x, p, q, v, w

\* No reader misses an event: NoEventIsMissed.
LEMMA MissesNone ==
    ASSUME TypeInv, ReaderInv
    PROVE  NoEventIsMissed
<1> SUFFICES ASSUME NEW r \in Readers, test \in Helpers, reader[r] # 0, session = "alive"
             PROVE  seen[r] \o SubSeq(events, reader[r], Len(events)) \o queue
                        = SubSeq(raised, born[r] + 1, Len(raised))
  BY DEF NoEventIsMissed
<1>1. raised = events \o queue /\ Follows(r)
  BY DEF ReaderInv, NothingDropped
<1> DEFINE n == reader[r]
           b == born[r]
<1>2. b \in Nat /\ n \in Nat /\ events \in Seq(Events) /\ queue \in Seq(Events)
  BY DEF TypeInv
<1>3. b < n /\ n <= Len(events) + 1 /\ seen[r] = SubSeq(events, b + 1, n - 1)
  BY <1>1 DEF Follows
<1> HIDE DEF n, b
<1>4. SubSeq(events, b + 1, n - 1) \o SubSeq(events, n, Len(events)) \o queue
         = SubSeq(events \o queue, b + 1, Len(events \o queue))
  BY <1>2, <1>3, SplitAt
<1> QED  BY <1>1, <1>3, <1>4, Zenon DEF n, b

\* The wait for focus is ahead of the event: FocusIsAhead.
LEMMA FocusAhead ==
    ASSUME TypeInv, SessionInv, EventInv, ReaderInv, FocusInv
    PROVE  FocusIsAhead
<1> SUFFICES ASSUME At("focus"), state = "FOCUSED"
             PROVE  Contains(SubSeq(events, reader["manager"], Len(events)) \o queue, "FOCUSED")
  BY DEF FocusIsAhead
<1>1. outcome = "none" /\ doing[1] = "focus"
  BY DEF At
<1>2. test \in {"helper", "manager"} /\ step = 6
  BY <1>1, StepKind DEF Scripted
<1>3. 6 > ManagerAt[test] /\ 6 > CreateAt[test] /\ test \in Helpers
  BY <1>2, Places DEF Helpers, TypeInv
<1>4. session = "alive" /\ NoFocusRead /\ ReadersAt /\ NothingDropped
  BY <1>1, <1>2, <1>3 DEF SessionInv, FocusInv, ReaderInv
<1>5. raised = events \o queue
  BY <1>3, <1>4 DEF NothingDropped
<1> DEFINE n == reader["manager"]
<1>6. n \in Nat /\ n # 0 /\ n <= Len(events) + 1 /\ events \in Seq(Events) /\ queue \in Seq(Events)
  <2>1. "manager" \in Readers
    BY DEF Readers
  <2> QED  BY <1>2, <1>3, <1>4, <2>1 DEF ReadersAt, ReaderInv, Follows, TypeInv
<1>7. \A i \in 1..(n - 1) : events[i] # "FOCUSED"
  BY <1>2, <1>3, <1>4 DEF NoFocusRead
<1> HIDE DEF n
<1>8. PICK i \in 1..Len(events \o queue) : (events \o queue)[i] = "FOCUSED"
  <2>1. "FOCUSED" \in ToSet(raised) /\ raised \in Seq(Events)
    BY DEF EventInv, TypeInv
  <2>2. PICK i \in DOMAIN raised : raised[i] = "FOCUSED"
    BY <2>1, Zenon DEF ToSet
  <2> QED  BY <1>5, <2>1, <2>2
<1> DEFINE q == SubSeq(events, n, Len(events))
           y == q \o queue
<1>9. q \in Seq(Events) /\ Len(q) = Len(events) - n + 1 /\ \A j \in 1..Len(q) : q[j] = events[n - 1 + j]
  BY <1>6
<1> HIDE DEF q
<1>10. y \in Seq(Events) /\ Len(y) = Len(q) + Len(queue) /\ (\A j \in 1..Len(q) : y[j] = q[j])
       /\ \A j \in 1..Len(queue) : y[Len(q) + j] = queue[j]
  BY <1>6, <1>9, ConcatType
<1> HIDE DEF y
<1>11. /\ Len(events \o queue) = Len(events) + Len(queue)
       /\ \A j \in 1..Len(events) : (events \o queue)[j] = events[j]
       /\ \A j \in 1..Len(queue) : (events \o queue)[Len(events) + j] = queue[j]
  BY <1>6, ConcatType
<1>12. \E j \in 1..Len(y) : y[j] = "FOCUSED"
  <2>1. CASE i <= Len(events)
    <3>1. i \in 1..Len(events) /\ events[i] = "FOCUSED"
      BY <1>6, <1>8, <1>11, <2>1
    <3>2. i >= n
      BY <1>6, <1>7, <3>1
    <3>3. i - n + 1 \in 1..Len(q) /\ n - 1 + (i - n + 1) = i /\ i - n + 1 \in 1..Len(y)
      BY <1>6, <1>9, <1>10, <3>1, <3>2
    <3> QED  BY <1>9, <1>10, <3>1, <3>3
  <2>2. CASE i > Len(events)
    <3>1. i - Len(events) \in 1..Len(queue) /\ Len(events) + (i - Len(events)) = i
      BY <1>6, <1>11, <2>2
    <3>2. Len(q) + (i - Len(events)) \in 1..Len(y)
      BY <1>6, <1>9, <1>10, <3>1
    <3> DEFINE k == i - Len(events)
               j == Len(q) + k
    <3>3. y[j] = queue[k] /\ (events \o queue)[Len(events) + k] = queue[k] /\ j \in 1..Len(y)
      BY <1>10, <1>11, <3>1, <3>2
    <3>4. Len(events) + k = i
      BY <3>1
    <3> HIDE DEF k, j
    <3>5. (events \o queue)[i] = queue[k]
      BY ONLY <3>3, <3>4, Zenon
    <3>6. y[j] = "FOCUSED"
      BY ONLY <1>8, <3>3, <3>5, Zenon
    <3> QED  BY ONLY <3>3, <3>6, Zenon
  <2> QED  BY <2>1, <2>2, <1>6
<1>13. Contains(y, "FOCUSED")
  BY ONLY <1>12, Zenon DEF Contains
<1> QED  BY ONLY <1>13 DEF y, q, n

MainInv == TypeInv /\ PlaceInv /\ SessionInv /\ EventInv /\ PhaseInv /\ ReaderInv /\ FocusInv

\* The invariant of the tests holds when a test begins.
LEMMA MainInit == Init => MainInv
<1> SUFFICES ASSUME Init PROVE MainInv
  OBVIOUS
<1>1. /\ test \in DOMAIN Script /\ graphics \in BOOLEAN /\ FrameCount \in Nat
  BY TestsAssumption, GraphicsAssumption, FrameAssumption DEF Init
<1>2. /\ state = "UNKNOWN" /\ running = FALSE /\ exiting = FALSE /\ frame = {} /\ image = "free"
      /\ queue = <<>> /\ raised = <<>> /\ events = <<>>
      /\ seen = [r \in Readers |-> <<>>] /\ born = [r \in Readers |-> 0] /\ reader = [r \in Readers |-> 0]
      /\ sessionState = "UNKNOWN" /\ session = "none" /\ device = FALSE
      /\ step = 1 /\ pc = "top" /\ outcome = "none"
      /\ pipe = [app |-> "none", left |-> FrameCount, queued |-> 0, completed |-> FALSE,
                 result |-> "SUCCESS"]
  BY Zenon DEF Init, Life!Init
<1>3. /\ CreateAt[test] \in Nat /\ BeginAt[test] \in Nat /\ ManagerAt[test] \in Nat /\ CreateAt[test] >= 1
      /\ CreateAt[test] < BeginAt[test] /\ CreateAt[test] < ManagerAt[test]
      /\ Len(Script[test]) \in Nat /\ 1 \in 1..Len(Script[test])
  <2>1. CreateAt[test] >= 1
    BY <1>1, Scripts DEF CreateAt
  <2>2. Len(Script[test]) # 0
    BY <1>1, Scripts, Zenon
  <2>3. Len(Script[test]) \in Nat
    BY <1>1, Scripts, Zenon
  <2>4. /\ CreateAt[test] \in Nat /\ BeginAt[test] \in Nat /\ ManagerAt[test] \in Nat
        /\ CreateAt[test] < BeginAt[test] /\ CreateAt[test] < ManagerAt[test]
    BY <1>1, Places, Zenon
  <2>5. 1 \in 1..Len(Script[test])
    BY <2>2, <2>3
  <2> QED  BY <2>1, <2>3, <2>4, <2>5
<1>4. TypeInv
  <2>1. queue \in Seq(Events) /\ raised \in Seq(Events) /\ events \in Seq(Events)
        /\ reader \in [Readers -> Nat] /\ born \in [Readers -> Nat] /\ seen \in [Readers -> Seq(Events)]
    <3>1. <<>> \in Seq(Events) /\ 0 \in Nat
      OBVIOUS
    <3> QED  BY <1>2, <3>1, Zenon
  <2>2. state \in States /\ sessionState \in States /\ session \in {"none", "alive", "destroyed"}
        /\ frame \subseteq {"waited", "begun"} /\ image \in {"free", "acquired", "waited"}
        /\ step \in 1..Len(Script[test])
    BY <1>2, <1>3 DEF States
  <2>3. running \in BOOLEAN /\ exiting \in BOOLEAN /\ device \in BOOLEAN /\ FALSE \in BOOLEAN
    BY <1>2, Zenon
  <2>4. pipe \in PipeType
    BY <1>1, <1>2, <2>3, PipeRecord, Zenon DEF PipeType, Apps, Results
  <2> QED  BY <1>1, <2>1, <2>2, <2>3, <2>4, Zenon DEF TypeInv, PipeType, Apps, Results
<1>5. PlaceInv
  BY <1>2, PlacesAre DEF PlaceInv
<1>6. SessionInv
  BY <1>2, <1>3 DEF SessionInv, DeviceOutlivesSession, CleanedUp
<1>7. EventInv
  BY <1>2 DEF EventInv, ToSet
<1>8. PhaseInv
  <2>1. ScriptRuns
    BY <1>2, <1>3 DEF ScriptRuns
  <2>2. RaisedInv
    BY <1>2 DEF RaisedInv, ToSet
  <2> QED  BY <2>1, <2>2 DEF PhaseInv
<1>9. ReaderInv
  <2>1. "private" \in Readers /\ "manager" \in Readers
    BY DEF Readers
  <2>2. \A r \in Readers : reader[r] = 0 /\ seen[r] = <<>> /\ born[r] = 0
    BY <1>2
  <2>3. ReadersAt
    BY <1>2, <1>3, <2>1, <2>2 DEF ReadersAt
  <2>4. NothingDropped
    BY <1>2 DEF NothingDropped
  <2> QED  BY <2>2, <2>3, <2>4 DEF ReaderInv, Follows
<1>10. FocusInv
  BY <1>2, <1>3 DEF FocusInv, NoFocusYet, NoFocusRead, ToSet
<1> QED  BY <1>4, <1>5, <1>6, <1>7, <1>8, <1>9, <1>10 DEF MainInv

\* The steps, as the proofs take them.
LEMMA NextIs ==
    ASSUME Next \/ UNCHANGED vars
    PROVE  \/ Step \/ Create \/ (\E s \in States : RuntimeChanges(s)) \/ ProfileChanges
           \/ DestroySession \/ ShutdownDevice \/ LeaveBehind \/ AppThread \/ Worker
           \/ DeadlinePasses \/ UNCHANGED vars
  BY Zenon DEF Next, Framework, Over, Step, Reading, Ticking, Beginning, Ending, Framing, Threading, Plain

\* Every step keeps the invariant of the tests.
LEMMA MainNext ==
    ASSUME MainInv, [Next]_vars
    PROVE  MainInv'
<1>1. TypeInv /\ PlaceInv /\ SessionInv /\ EventInv /\ PhaseInv /\ ReaderInv /\ FocusInv
  BY DEF MainInv
<1>2. CASE Step
  BY <1>1, <1>2, StepTyped, StepPlace, StepSession, StepEvents, BeginningPhase, OtherPhase, StepReaders,
     StepFocus DEF MainInv
<1>3. CASE Create
  BY <1>1, <1>3, CreateTyped, CreatePlace, CreateSession, CreateEvents, CreatePhase, CreateReaders,
     CreateFocus DEF MainInv
<1>4. ASSUME NEW s \in States, RuntimeChanges(s) PROVE MainInv'
  BY <1>1, <1>4, RuntimeChangesTyped, RestPlace, RestSession, RuntimeChangesEvents, RuntimeChangesPhase,
     RuntimeChangesReaders, RestFocus DEF MainInv
<1>5. CASE ProfileChanges
  BY <1>1, <1>5, ProfileChangesTyped, RestPlace, RestSession, ProfileChangesEvents, ProfileChangesPhase,
     ProfileChangesReaders, RestFocus DEF MainInv
<1>6. CASE DestroySession
  BY <1>1, <1>6, DestroySessionTyped, RestPlace, RestSession, RestEvents, RestPhase, RestReaders,
     RestFocus DEF MainInv
<1>7. CASE ShutdownDevice
  BY <1>1, <1>7, ShutdownDeviceTyped, RestPlace, RestSession, RestEvents, RestPhase, RestReaders,
     RestFocus DEF MainInv
<1>8. CASE AppThread
  BY <1>1, <1>8, AppThreadTyped, RestPlace, RestSession, RestEvents, RestPhase, RestReaders,
     RestFocus DEF MainInv
<1>9. CASE LeaveBehind \/ Worker \/ DeadlinePasses \/ UNCHANGED vars
  BY <1>1, <1>9, RestTyped, RestPlace, RestSession, RestEvents, RestPhase, RestReaders,
     RestFocus DEF MainInv
<1> QED  BY <1>2, <1>3, <1>4, <1>5, <1>6, <1>7, <1>8, <1>9, NextIs

\* However the runtime and the steps of a test interleave: where each test stands.
THEOREM Main == Spec => []MainInv
  BY MainInit, MainNext, PTL DEF Spec

\* No reader misses an event, and the wait for focus begins before the event can be read
\* (event_reader.cpp, ActionLayerManager).
THEOREM ReadersReadAll == Spec => []ReadersSeeAll
<1>1. MainInv => ReadersSeeAll
  BY MissesNone, FocusAhead DEF MainInv, ReadersSeeAll
<1> QED  BY <1>1, Main, PTL

\* The device is shut down after the session is destroyed, and both are given back.
THEOREM DeviceLast == Spec => [](DeviceOutlivesSession /\ CleanedUp)
<1>1. MainInv => DeviceOutlivesSession /\ CleanedUp
  BY DEF MainInv, SessionInv
<1> QED  BY <1>1, Main, PTL

CrashInv == outcome = "crashed" => api # "opengl"
ThreadInv == WorkerInv /\ FlawInv /\ CrashInv

\* The invariant of the workers where nothing of them changes.
LEMMA WorkerStays ==
    ASSUME WorkerInv, FlawInv, UNCHANGED <<worker, held, alive, api, flaws>>
    PROVE  WorkerInv' /\ FlawInv'
<1>1. WorkerTypes'
  BY Zenon DEF WorkerInv, WorkerTypes
<1>2. ASSUME NEW t \in Workers PROVE (Placed(t) /\ AtHand(t) /\ MadeInOrder(t))'
  <2>1. Placed(t) /\ AtHand(t) /\ MadeInOrder(t)
    BY DEF WorkerInv
  <2>2. Placed(t)'
    BY <2>1, Zenon DEF Placed, Before, Needed
  <2>3. AtHand(t)'
    BY <2>1, Zenon DEF AtHand
  <2>4. MadeInOrder(t)'
    BY <2>1, Zenon DEF MadeInOrder
  <2> QED  BY <2>2, <2>3, <2>4
<1>3. FlawInv'
  BY Zenon DEF FlawInv
<1> QED  BY <1>1, <1>2, <1>3, Zenon DEF WorkerInv

\* The same with the outcome of the test.
LEMMA ThreadKept ==
    ASSUME ThreadInv, UNCHANGED exerciseVars, outcome' = outcome \/ outcome' # "crashed"
    PROVE  ThreadInv'
<1>1. UNCHANGED <<worker, held, alive, api, flaws>>
  BY DEF exerciseVars
<1>2. WorkerInv' /\ FlawInv'
  BY <1>1, WorkerStays, Zenon DEF ThreadInv
<1>3. CrashInv'
  BY <1>1 DEF ThreadInv, CrashInv
<1> QED  BY <1>2, <1>3 DEF ThreadInv

\* The tests change nothing of the threads but where they start them.
LEMMA StepThreads ==
    ASSUME TypeInv, PlaceInv, ThreadInv, Step
    PROVE  ThreadInv'
<1>1. outcome = "none" /\ Moves
  BY StepOpen, MovesAre
<1>2. outcome' # "crashed"
  BY <1>1, Zenon DEF Moves, Goes, Goto, Advances, Ends
<1>3. CASE UNCHANGED exerciseVars
  BY <1>2, <1>3, ThreadKept
<1>4. CASE ~ UNCHANGED exerciseVars
  <2>1. Setup \/ CreateLayers \/ SyncUntilFocus => UNCHANGED exerciseVars
    BY Zenon DEF Setup, CreateLayers, SyncUntilFocus, apart
  <2>2. ~Reading /\ ~Ticking /\ ~NewManager /\ ~Beginning /\ ~Ending /\ ~Framing /\ ~Threading
        /\ ~RequestExit
    BY <1>4, ReadingKeeps, TickingKeeps, NewManagerKeeps, BeginningKeeps, EndingKeeps, FramingKeeps,
       ThreadingKeeps, RequestExitKeeps, Zenon
  <2>3. RunTestEnvironment
    BY <1>4, <2>1, <2>2, Zenon DEF Step, Plain
  <2>4. StartWorkers(APIs)
    BY <1>4, <2>3, Zenon DEF RunTestEnvironment
  <2>5. WorkerInv' /\ FlawInv'
    BY <2>4, StartWorkersKept, StartWorkersFlaw, Zenon DEF ThreadInv
  <2> QED  BY <1>2, <2>5 DEF ThreadInv, CrashInv
<1> QED  BY <1>3, <1>4

\* Workers: their own steps, and the crash of two that adopt at a time.
LEMMA WorkerThreads ==
    ASSUME ThreadInv, Worker
    PROVE  ThreadInv'
<1>0. WorkerInv /\ FlawInv /\ CrashInv
  BY DEF ThreadInv
<1>1. At("threads")
  BY DEF Worker
<1>2. CASE \E t \in Workers : WorkerStep(t, doing[2], graphics, pc = "join")
  <2>1. PICK t \in Workers : WorkerStep(t, doing[2], graphics, pc = "join")
    BY <1>2
  <2>2. WorkerInv' /\ FlawInv'
    BY <1>0, <2>1, WorkerStepKept, WorkerStepFlaw, Zenon
  <2>3. outcome' = outcome \/ (AdoptsRace /\ UNCHANGED exerciseVars)
    BY Zenon DEF Worker
  <2>4. CASE outcome' = outcome
    BY <1>1, <2>2, <2>4 DEF ThreadInv, CrashInv, At
  <2>5. CASE AdoptsRace /\ UNCHANGED exerciseVars
    BY <1>0, <2>2, <2>5, NoRace DEF ThreadInv, CrashInv, exerciseVars
  <2> QED  BY <2>3, <2>4, <2>5
<1>3. CASE AdoptsRace /\ UNCHANGED exerciseVars
  <2>1. api' = api /\ api # "opengl"
    BY <1>0, <1>3, NoRace DEF exerciseVars
  <2>2. WorkerInv' /\ FlawInv'
    BY <1>0, <1>3, WorkerStays, Zenon DEF exerciseVars
  <2> QED  BY <2>1, <2>2 DEF ThreadInv, CrashInv
<1> QED  BY <1>2, <1>3, Zenon DEF Worker

\* Workers: the other steps.
LEMMA RestThreads ==
    ASSUME ThreadInv,
           \/ Create \/ DestroySession \/ ShutdownDevice \/ LeaveBehind \/ AppThread \/ DeadlinePasses
           \/ ProfileChanges \/ UNCHANGED vars \/ \E s \in States : RuntimeChanges(s)
    PROVE  ThreadInv'
<1>1. CASE Create
  <2>1. UNCHANGED exerciseVars /\ outcome = "none"
    BY <1>1 DEF Create, At, apart
  <2>2. Goto("session") \/ Done \/ Fail("create")
    BY <1>1, Zenon DEF Create
  <2>3. Goto("session") => outcome' = outcome
    BY DEF Goto
  <2>4. Done => outcome' = "passed" \/ outcome' = outcome
    BY Zenon DEF Done
  <2>5. outcome' = outcome \/ outcome' # "crashed"
    BY <2>2, <2>3, <2>4, FailOn DEF Ends
  <2> QED  BY <2>1, <2>5, ThreadKept
<1>2. CASE DestroySession \/ ShutdownDevice \/ LeaveBehind
  BY <1>2, ThreadKept DEF DestroySession, ShutdownDevice, LeaveBehind, Goto, apart
<1>3. CASE AppThread
  BY <1>3, AppThreadKeeps, ThreadKept
<1>4. CASE DeadlinePasses \/ ProfileChanges \/ UNCHANGED vars
  BY <1>4, ThreadKept DEF DeadlinePasses, ProfileChanges, vars, apart
<1>5. ASSUME NEW s \in States, RuntimeChanges(s) PROVE ThreadInv'
  BY <1>5, ThreadKept DEF RuntimeChanges, apart
<1> QED  BY <1>1, <1>2, <1>3, <1>4, <1>5

\* Every step keeps the invariant of the workers.
LEMMA ThreadNext ==
    ASSUME TypeInv, PlaceInv, ThreadInv, [Next]_vars
    PROVE  ThreadInv'
  BY NextIs, StepThreads, WorkerThreads, RestThreads, Zenon

\* However the workers interleave: their invariant.
THEOREM Threads == Spec => []ThreadInv
<1>1. Init => ThreadInv
  <2>1. Init => ExerciseInit /\ outcome = "none"
    BY DEF Init
  <2> QED  BY <2>1, ExerciseStarts DEF ThreadInv, CrashInv
<1>2. MainInv => TypeInv /\ PlaceInv
  BY DEF MainInv
<1>3. MainInv /\ ThreadInv /\ [Next]_vars => ThreadInv'
  BY <1>2, ThreadNext
<1> QED  BY <1>1, <1>3, Main, PTL DEF Spec

\* Session and device are given back, and what the workers made: GivenBack.
THEOREM AllGivenBack == Spec => []GivenBack
<1>1. DeviceOutlivesSession /\ CleanedUp /\ ThreadInv => GivenBack
  BY NothingIsLeft DEF GivenBack, ThreadInv
<1> QED  BY <1>1, DeviceLast, Threads, PTL

\* Calls that may not overlap do not, and a worker or the process fails for the runtime's
\* fault only: CallsExclusive of CallsInOrder and ThreadsExplained of FailuresExplained.
THEOREM WorkersInOrder == Spec => [](CallsExclusive /\ ThreadsExplained)
<1>1. ThreadInv => CallsExclusive /\ ThreadsExplained
  BY OneAtATime, RuntimeBlamed DEF ThreadInv, ThreadsExplained, CrashInv
<1> QED  BY <1>1, Threads, PTL

\* Which action a step of the script is, by its kind and its place.
LEMMA StepsBy ==
    ASSUME PlaceInv, Step
    PROVE  /\ doing[1] = "await" => AwaitReady
           /\ doing[1] = "await_own" => AwaitOwnReady
           /\ doing[1] = "run" /\ pc = "top" => Tick
           /\ doing[1] = "run" /\ pc = "begin" => TickBegins
           /\ doing[1] = "run" /\ pc \notin {"top", "begin"} => Framing
           /\ doing[1] = "exit" => RequestExit
           /\ doing[1] = "render" => Threading \/ Framing
           /\ Threading => doing[1] = "render"
           /\ Framing => pc \in FramePlaces \/ pc = "frame" \/ doing[1] \in {"focus", "sync"}
<1>1. outcome = "none" /\ pc \in PlacesOf(doing[1])
  BY StepOpen DEF PlaceInv
<1>2. /\ pc \in {"poll", "look"} => doing[1] \in {"focus", "sync"}
      /\ pc = "begin" => doing[1] = "run"
      /\ pc \in FramePlaces => doing[1] \in {"run", "submit", "focus", "sync", "render"}
      /\ pc = "frame" => doing[1] \in {"run", "submit"}
  BY <1>1, PlacesOnly DEF FramePlaces
<1>3. /\ doing[1] \in {"await", "await_own", "exit"} => pc = "top"
  BY <1>1, PlacesOnly
<1>4. /\ PollEvents => pc = "poll"
      /\ LookForFocus => doing[1] = "focus"
      /\ SyncUntilFocus => doing[1] = "sync"
      /\ AwaitReady => doing[1] = "await"
      /\ AwaitOwnReady => doing[1] = "await_own"
      /\ Tick => doing[1] = "run" /\ pc = "top"
      /\ NextSessionState => doing[1] \in {"next", "submit", "quiet"}
      /\ BeginSession => doing[1] = "begin"
      /\ TickBegins => doing[1] = "run" /\ pc = "begin"
  BY DEF PollEvents, LookForFocus, SyncUntilFocus, AwaitReady, AwaitOwnReady, Tick, NextSessionState,
     BeginSession, TickBegins, At
<1>5. /\ EndSession => doing[1] = "end"
      /\ EndEarly => doing[1] = "end_early"
      /\ NewManager => doing[1] = "manager"
      /\ RequestExit => doing[1] = "exit"
      /\ Setup => doing[1] = "setup"
      /\ CreateLayers => doing[1] = "layers"
      /\ RunTestEnvironment => doing[1] = "threads"
      /\ Threading => doing[1] = "render"
  BY DEF EndSession, EndEarly, NewManager, RequestExit, Setup, CreateLayers, RunTestEnvironment, Threading,
     StartAppThread, CheckResult, DequeueFrame, JoinAppThread, At
<1>6. Framing => pc \in FramePlaces \/ pc = "frame" \/ (pc = "top" /\ doing[1] \in {"focus", "sync"})
  BY DEF Framing, WaitFrame, BeginFrame, AcquireImage, WaitImage, ReleaseImage, EndFrame, FramePlaces
<1> QED
  BY <1>2, <1>3, <1>4, <1>5, <1>6 DEF Step, Reading, Ticking, Beginning, Ending, Plain, FramePlaces

\* What a reader of the private events has read stays read.
LEMMA ReadStays ==
    ASSUME events \in Seq(Events), NEW u \in Seq(Events), NEW n \in Nat, NEW m \in Nat, n <= m,
           n <= Len(events) + 1,
           \E i \in 1..(n - 1) : events[i] = "READY"
    PROVE  \E i \in 1..(m - 1) : (events \o u)[i] = "READY"
<1>1. PICK i \in 1..(n - 1) : events[i] = "READY"
  OBVIOUS
<1>2. i \in 1..Len(events) /\ i \in 1..(m - 1)
  OBVIOUS
<1>3. (events \o u)[i] = events[i]
  BY <1>2, ConcatType
<1> QED  BY <1>1, <1>2, <1>3

\* A helper waits for READY right before it begins the session, after its creation.
LEMMA OwnBefore ==
    ASSUME TypeInv, test \in Helpers, step + 1 = BeginAt[test]
    PROVE  doing[1] = "await_own" /\ step > CreateAt[test]
<1>1. CASE test = "helper"
  <2>1. step = 3 /\ CreateAt[test] = 1
    BY <1>1, Places DEF TypeInv
  <2>2. Script[test][3] = <<"await_own">>
    BY <1>1 DEF Script
  <2> QED  BY <2>1, <2>2 DEF doing
<1>2. CASE test = "manager"
  <2>1. step = 4 /\ CreateAt[test] = 1
    BY <1>2, Places DEF TypeInv
  <2>2. Script[test][4] = <<"await_own">>
    BY <1>2 DEF Script
  <2> QED  BY <2>1, <2>2 DEF doing
<1>3. CASE test = "pipelined"
  <2>1. step = 4 /\ CreateAt[test] = 1
    BY <1>3 DEF TypeInv, BeginAt, CreateAt
  <2>2. Script[test][4] = <<"await_own">>
    BY <1>3 DEF Script
  <2> QED  BY <2>1, <2>2 DEF doing
<1> QED  BY <1>1, <1>2, <1>3 DEF Helpers

\* READY read: the steps of the framework.
LEMMA StepReady ==
    ASSUME TypeInv, PlaceInv, ReaderInv, ReadyInv, Step
    PROVE  ReadyInv'
<1> SUFFICES ASSUME outcome' = "none", test' \in Helpers', step' >= BeginAt'[test']
             PROVE  \E i \in 1..(reader'["private"] - 1) : events'[i] = "READY"
  BY DEF ReadyInv, ReadyRead
<1>1. /\ outcome = "none" /\ test' = test /\ step \in Nat /\ (step' = step \/ step' = step + 1)
      /\ Helpers' = Helpers /\ BeginAt' = BeginAt
  BY StepForward
<1>2. "private" \in Readers /\ "manager" \in Readers /\ test \in Helpers
  BY <1>1 DEF Readers
<1>3. /\ reader \in [Readers -> Nat] /\ events \in Seq(Events) /\ queue \in Seq(Events)
      /\ reader["private"] \in Nat
  BY <1>2 DEF TypeInv
<1>4. BeginAt[test] \in Nat
  BY Places DEF TypeInv
<1>5. CASE step >= BeginAt[test]
  <2>1. \E i \in 1..(reader["private"] - 1) : events[i] = "READY"
    BY <1>1, <1>2, <1>5 DEF ReadyInv, ReadyRead
  <2>2. reader["private"] # 0 => reader["private"] <= Len(events) + 1
    BY <1>2 DEF ReaderInv, Follows
  <2>3. reader["private"] <= Len(events) + 1
    BY <1>3, <2>2
  <2>4. CASE Reading
    <3>1. events' = events \o queue
      BY <2>4, ReadingReads, ReadsOne, ReadsNone, Zenon DEF Read
    <3>2. reader'["private"] \in Nat /\ reader["private"] <= reader'["private"]
      <4>1. CASE \E r \in Readers, e \in Events : TryReadNext(r, e)
        <5>1. PICK r \in Readers : \E e \in Events : TryReadNext(r, e)
          BY <4>1
        <5>2. reader' = [reader EXCEPT ![r] = reader[r] + 1]
          BY <5>1, ReadsOne, Zenon
        <5> QED  BY <1>2, <1>3, <5>2
      <4>2. CASE \E r \in Readers : NothingToRead(r)
        <5>1. reader' = reader
          BY <4>2, ReadsNone
        <5> QED  BY <1>3, <5>1
      <4> QED  BY <2>4, <4>1, <4>2, ReadingReads, Zenon DEF Read
    <3> QED  BY <1>3, <2>1, <2>3, <3>1, <3>2, ReadStays
  <2>5. CASE ~Reading
    <3>1. events' = events /\ (~NewManager => reader' = reader)
      BY <2>5, TickingKeeps, NewManagerKeeps, BeginningKeeps, EndingKeeps, FramingKeeps,
         ThreadingKeeps, PlainKeeps, RequestExitKeeps, Zenon DEF Step, readVars
    <3>2. NewManager => reader' = [reader EXCEPT !["manager"] = Len(events) + 1]
      BY DEF NewManager, NewReader
    <3>3. reader'["private"] = reader["private"]
      BY <1>2, <1>3, <3>1, <3>2
    <3> QED  BY <2>1, <3>1, <3>3
  <2> QED  BY <2>4, <2>5
<1>6. CASE step < BeginAt[test]
  <2>1. step' = step + 1 /\ step + 1 = BeginAt[test]
    BY <1>1, <1>4, <1>6
  <2>2. doing[1] = "await_own"
    BY <1>2, <2>1, OwnBefore
  <2>3. AwaitOwnReady
    BY <2>2, StepsBy
  <2>4. TryReadNext("private", "READY")
    <3>1. Stay \/ Fail("timeout") => step' = step
      BY FailOn DEF Stay, Goto, Ends
    <3>2. AwaitOwnReady => TryReadNext("private", "READY") \/ Stay \/ Fail("timeout")
      BY Zenon DEF AwaitOwnReady
    <3> QED  BY <1>1, <2>1, <2>3, <3>1, <3>2
  <2>5. "READY" \in Events
    BY DEF Events, States
  <2>6. /\ events' \in Seq(Events) /\ reader["private"] <= Len(events') /\ "READY" = events'[reader["private"]]
        /\ reader' = [reader EXCEPT !["private"] = reader["private"] + 1]
    BY <1>2, <2>4, <2>5, ReadsOne, Zenon
  <2>7. reader'["private"] = reader["private"] + 1
    BY <1>2, <1>3, <2>6
  <2>8. reader["private"] # 0
    <3>1. reader["private"] # 0 <=> step > CreateAt[test] \/ pc = "session"
      BY <1>1 DEF ReaderInv, ReadersAt
    <3>2. step > CreateAt[test]
      BY <1>2, <2>1, OwnBefore
    <3> QED  BY <3>1, <3>2
  <2> QED  BY <1>3, <2>6, <2>7, <2>8
<1> QED  BY <1>1, <1>4, <1>5, <1>6

\* Which tests a step of the script belongs to.
LEMMA KindsOf ==
    ASSUME TypeInv
    PROVE  /\ doing[1] = "await" => test \in {"focused", "threads"}
           /\ doing[1] = "await_own" => test \in Helpers
           /\ doing[1] = "run" => test \in Running
           /\ doing[1] \in {"next", "submit", "quiet", "end_early"} => test = "cycle"
           /\ doing[1] \in {"focus", "sync"} => test \in {"helper", "manager"} /\ step > BeginAt[test]
           /\ doing[1] = "render" => test = "pipelined" /\ step = Len(Script[test]) /\ step > BeginAt[test]
           /\ doing[1] = "manager" => step = ManagerAt[test]
           /\ doing[1] = "create" => step = CreateAt[test]
           /\ doing[1] = "begin" => test # "iterated"
           /\ doing[1] = "threads" => test = "threads"
<1>1. Scripted(test, step) /\ doing = Script[test][step]
  BY StepKind DEF doing
<1> QED  BY <1>1 DEF Scripted

\* What comes right before the session begins or ends.
LEMMA ComesBefore ==
    ASSUME TypeInv, test \in Running, step' = step + 1, test' = test, step < Len(Script[test])
    PROVE  /\ step + 1 = BeginAt[test] /\ test # "iterated" =>
                 doing[1] = "await" \/ (doing[1] = "run" /\ doing[2] = "READY")
           /\ doing'[1] = "end" => doing[1] = "run" /\ doing[2] = "STOPPING"
<1>1. Scripted(test, step) /\ doing = Script[test][step]
  BY StepKind DEF doing
<1>2. doing' = Script[test][step + 1]
  BY ScriptStays DEF doing
<1>3. doing'[1] = "end" => doing[1] = "run" /\ doing[2] = "STOPPING"
  <2>1. test # "cycle"
    BY DEF Running
  <2> QED  BY <1>1, <1>2, <2>1 DEF Scripted
<1>4. ASSUME step + 1 = BeginAt[test], test # "iterated"
      PROVE  doing[1] = "await" \/ (doing[1] = "run" /\ doing[2] = "READY")
  <2>1. CASE test = "focused"
    <3>1. step = 2
      BY <1>4, <2>1 DEF BeginAt, TypeInv
    <3>2. Script[test][2] = <<"await">>
      BY <2>1 DEF Script
    <3> QED  BY <1>1, <3>1, <3>2
  <2>2. CASE test = "by_hand"
    <3>1. step = 3
      BY <1>4, <2>2 DEF BeginAt, TypeInv
    <3>2. Script[test][3] = <<"run", "READY">>
      BY <2>2 DEF Script
    <3> QED  BY <1>1, <3>1, <3>2
  <2>3. CASE test = "threads"
    <3>1. step = 5
      BY <1>4, <2>3 DEF BeginAt, TypeInv
    <3>2. Script[test][5] = <<"await">>
      BY <2>3 DEF Script
    <3> QED  BY <1>1, <3>1, <3>2
  <2> QED  BY <1>4, <2>1, <2>2, <2>3 DEF Running
<1> QED  BY <1>3, <1>4

\* ReadyInv over the other steps.
LEMMA ReadyKept ==
    ASSUME ReadyInv, UNCHANGED <<test, step, outcome, events, reader>>
    PROVE  ReadyInv'
<1>1. Helpers' = Helpers /\ BeginAt' = BeginAt
  BY DEF Helpers, BeginAt
<1> QED  BY <1>1 DEF ReadyInv, ReadyRead

\* The session is made two steps before it is begun, or earlier.
LEMMA CreatedEarly == \A t \in DOMAIN Script : CreateAt[t] + 1 < BeginAt[t]
  BY Scripts DEF CreateAt, BeginAt

\* The session is made before the step that begins it.
LEMMA CreateMoves ==
    ASSUME TypeInv, PlaceInv, Create
    PROVE  /\ UNCHANGED <<constant, pipe, exerciseVars, rtVars, queue, raised, events, seen, born, sessionState,
                          refused>>
           /\ outcome = "none" /\ pc \in {"top", "session"} /\ doing[1] = "create"
           /\ outcome' = "none" => pc' \in {"session", "top"} /\ step' < BeginAt[test]
                                   /\ (step' = step \/ (step' = step + 1 /\ step < Len(Script[test])))
           /\ outcome' # "none" => outcome' \in {"create", "terminated", "passed"}
                                   /\ (outcome' = "terminated" => Joinable)
<1>1. UNCHANGED <<constant, pipe, exerciseVars, rtVars, queue, raised, events, seen, born, sessionState,
                  refused>>
  BY DEF Create, apart
<1>2. outcome = "none" /\ pc \in {"top", "session"} /\ doing[1] = "create"
  BY Zenon DEF Create, At
<1>3. step = CreateAt[test] /\ CreateAt[test] + 1 < BeginAt[test] /\ CreateAt[test] \in Nat
      /\ BeginAt[test] \in Nat
  BY <1>2, KindsOf, Places, CreatedEarly DEF TypeInv
<1>4. Goto("session") \/ Done \/ Fail("create")
  BY Zenon DEF Create
<1>5. step \in Nat
  BY BeginsAt
<1>6. CASE Goto("session")
  BY <1>1, <1>2, <1>3, <1>5, <1>6 DEF Goto
<1>7. CASE Fail("create")
  BY <1>1, <1>2, <1>7 DEF Fail
<1>8. CASE Done
  BY <1>1, <1>2, <1>3, <1>5, <1>8 DEF Done, TypeInv
<1> QED  BY <1>1, <1>2, <1>4, <1>6, <1>7, <1>8

\* READY read: the creation of the session comes before it matters.
LEMMA CreateReady ==
    ASSUME TypeInv, PlaceInv, Create
    PROVE  ReadyInv'
<1>1. Helpers' = Helpers /\ BeginAt' = BeginAt /\ test' = test
  BY CreateMoves DEF Helpers, BeginAt, constant
<1>2. outcome' = "none" => step' < BeginAt[test]
  BY CreateMoves
<1>3. step \in Nat /\ BeginAt[test] \in Nat
  BY BeginsAt
<1>4. outcome' = "none" => step' \in Nat
  BY <1>3, CreateMoves
<1> QED  BY <1>1, <1>2, <1>3, <1>4 DEF ReadyInv, ReadyRead

\* What a test that polls by itself has polled.
LEMMA PolledRaised ==
    ASSUME TypeInv, Unpolled
    PROVE  /\ \A e : Polled(e) => e \in ToSet(raised)
           /\ \A e \in ToSet(queue) : e \in ToSet(raised)
<1>1. Len(raised) \in Nat /\ Len(queue) \in Nat /\ DOMAIN raised = 1..Len(raised) /\ DOMAIN queue = 1..Len(queue)
  BY DEF TypeInv
<1>2. ASSUME NEW e, Polled(e) PROVE e \in ToSet(raised)
  BY <1>1, <1>2 DEF Polled, ToSet, Unpolled
<1>3. ASSUME NEW e \in ToSet(queue) PROVE e \in ToSet(raised)
  <2>1. PICK i \in 1..Len(queue) : queue[i] = e
    BY <1>1 DEF ToSet
  <2>2. raised[Len(raised) - Len(queue) + i] = e /\ Len(raised) - Len(queue) + i \in 1..Len(raised)
    BY <1>1, <2>1 DEF Unpolled
  <2> QED  BY <1>1, <2>2 DEF ToSet
<1> QED  BY <1>2, <1>3

\* Who takes the whole queue has polled what was raised.
LEMMA PollsAll ==
    ASSUME TypeInv, Unpolled, queue' = <<>>, raised' = raised
    PROVE  /\ Unpolled'
           /\ \A e \in ToSet(raised) : Polled(e)'
           /\ \A e \in ToSet(queue) : Polled(e)'
           /\ \A e : Polled(e) => Polled(e)'
<1>1. Len(raised) \in Nat /\ DOMAIN raised = 1..Len(raised) /\ Len(queue') = 0
  BY DEF TypeInv
<1>2. Unpolled'
  BY <1>1 DEF Unpolled
<1>3. ASSUME NEW e \in ToSet(raised) PROVE Polled(e)'
  <2>1. PICK i \in 1..Len(raised) : raised[i] = e
    BY <1>1 DEF ToSet
  <2>2. i \in 1..(Len(raised') - Len(queue'))
    BY <1>1
  <2> QED  BY <2>1, <2>2 DEF Polled
<1> QED  BY <1>2, <1>3, PolledRaised

\* Who takes the head of the queue has polled that event too.
LEMMA PollsOne ==
    ASSUME TypeInv, Unpolled, queue # <<>>, queue' = Tail(queue), raised' = raised
    PROVE  /\ Unpolled' /\ \A e : e = Head(queue) => Polled(e)'
           /\ \A e : Polled(e) => Polled(e)'
           /\ Len(raised) - Len(queue) + 1 \in DOMAIN raised
           /\ raised[Len(raised) - Len(queue) + 1] = Head(queue)
<1>1. /\ Len(raised) \in Nat /\ Len(queue) \in Nat \ {0} /\ DOMAIN raised = 1..Len(raised)
      /\ Len(queue') = Len(queue) - 1 /\ Head(queue) = queue[1]
      /\ \A i \in 1..(Len(queue) - 1) : queue'[i] = queue[i + 1]
  BY DEF TypeInv
<1>2. raised[Len(raised) - Len(queue) + 1] = queue[1] /\ Len(queue) <= Len(raised)
  BY <1>1 DEF Unpolled
<1>3. ASSUME NEW i \in 1..Len(queue') PROVE queue'[i] = raised'[Len(raised') - Len(queue') + i]
  <2>1. i \in 1..(Len(queue) - 1) /\ i + 1 \in 1..Len(queue)
    BY <1>1
  <2>2. queue[i + 1] = raised[Len(raised) - Len(queue) + (i + 1)]
    BY <2>1 DEF Unpolled
  <2>3. Len(raised') - Len(queue') + i = Len(raised) - Len(queue) + (i + 1)
    BY <1>1, <2>1
  <2> QED  BY <1>1, <2>1, <2>2, <2>3
<1>4. Unpolled'
  BY <1>1, <1>2, <1>3 DEF Unpolled
<1>5. Len(raised) - Len(queue) + 1 \in 1..(Len(raised') - Len(queue'))
  BY <1>1, <1>2
<1>6. ASSUME NEW e, e = Head(queue) PROVE Polled(e)'
  <2>1. raised'[Len(raised) - Len(queue) + 1] = e
    BY <1>1, <1>2, <1>6
  <2> QED  BY <1>5, <2>1 DEF Polled
<1>7. ASSUME NEW e, Polled(e) PROVE Polled(e)'
  <2>1. PICK i \in 1..(Len(raised) - Len(queue)) : raised[i] = e
    BY <1>7 DEF Polled
  <2>2. i \in 1..(Len(raised') - Len(queue'))
    BY <1>1, <2>1
  <2> QED  BY <2>1, <2>2 DEF Polled
<1> QED  BY <1>1, <1>2, <1>4, <1>5, <1>6, <1>7

\* What is raised is not polled yet.
LEMMA PollsRaise ==
    ASSUME TypeInv, Unpolled, NEW e \in Events, Raise(e)
    PROVE  Unpolled' /\ \A f : Polled(f) => Polled(f)'
<1>1. queue' = Append(queue, e) /\ raised' = Append(raised, e) /\ raised \in Seq(Events) /\ queue \in Seq(Events)
  BY RaiseTyped DEF TypeInv
<1>2. /\ Len(queue') = Len(queue) + 1 /\ Len(raised') = Len(raised) + 1
      /\ Len(queue) \in Nat /\ Len(raised) \in Nat
      /\ \A i \in 1..Len(raised) : raised'[i] = raised[i]
      /\ \A i \in 1..Len(queue) : queue'[i] = queue[i]
      /\ queue'[Len(queue) + 1] = e /\ raised'[Len(raised) + 1] = e
  BY <1>1, Appended
<1>3. Len(queue) <= Len(raised)
  BY DEF Unpolled
<1>4. ASSUME NEW i \in 1..Len(queue') PROVE queue'[i] = raised'[Len(raised') - Len(queue') + i]
  <2>1. CASE i = Len(queue) + 1
    <3>1. Len(raised') - Len(queue') + i = Len(raised) + 1
      BY <1>2, <2>1
    <3> QED  BY <1>2, <2>1, <3>1
  <2>2. CASE i # Len(queue) + 1
    <3>1. i \in 1..Len(queue) /\ Len(raised') - Len(queue') + i = Len(raised) - Len(queue) + i
          /\ Len(raised) - Len(queue) + i \in 1..Len(raised)
      BY <1>2, <1>3, <2>2
    <3>2. queue[i] = raised[Len(raised) - Len(queue) + i]
      BY <3>1 DEF Unpolled
    <3> QED  BY <1>2, <3>1, <3>2
  <2> QED  BY <2>1, <2>2
<1>5. Unpolled'
  BY <1>2, <1>3, <1>4 DEF Unpolled
<1>6. ASSUME NEW f, Polled(f) PROVE Polled(f)'
  <2>1. PICK i \in 1..(Len(raised) - Len(queue)) : raised[i] = f
    BY <1>6 DEF Polled
  <2>2. i \in 1..(Len(raised') - Len(queue')) /\ i \in 1..Len(raised)
    BY <1>2, <1>3, <2>1
  <2> QED  BY <1>2, <2>1, <2>2 DEF Polled
<1> QED  BY <1>5, <1>6

\* Where a call of a frame goes on.
LEMMA FramingGoes ==
    ASSUME outcome = "none", Framing, outcome' = "none"
    PROVE  /\ step' = step /\ UNCHANGED <<refused, running>>
           /\ \/ /\ pc = "frame" \/ (pc = "top" /\ doing[1] \in {"focus", "sync"})
                 /\ running /\ frame' = frame \cup {"waited"} /\ image' = image /\ pc' = "waited"
              \/ /\ pc = "waited" /\ running /\ "waited" \in frame /\ frame' = {"begun"} /\ image' = image
                 /\ pc' \in {"acquire", "end"}
              \/ /\ pc = "acquire" /\ image' = "acquired" /\ frame' = frame /\ pc' = "image"
              \/ /\ pc = "image" /\ image' = "waited" /\ frame' = frame /\ pc' = "release"
              \/ /\ pc = "release" /\ image' = "free" /\ frame' = frame /\ pc' = "end"
              \/ /\ pc = "end" /\ frame' = frame \ {"begun"} /\ image' = image
                 /\ pc' = CASE doing[1] = "render" -> "check" [] doing[1] \in {"focus", "sync"} -> "poll"
                            [] OTHER -> "top"
<1>1. ~Fail("refused") /\ ~Fail("lost") /\ ~Fail("imageWait")
  BY FailOn DEF Ends
<1>2. CASE WaitFrame
  BY <1>1, <1>2, Zenon DEF WaitFrame, Call, Goto
<1>3. CASE BeginFrame
  <2>1. PICK drawn \in Drawn :
          /\ pc = "waited" /\ running /\ "waited" \in frame /\ frame' = {"begun"}
          /\ UNCHANGED <<state, running, exiting, presented, image, refused>>
          /\ Goto(IF drawn THEN "acquire" ELSE "end")
    BY <1>1, <1>3, Zenon DEF BeginFrame, Call
  <2> QED  BY <2>1 DEF Goto
<1>4. CASE AcquireImage
  BY <1>1, <1>4, Zenon DEF AcquireImage, Call, Goto
<1>5. CASE WaitImage
  BY <1>1, <1>5, Zenon DEF WaitImage, ImageWaitExpires, Call, Goto
<1>6. CASE ReleaseImage
  BY <1>1, <1>6, Zenon DEF ReleaseImage, Call, Goto
<1>7. CASE EndFrame
  BY <1>1, <1>7, Zenon DEF EndFrame, Call, Goto
<1> QED  BY <1>2, <1>3, <1>4, <1>5, <1>6, <1>7, Zenon DEF Framing

\* What a call of a frame that ends the test has met.
LEMMA FramingFails ==
    ASSUME outcome = "none", Framing, outcome' # "none"
    PROVE  /\ UNCHANGED <<frame, image, state, step>>
           /\ \/ Lost /\ Fail("lost") /\ refused' = refused
              \/ doing[1] = "run" /\ Fail("imageWait") /\ refused' = refused
              \/ /\ ~Lost /\ Fail("refused")
                 /\ \/ (pc = "frame" \/ (pc = "top" /\ doing[1] \in {"focus", "sync"})) /\ ~running
                    \/ pc = "waited" /\ ~(running /\ "waited" \in frame)
                    \/ pc = "acquire" /\ image # "free"
                    \/ pc = "image" /\ image # "acquired"
                    \/ pc = "release" /\ image # "waited"
                    \/ pc = "end" /\ ~(running /\ "begun" \in frame)
<1>1. \A l : ~Goto(l)
  BY DEF Goto
<1>2. \A why : Fail(why) => step' = step
  BY DEF Fail
<1>3. CASE WaitFrame
  <2>1. WaitFrame => /\ pc = "frame" \/ (pc = "top" /\ doing[1] \in {"focus", "sync"})
                     /\ \/ Lost /\ Fail("lost") /\ refused' = refused
                        \/ ~Lost /\ Fail("refused") /\ ~running
                     /\ UNCHANGED rtVars
    BY <1>1, Zenon DEF WaitFrame, Call
  <2> QED  BY <1>2, <1>3, <2>1, Zenon DEF rtVars
<1>4. CASE BeginFrame
  <2>1. /\ pc = "waited"
        /\ \/ Lost /\ Fail("lost") /\ refused' = refused
           \/ ~Lost /\ Fail("refused") /\ ~(running /\ "waited" \in frame)
        /\ UNCHANGED rtVars
    BY <1>1, <1>4, Zenon DEF BeginFrame, Call
  <2> QED  BY <1>2, <2>1, Zenon DEF rtVars
<1>5. CASE AcquireImage
  <2>1. /\ pc = "acquire"
        /\ \/ Lost /\ Fail("lost") /\ refused' = refused
           \/ ~Lost /\ Fail("refused") /\ image # "free"
        /\ UNCHANGED rtVars
    BY <1>1, <1>5, Zenon DEF AcquireImage, Call
  <2> QED  BY <1>2, <2>1, Zenon DEF rtVars
<1>6. CASE WaitImage
  <2>1. /\ pc = "image"
        /\ \/ Lost /\ Fail("lost") /\ refused' = refused
           \/ doing[1] = "run" /\ Fail("imageWait") /\ refused' = refused
           \/ ~Lost /\ Fail("refused") /\ image # "acquired"
        /\ UNCHANGED rtVars
    BY <1>1, <1>6, Zenon DEF WaitImage, ImageWaitExpires, Call
  <2> QED  BY <1>2, <2>1, Zenon DEF rtVars
<1>7. CASE ReleaseImage
  <2>1. /\ pc = "release"
        /\ \/ Lost /\ Fail("lost") /\ refused' = refused
           \/ ~Lost /\ Fail("refused") /\ image # "waited"
        /\ UNCHANGED rtVars
    BY <1>1, <1>7, Zenon DEF ReleaseImage, Call
  <2> QED  BY <1>2, <2>1, Zenon DEF rtVars
<1>8. CASE EndFrame
  <2>1. /\ pc = "end"
        /\ \/ Lost /\ Fail("lost") /\ refused' = refused
           \/ ~Lost /\ Fail("refused") /\ ~(running /\ "begun" \in frame)
        /\ UNCHANGED rtVars
    BY <1>1, <1>8, Zenon DEF EndFrame, Call
  <2> QED  BY <1>2, <2>1, Zenon DEF rtVars
<1> QED  BY <1>3, <1>4, <1>5, <1>6, <1>7, <1>8, Zenon DEF Framing

\* The steps of a test that polls by itself.
LEMMA RunningStep ==
    ASSUME TypeInv, PlaceInv, Step, test \in Running
    PROVE  \/ AwaitReady \/ Tick \/ BeginSession \/ TickBegins \/ EndSession \/ Framing \/ Setup
           \/ CreateLayers \/ RunTestEnvironment \/ RequestExit \/ NewManager
<1>1. outcome = "none" /\ pc \in PlacesOf(doing[1])
  BY StepOpen DEF PlaceInv
<1>2. pc \in {"poll", "look"} => doing[1] \in {"focus", "sync"}
  BY <1>1, PlacesOnly
<1>3. test \notin Helpers /\ test # "cycle" /\ test \notin {"helper", "manager", "pipelined"}
  BY DEF Running, Helpers
<1>4. doing[1] \notin {"await_own", "next", "submit", "quiet", "end_early", "focus", "sync", "render"}
  BY <1>3, KindsOf
<1>6. /\ PollEvents => pc = "poll"
      /\ LookForFocus => doing[1] = "focus"
      /\ SyncUntilFocus => doing[1] = "sync"
      /\ AwaitOwnReady => doing[1] = "await_own"
      /\ NextSessionState => doing[1] \in {"next", "submit", "quiet"}
      /\ EndEarly => doing[1] = "end_early"
      /\ Threading => doing[1] = "render"
  BY StepsBy DEF PollEvents, LookForFocus, SyncUntilFocus, AwaitOwnReady, NextSessionState, EndEarly, At
<1> QED
  BY <1>2, <1>4, <1>6 DEF Step, Reading, Ticking, Beginning, Ending, Plain

\* How those that poll nothing go on.
LEMMA OthersGo ==
    ASSUME TypeInv, PlaceInv, outcome = "none", outcome' = "none",
           \/ BeginSession \/ TickBegins \/ EndSession \/ Framing \/ Setup
           \/ CreateLayers \/ RunTestEnvironment \/ RequestExit \/ NewManager
    PROVE  /\ UNCHANGED <<test, queue, raised, events, sessionState>> /\ pc' # "begin"
           /\ \/ step' = step
              \/ step' = step + 1 /\ step < Len(Script[test]) /\ doing[1] \notin {"await", "run"}
           /\ \/ running' = running /\ pc # "begin"
              \/ running' /\ doing[1] = "begin" /\ pc # "begin"
              \/ running' /\ pc = "begin" /\ step' = step
              \/ doing[1] = "end"
<1>0. step \in 1..Len(Script[test]) /\ Len(Script[test]) \in Nat
  BY StepKind DEF TypeInv
<1>1. Done => step' = step + 1 /\ step < Len(Script[test]) /\ pc' = "top"
  BY <1>0 DEF Done
<1>2. ~Fail("refused") /\ ~Fail("lost") /\ ~Fail("create") /\ ~Fail("layers") /\ ~Fail("errors")
  BY FailOn DEF Ends
<1>3. \A l : Goto(l) => pc' = l /\ step' = step
  BY DEF Goto
<1>4. pc \in PlacesOf(doing[1])
  BY DEF PlaceInv
<1>5. pc = "begin" => doing[1] = "run"
  BY <1>4, PlacesOnly
<1>6. CASE BeginSession
  <2>1. Done /\ running' /\ doing[1] = "begin" /\ UNCHANGED <<test, queue, raised, events, sessionState>>
    BY <1>2, <1>6, Zenon DEF BeginSession, Begin, Call, At, apart, constant, readVars
  <2> QED  BY <1>1, <1>5, <2>1
<1>7. CASE TickBegins
  <2>1. Goto("frame") /\ running' /\ pc = "begin" /\ UNCHANGED <<test, queue, raised, events, sessionState>>
    BY <1>2, <1>7, Zenon DEF TickBegins, Begin, Call, At, apart, constant, readVars
  <2> QED  BY <1>3, <2>1
<1>8. CASE EndSession
  <2>1. Done /\ doing[1] = "end" /\ UNCHANGED <<test, queue, raised, events, sessionState>>
    BY <1>2, <1>8, Zenon DEF EndSession, Call, At, apart, constant, readVars
  <2> QED  BY <1>1, <2>1
<1>9. CASE RequestExit
  <2>1. Done /\ doing[1] = "exit" /\ UNCHANGED <<test, queue, raised, events, sessionState, running>>
    BY <1>2, <1>9, Zenon DEF RequestExit, Call, At, apart, constant, readVars
  <2> QED  BY <1>1, <1>5, <2>1
<1>10. CASE Setup \/ CreateLayers
  <2>1. Done /\ doing[1] \in {"setup", "layers"} /\ UNCHANGED <<test, queue, raised, events, sessionState, running>>
    BY <1>2, <1>10 DEF Setup, CreateLayers, At, apart, constant, readVars, rtVars
  <2> QED  BY <1>1, <1>5, <2>1
<1>11. CASE RunTestEnvironment
  <2>1. doing[1] = "threads" /\ UNCHANGED <<test, queue, raised, events, sessionState, running>>
    BY <1>11, Zenon DEF RunTestEnvironment, At, NotThreads, constant, readVars, rtVars
  <2>2. Done \/ Goto("signal") \/ Goto("join")
    BY <1>2, <1>11, Zenon DEF RunTestEnvironment
  <2> QED  BY <1>1, <1>3, <1>5, <2>1, <2>2
<1>13. CASE NewManager
  <2>1. Done /\ doing[1] = "manager" /\ UNCHANGED <<test, queue, raised, events, sessionState, running>>
    BY <1>13, Zenon DEF NewManager, NewReader, At, apart, constant, rtVars
  <2> QED  BY <1>1, <1>5, <2>1
<1>12. CASE Framing
  <2>1. UNCHANGED <<test, queue, raised, events, sessionState, running>>
    BY <1>12, FramingKeeps, Zenon DEF constant, readVars
  <2>2. step' = step /\ pc' # "begin" /\ pc # "begin"
    <3>1. pc # "begin" /\ step' = step
      BY <1>12, FramingGoes
    <3>2. pc' # "begin"
      BY <1>12, FramingGoes
    <3> QED  BY <3>1, <3>2
  <2> QED  BY <2>1, <2>2
<1> QED  BY <1>6, <1>7, <1>8, <1>9, <1>10, <1>11, <1>12, <1>13

\* What a test that runs knows of where it stands.
LEMMA RunsAt ==
    ASSUME TypeInv, PhaseInv, outcome = "none", test \in Running
    PROVE  /\ step \in Nat /\ BeginAt[test] \in Nat /\ RaisedInv
           /\ step < BeginAt[test] => ~running
           /\ running => step >= BeginAt[test]
           /\ test # "iterated" /\ step = BeginAt[test] => ~running /\ doing[1] = "begin"
           /\ step > BeginAt[test] => running
           /\ doing[1] = "begin" => step = BeginAt[test] /\ test # "iterated"
           /\ doing[1] = "end" => step > BeginAt[test]
           /\ test = "iterated" => step <= BeginAt[test]
           /\ test = "iterated" /\ doing[1] = "run" => step = BeginAt[test] /\ doing[2] = "FOCUSED"
           /\ doing[1] = "run" => running \/ test = "iterated" \/ (test = "by_hand" /\ doing[2] = "READY")
           /\ pc = "begin" => doing[2] # "READY"
<1>1. test # "cycle"
  BY DEF Running
<1>2. ScriptRuns /\ RaisedInv
  BY <1>1 DEF PhaseInv
<1>3. Scripted(test, step) /\ doing = Script[test][step]
  BY StepKind DEF doing
<1>4. test = "iterated" => step <= BeginAt[test]
  BY <1>3 DEF Scripted
<1>5. test = "iterated" /\ step = BeginAt[test] => doing[2] = "FOCUSED"
  <2>1. SUFFICES ASSUME test = "iterated", step = BeginAt[test] PROVE doing[2] = "FOCUSED"
    OBVIOUS
  <2>2. step = 3
    BY <2>1, Places DEF TypeInv
  <2>3. Script[test][3] = <<"run", "FOCUSED">>
    BY <2>1 DEF Script
  <2> QED  BY <1>3, <2>2, <2>3
<1>6. /\ step \in Nat /\ BeginAt[test] \in Nat
      /\ doing[1] = "begin" => step = BeginAt[test] /\ test # "iterated"
      /\ step = BeginAt[test] /\ test # "iterated" => doing[1] = "begin"
      /\ doing[1] = "end" => step > BeginAt[test]
      /\ doing[1] = "run" => step > BeginAt[test] \/ (test = "iterated" /\ step = BeginAt[test])
                             \/ (test = "by_hand" /\ doing[2] = "READY")
  BY BeginsAt
<1>7. /\ step < BeginAt[test] \/ (step = BeginAt[test] /\ test # "iterated") => ~running
      /\ step > BeginAt[test] => running
      /\ pc = "begin" => doing[2] # "READY"
  BY <1>2 DEF ScriptRuns
<1> QED  BY <1>2, <1>4, <1>5, <1>6, <1>7

\* Polled events: nothing of them changes.
LEMMA PollKept ==
    ASSUME PollInv, UNCHANGED <<test, step, pc, outcome, queue, raised, events, sessionState, running>>
    PROVE  PollInv'
<1>1. doing' = doing /\ BeginAt' = BeginAt /\ Running' = Running /\ ReadyTakenBack' = ReadyTakenBack
  BY ScriptStays DEF doing, BeginAt, Running, ReadyTakenBack
<1>2. Unpolled' = Unpolled /\ \A e : Polled(e)' = Polled(e)
  BY DEF Unpolled, Polled
<1>3. Polled(sessionState)' = Polled(sessionState) /\ ToSet(events)' = ToSet(events)
  BY DEF Polled
<1> QED  BY <1>1, <1>2, <1>3, Zenon DEF PollInv

\* PollInv over the steps that poll nothing.
LEMMA PollOn ==
    ASSUME TypeInv, PhaseInv, PollInv, outcome = "none", test \in Running,
           UNCHANGED <<test, queue, raised, events, sessionState>>, pc' # "begin",
           \/ step' = step
           \/ step' = step + 1 /\ step < Len(Script[test]) /\ doing[1] \notin {"await", "run"},
           \/ running' = running /\ pc # "begin"
           \/ running' /\ doing[1] = "begin" /\ pc # "begin"
           \/ running' /\ pc = "begin" /\ step' = step
           \/ doing[1] = "end"
    PROVE  PollInv'
<1>1. /\ Unpolled /\ \A e \in ToSet(events) : Polled(e)
      /\ doing[1] = "end" => Polled("STOPPING")
      /\ sessionState # "UNKNOWN" => Polled(sessionState)
      /\ step >= BeginAt[test] /\ (test = "iterated" => running) => Polled("READY")
      /\ test = "iterated" /\ sessionState = "READY" /\ pc # "begin" => running
      /\ pc = "begin" => sessionState = "READY" /\ (running => ReadyTakenBack)
  BY DEF PollInv
<1>2. BeginAt' = BeginAt /\ Running' = Running /\ (step' = step => doing' = doing)
  BY ScriptStays DEF doing, BeginAt, Running
<1>3. Unpolled' /\ \A e : Polled(e) => Polled(e)'
  BY <1>1 DEF Unpolled, Polled
<1>4. (\A e \in ToSet(events) : Polled(e))'
  BY <1>1 DEF Polled
<1>5. sessionState' # "UNKNOWN" => Polled(sessionState)'
  BY <1>1 DEF Polled
<1>6. doing'[1] = "end" => Polled("STOPPING")'
  <2>1. step' = step + 1 => doing'[1] # "end"
    BY ComesBefore
  <2> QED  BY <1>1, <1>2, <1>3, <2>1
<1>7. step' >= BeginAt[test] /\ (test = "iterated" => running') => Polled("READY")'
  <2>1. SUFFICES ASSUME step' >= BeginAt[test], test = "iterated" => running' PROVE Polled("READY")
    BY <1>3
  <2>2. CASE step < BeginAt[test]
    <3>1. step' = step + 1 /\ step + 1 = BeginAt[test] /\ doing[1] # "end" /\ doing[1] # "begin" /\ ~running
      BY <2>1, <2>2, RunsAt
    <3>2. test # "iterated"
      BY <2>1, <3>1
    <3> QED  BY <3>1, <3>2, ComesBefore
  <2>3. CASE step >= BeginAt[test] /\ (test = "iterated" => running)
    BY <1>1, <2>3
  <2>4. CASE step >= BeginAt[test] /\ test = "iterated" /\ ~running
    <3>1. pc = "begin"
      BY <2>1, <2>4, RunsAt
    <3> QED  BY <1>1, <3>1
  <2> QED  BY <2>2, <2>3, <2>4, RunsAt
<1>8. test = "iterated" /\ sessionState = "READY" => running'
  BY <1>1, RunsAt
<1> QED  BY <1>1, <1>2, <1>3, <1>4, <1>5, <1>6, <1>7, <1>8, Zenon DEF PollInv

\* The loop that waits for READY takes all there is.
LEMMA AwaitGoes ==
    ASSUME TypeInv, PlaceInv, ReaderInv, AwaitReady, outcome' = "none"
    PROVE  /\ events' = events \o queue /\ queue' = <<>> /\ UNCHANGED <<test, raised, running>>
           /\ pc' = "top" /\ doing[1] = "await" /\ events' \in Seq(Events)
           /\ step' = step \/ (step' = step + 1 /\ step < Len(Script[test]) /\ sessionState = "READY")
           /\ sessionState' = sessionState \/ sessionState' \in ToSet(events')
<1>1. outcome = "none" /\ doing[1] = "await" /\ pc \in PlacesOf(doing[1])
  BY Zenon DEF AwaitReady, At, PlaceInv
<1>2. pc = "top"
  BY <1>1, PlacesOnly
<1>3. UNCHANGED <<test, raised, running>>
  BY Zenon DEF AwaitReady, apart, constant, rtVars
<1>4. ~Fail("timeout") /\ "private" \in Readers
  BY FailOn DEF Ends, Readers
<1>5. step \in 1..Len(Script[test]) /\ Len(Script[test]) \in Nat
  BY StepKind DEF TypeInv
<1>6. Done => step' = step + 1 /\ step < Len(Script[test]) /\ pc' = "top"
  BY <1>5 DEF Done
<1>7. Stay => step' = step /\ pc' = "top"
  BY <1>2 DEF Stay, Goto
<1>8. CASE \E e \in Events :
            /\ TryReadNext("private", e) /\ Stay
            /\ sessionState' = IF e \in States THEN e ELSE sessionState
  <2>1. PICK e \in Events :
            /\ TryReadNext("private", e) /\ Stay
            /\ sessionState' = IF e \in States THEN e ELSE sessionState
    BY <1>8
  <2>2. /\ events' = events \o queue /\ queue' = <<>> /\ events' \in Seq(Events)
        /\ reader["private"] <= Len(events') /\ e = events'[reader["private"]] /\ reader["private"] \in Nat
    BY <1>4, <2>1, ReadsOne, Zenon
  <2>0. reader["private"] # 0
    <3>1. PlaceInv => ~LookForFocus
      BY <1>1 DEF LookForFocus, At
    <3> QED  BY ReadersThere, <3>1 DEF Reading
  <2>3. e \in ToSet(events')
    <3>1. Len(events') \in Nat /\ DOMAIN events' = 1..Len(events')
      BY <2>2
    <3>2. reader["private"] \in DOMAIN events'
      BY <2>0, <2>2, <3>1
    <3> QED  BY <2>2, <3>2, Zenon DEF ToSet
  <2> QED  BY <1>1, <1>3, <1>7, <2>1, <2>2, <2>3
<1>9. CASE NothingToRead("private") /\ UNCHANGED sessionState /\ (Stay \/ (sessionState = "READY" /\ Done))
  <2>1. events' = events \o queue /\ queue' = <<>> /\ events' \in Seq(Events)
    BY <1>9, ReadsNone, Zenon
  <2> QED  BY <1>1, <1>3, <1>6, <1>7, <1>9, <2>1
<1> QED  BY <1>4, <1>8, <1>9, Zenon DEF AwaitReady

\* A turn of the loop that polls by itself.
LEMMA TickGoes ==
    ASSUME TypeInv, Tick
    PROVE  /\ outcome = "none" /\ doing[1] = "run" /\ pc = "top"
           /\ UNCHANGED <<test, raised, running, events, state, refused, frame, image, pipe>>
           /\ \/ Fail("timeout") /\ UNCHANGED <<queue, sessionState>>
              \/ /\ sessionState' \in States
                 /\ \/ queue' = queue /\ sessionState' = sessionState
                    \/ /\ queue # <<>> /\ queue' = Tail(queue)
                       /\ sessionState' = sessionState \/ sessionState' = Head(queue)
                 /\ \/ sessionState' = doing[2] /\ Done
                    \/ sessionState' \in {"LOSS_PENDING", "EXITING", "STOPPING"} /\ Fail("unexpected")
                    \/ sessionState' # doing[2] /\ sessionState' \in {"UNKNOWN", "IDLE"} /\ Stay
                    \/ /\ sessionState' # doing[2] /\ sessionState' = "READY" /\ Goto("begin")
                       /\ queue # <<>> /\ Head(queue) = "READY" /\ queue' = Tail(queue)
                    \/ /\ sessionState' # doing[2] /\ Goto("frame")
                       /\ sessionState' \in {"SYNCHRONIZED", "VISIBLE", "FOCUSED"}
                          \/ (sessionState' = "READY" /\ sessionState = "READY")
<1>1. outcome = "none" /\ doing[1] = "run" /\ pc = "top"
  BY Zenon DEF Tick, At
<1>2. UNCHANGED <<test, raised, running, events, state, refused, frame, image, pipe>>
  BY Zenon DEF Tick, apart, constant, rtVars, readVars, endVars
<1>3. CASE TimeUp /\ Fail("timeout") /\ UNCHANGED <<queue, sessionState>>
  BY <1>1, <1>2, <1>3
<1>4. ASSUME NEW s \in States, NEW changed \in BOOLEAN,
             PollEvent(s, changed), sessionState' = s,
             CASE s = doing[2] -> Done
               [] s # doing[2] /\ s \in {"LOSS_PENDING", "EXITING", "STOPPING"} ->
                    Fail("unexpected")
               [] s # doing[2] /\ s \in {"UNKNOWN", "IDLE"} -> Stay
               [] s # doing[2] /\ JustReady(s, changed) -> Goto("begin")
               [] OTHER -> Goto("frame")
      PROVE  /\ \/ queue' = queue /\ sessionState' = sessionState
                \/ /\ queue # <<>> /\ queue' = Tail(queue)
                   /\ sessionState' = sessionState \/ sessionState' = Head(queue)
             /\ \/ sessionState' = doing[2] /\ Done
                \/ sessionState' \in {"LOSS_PENDING", "EXITING", "STOPPING"} /\ Fail("unexpected")
                \/ sessionState' # doing[2] /\ sessionState' \in {"UNKNOWN", "IDLE"} /\ Stay
                \/ /\ sessionState' # doing[2] /\ sessionState' = "READY" /\ Goto("begin")
                   /\ queue # <<>> /\ Head(queue) = "READY" /\ queue' = Tail(queue)
                \/ /\ sessionState' # doing[2] /\ Goto("frame")
                   /\ sessionState' \in {"SYNCHRONIZED", "VISIBLE", "FOCUSED"}
                      \/ (sessionState' = "READY" /\ sessionState = "READY")
  <2>1. \/ queue' = queue /\ s = sessionState /\ ~changed
        \/ /\ queue # <<>> /\ queue' = Tail(queue)
           /\ changed => s = Head(queue)
           /\ ~changed => s = sessionState
    BY <1>4, Zenon DEF PollEvent
  <2>2. CASE s = doing[2]
    <3>1. Done
      BY <1>4, <2>2, Zenon
    <3> QED  BY <1>4, <2>1, <2>2, <3>1
  <2>3. CASE s # doing[2] /\ s \in {"LOSS_PENDING", "EXITING", "STOPPING"}
    <3>1. Fail("unexpected")
      BY <1>4, <2>3 DEF JustReady
    <3> QED  BY <1>4, <2>1, <2>3, <3>1
  <2>4. CASE s # doing[2] /\ s \in {"UNKNOWN", "IDLE"}
    <3>1. Stay
      BY <1>4, <2>4 DEF JustReady
    <3> QED  BY <1>4, <2>1, <2>4, <3>1
  <2>5. CASE s # doing[2] /\ s = "READY" /\ changed
    <3>1. Goto("begin")
      BY <1>4, <2>5 DEF JustReady
    <3> QED  BY <1>4, <2>1, <2>5, <3>1
  <2>6. CASE s # doing[2] /\ s \notin {"LOSS_PENDING", "EXITING", "STOPPING", "UNKNOWN", "IDLE"}
             /\ ~(s = "READY" /\ changed)
    <3>1. Goto("frame")
      BY <1>4, <2>6 DEF JustReady
    <3>2. s \in {"SYNCHRONIZED", "VISIBLE", "FOCUSED", "READY"}
      BY <2>6 DEF States
    <3> QED  BY <1>4, <2>1, <2>6, <3>1, <3>2
  <2> QED  BY <2>2, <2>3, <2>4, <2>5, <2>6
<1>5. CASE \E s \in States, changed \in BOOLEAN :
               /\ PollEvent(s, changed) /\ sessionState' = s
               /\ CASE s = doing[2] -> Done
                    [] s # doing[2] /\ s \in {"LOSS_PENDING", "EXITING", "STOPPING"} ->
                         Fail("unexpected")
                    [] s # doing[2] /\ s \in {"UNKNOWN", "IDLE"} -> Stay
                    [] s # doing[2] /\ JustReady(s, changed) -> Goto("begin")
                    [] OTHER -> Goto("frame")
  <2>1. PICK s \in States, changed \in BOOLEAN :
               /\ PollEvent(s, changed) /\ sessionState' = s
               /\ CASE s = doing[2] -> Done
                    [] s # doing[2] /\ s \in {"LOSS_PENDING", "EXITING", "STOPPING"} ->
                         Fail("unexpected")
                    [] s # doing[2] /\ s \in {"UNKNOWN", "IDLE"} -> Stay
                    [] s # doing[2] /\ JustReady(s, changed) -> Goto("begin")
                    [] OTHER -> Goto("frame")
    BY <1>5
  <2> QED  BY <1>1, <1>2, <1>4, <2>1
<1> QED  BY <1>3, <1>5, Zenon DEF Tick

\* What is behind PollInv, spelled out.
LEMMA PollHolds ==
    ASSUME PollInv, outcome = "none", test \in Running
    PROVE  /\ Unpolled /\ \A e \in ToSet(events) : Polled(e)
           /\ doing[1] = "end" => Polled("STOPPING")
           /\ sessionState # "UNKNOWN" => Polled(sessionState)
           /\ step >= BeginAt[test] /\ (test = "iterated" => running) => Polled("READY")
           /\ test = "iterated" /\ sessionState = "READY" /\ pc # "begin" => running
           /\ pc = "begin" => sessionState = "READY" /\ (running => ReadyTakenBack)
  BY DEF PollInv

\* An event of a concatenation is one of its parts.
LEMMA ConcatFrom ==
    ASSUME NEW s \in Seq(Events), NEW u \in Seq(Events)
    PROVE  \A e \in ToSet(s \o u) : e \in ToSet(s) \/ e \in ToSet(u)
<1> SUFFICES ASSUME NEW e \in ToSet(s \o u) PROVE e \in ToSet(s) \/ e \in ToSet(u)
  OBVIOUS
<1>1. /\ s \o u \in Seq(Events) /\ Len(s \o u) = Len(s) + Len(u)
      /\ \A i \in 1..Len(s) : (s \o u)[i] = s[i]
      /\ \A i \in 1..Len(u) : (s \o u)[Len(s) + i] = u[i]
  BY ConcatType
<1> DEFINE v == s \o u
<1>2. v \in Seq(Events) /\ Len(v) = Len(s) + Len(u) /\ e \in ToSet(v)
      /\ (\A i \in 1..Len(s) : v[i] = s[i]) /\ \A i \in 1..Len(u) : v[Len(s) + i] = u[i]
  BY <1>1
<1> HIDE DEF v
<1>3. DOMAIN v = 1..Len(v) /\ DOMAIN s = 1..Len(s) /\ DOMAIN u = 1..Len(u) /\ Len(s) \in Nat /\ Len(u) \in Nat
  BY <1>2
<1>4. PICK i \in 1..Len(v) : v[i] = e
  BY <1>2, <1>3, Zenon DEF ToSet
<1>5. CASE i <= Len(s)
  <2>1. i \in DOMAIN s /\ s[i] = e
    BY <1>2, <1>3, <1>4, <1>5
  <2> QED  BY ONLY <2>1, Zenon DEF ToSet
<1>6. CASE i > Len(s)
  <2>1. i - Len(s) \in DOMAIN u /\ Len(s) + (i - Len(s)) = i
    BY <1>2, <1>3, <1>4, <1>6
  <2>2. u[i - Len(s)] = e
    BY <1>2, <1>3, <1>4, <2>1
  <2> QED  BY ONLY <2>1, <2>2, Zenon DEF ToSet
<1> QED  BY <1>3, <1>4, <1>5, <1>6

\* Polled events: the wait for READY takes all of them.
LEMMA AwaitPolls ==
    ASSUME TypeInv, PlaceInv, PhaseInv, ReaderInv, PollInv, AwaitReady
    PROVE  PollInv'
<1> SUFFICES ASSUME outcome' = "none", test \in Running
             PROVE  PollInv'
  <2>1. test' = test /\ Running' = Running
    BY Zenon DEF AwaitReady, apart, constant, Running
  <2> QED  BY <2>1 DEF PollInv
<1>1. outcome = "none" /\ Running' = Running /\ BeginAt' = BeginAt
  BY DEF AwaitReady, At, Running, BeginAt
<1>2. /\ events' = events \o queue /\ queue' = <<>> /\ UNCHANGED <<test, raised, running>>
      /\ pc' = "top" /\ doing[1] = "await" /\ events' \in Seq(Events)
      /\ step' = step \/ (step' = step + 1 /\ step < Len(Script[test]) /\ sessionState = "READY")
      /\ sessionState' = sessionState \/ sessionState' \in ToSet(events')
  BY AwaitGoes
<1>3. /\ Unpolled /\ \A e \in ToSet(events) : Polled(e)
      /\ sessionState # "UNKNOWN" => Polled(sessionState)
      /\ step >= BeginAt[test] /\ (test = "iterated" => running) => Polled("READY")
  BY <1>1, PollHolds
<1>4. /\ Unpolled' /\ \A e : Polled(e) => Polled(e)'
      /\ \A e \in ToSet(queue) : Polled(e)'
  BY <1>2, <1>3, PollsAll
<1>5. \A e \in ToSet(events') : Polled(e)'
  <2>1. events \in Seq(Events) /\ queue \in Seq(Events)
    BY DEF TypeInv
  <2>2. \A e \in ToSet(events \o queue) : e \in ToSet(events) \/ e \in ToSet(queue)
    BY <2>1, ConcatFrom
  <2> QED  BY <1>2, <1>3, <1>4, <2>2
<1>6. (\A e \in ToSet(events) : Polled(e))'
  BY <1>5 DEF Polled
<1>7. sessionState' # "UNKNOWN" => Polled(sessionState)'
  <2>1. \A e : e = sessionState' /\ e # "UNKNOWN" => Polled(e)'
    BY <1>2, <1>3, <1>4, <1>5
  <2> QED  BY <2>1 DEF Polled
<1>8. doing'[1] # "end"
  <2>1. step' = step => doing' = doing
    BY <1>2, ScriptStays DEF doing
  <2>2. step' = step + 1 => doing'[1] # "end"
    BY <1>2, ComesBefore
  <2> QED  BY <1>2, <2>1, <2>2
<1>9. test # "iterated"
  BY <1>2, KindsOf
<1>10. step' >= BeginAt[test] => Polled("READY")'
  <2>1. step' = step + 1 => Polled("READY")'
    BY <1>2, <1>3, <1>4
  <2> QED  BY <1>2, <1>3, <1>4, <1>9, <2>1
<1> QED  BY <1>1, <1>2, <1>4, <1>6, <1>7, <1>8, <1>9, <1>10 DEF PollInv

\* READY that is polled once more was taken back.
LEMMA ReadyTwice ==
    ASSUME TypeInv, RaisedInv, Polled("READY"), Len(raised) - Len(queue) + 1 \in DOMAIN raised,
           raised[Len(raised) - Len(queue) + 1] = "READY"
    PROVE  ReadyTakenBack
<1>1. PICK i \in 1..(Len(raised) - Len(queue)) : raised[i] = "READY"
  BY DEF Polled
<1>2. Len(raised) \in Nat /\ Len(queue) \in Nat /\ DOMAIN raised = 1..Len(raised)
  BY DEF TypeInv
<1>3. i \in DOMAIN raised /\ i < Len(raised) - Len(queue) + 1
  BY <1>1, <1>2
<1>4. \/ ReadyTakenBack
      \/ \A k, j \in DOMAIN raised : k < j /\ raised[k] = "READY" => raised[j] \notin {"READY", "IDLE"}
  BY DEF RaisedInv
<1> QED  BY <1>1, <1>3, <1>4

\* What a turn of the loop has polled after it.
LEMMA TickPolled ==
    ASSUME TypeInv, PhaseInv, PollInv, Tick, test \in Running
    PROVE  /\ Unpolled' /\ \A e : Polled(e) => Polled(e)'
           /\ \A e : e = sessionState' /\ e # "UNKNOWN" => Polled(e)'
           /\ pc' = "begin" /\ running /\ outcome' = "none" => ReadyTakenBack
<1>1. /\ outcome = "none" /\ UNCHANGED <<test, raised, running, events>>
      /\ \/ queue' = queue /\ sessionState' = sessionState
         \/ /\ queue # <<>> /\ queue' = Tail(queue)
            /\ sessionState' = sessionState \/ sessionState' = Head(queue)
  BY TickGoes
<1>2. /\ Unpolled
      /\ sessionState # "UNKNOWN" => Polled(sessionState)
      /\ step >= BeginAt[test] /\ (test = "iterated" => running) => Polled("READY")
  BY <1>1, PollHolds
<1>3. CASE queue' = queue /\ sessionState' = sessionState
  <2>1. Unpolled' /\ \A e : Polled(e) => Polled(e)'
    BY <1>1, <1>2, <1>3 DEF Unpolled, Polled
  <2>2. \A e : e = sessionState' /\ e # "UNKNOWN" => Polled(e)'
    BY <1>2, <1>3, <2>1
  <2>3. pc' # "begin" \/ outcome' # "none" \/ queue' # queue
    <3>1. Goto("begin") \/ Goto("frame") \/ Stay \/ Done \/ Fail("timeout") \/ Fail("unexpected")
      BY TickGoes
    <3>2. pc = "top"
      BY TickGoes
    <3>3. Fail("timeout") \/ Fail("unexpected") => outcome' # "none"
      BY FailOn DEF Ends
    <3>4. Stay \/ Goto("frame") => pc' # "begin"
      BY <3>2 DEF Stay, Goto
    <3>5. Done => pc' # "begin"
      BY Zenon DEF Done
    <3>6. Goto("begin") => (queue # <<>> /\ queue' = Tail(queue)) \/ pc' # "begin" \/ outcome' # "none"
      <4>1. ~(Goto("begin") /\ Goto("frame")) /\ ~(Goto("begin") /\ Stay) /\ ~(Goto("begin") /\ Done)
        BY <3>2 DEF Goto, Stay, Done
      <4> QED  BY <3>3, <4>1, TickGoes
    <3>7. queue # <<>> => Tail(queue) # queue
      BY DEF TypeInv
    <3> QED  BY <3>1, <3>3, <3>4, <3>5, <3>6, <3>7
  <2> QED  BY <1>3, <2>1, <2>2, <2>3
<1>4. CASE queue # <<>> /\ queue' = Tail(queue) /\ (sessionState' = sessionState \/ sessionState' = Head(queue))
  <2>1. /\ Unpolled' /\ \A e : e = Head(queue) => Polled(e)'
        /\ \A e : Polled(e) => Polled(e)'
        /\ Len(raised) - Len(queue) + 1 \in DOMAIN raised
        /\ raised[Len(raised) - Len(queue) + 1] = Head(queue)
    BY <1>1, <1>2, <1>4, PollsOne
  <2>2. \A e : e = sessionState' /\ e # "UNKNOWN" => Polled(e)'
    BY <1>2, <1>4, <2>1
  <2>3. ASSUME pc' = "begin", running, outcome' = "none" PROVE ReadyTakenBack
    <3>1. pc = "top"
      BY TickGoes
    <3>2. ~Fail("timeout") /\ ~Fail("unexpected") /\ ~Stay /\ ~Goto("frame") /\ ~Done
      BY <2>3, <3>1, FailOn DEF Ends, Stay, Goto, Done
    <3>3. Head(queue) = "READY"
      BY <3>2, TickGoes
    <3>4. Polled("READY") /\ RaisedInv
      BY <1>1, <1>2, <2>3, RunsAt
    <3> QED  BY <2>1, <3>3, <3>4, ReadyTwice
  <2> QED  BY <2>1, <2>2, <2>3
<1> QED  BY <1>1, <1>3, <1>4

\* Polled events: the loop takes one a turn.
LEMMA TickPolls ==
    ASSUME TypeInv, PhaseInv, PollInv, Tick
    PROVE  PollInv'
<1> SUFFICES ASSUME outcome' = "none", test \in Running
             PROVE  PollInv'
  <2>1. test' = test /\ Running' = Running
    BY TickGoes DEF Running
  <2> QED  BY <2>1 DEF PollInv
<1>1. /\ outcome = "none" /\ UNCHANGED <<test, raised, running, events>> /\ doing[1] = "run" /\ pc = "top"
      /\ Running' = Running /\ BeginAt' = BeginAt
  BY TickGoes DEF Running, BeginAt
<1>2. /\ Unpolled /\ \A e \in ToSet(events) : Polled(e)
      /\ step >= BeginAt[test] /\ (test = "iterated" => running) => Polled("READY")
      /\ test = "iterated" /\ sessionState = "READY" => running
  BY <1>1, PollHolds
<1>3. /\ Unpolled' /\ \A e : Polled(e) => Polled(e)'
      /\ \A e : e = sessionState' /\ e # "UNKNOWN" => Polled(e)'
      /\ pc' = "begin" /\ running /\ outcome' = "none" => ReadyTakenBack
  BY TickPolled
<1>4. (\A e \in ToSet(events) : Polled(e))'
  <2>1. \A e \in ToSet(events) : Polled(e)'
    BY <1>2, <1>3
  <2> QED  BY <1>1, <2>1 DEF Polled
<1>5. sessionState' # "UNKNOWN" => Polled(sessionState)'
  BY <1>3 DEF Polled
<1>6. \/ sessionState' = doing[2] /\ step' = step + 1 /\ step < Len(Script[test]) /\ pc' = "top"
      \/ step' = step /\ pc' = "top" /\ sessionState' \in {"UNKNOWN", "IDLE"}
      \/ step' = step /\ pc' = "begin" /\ sessionState' = "READY"
      \/ step' = step /\ pc' = "frame" /\ sessionState' # doing[2]
         /\ (sessionState' = "READY" => sessionState = "READY")
  <2>1. ~Fail("timeout") /\ ~Fail("unexpected")
    BY FailOn DEF Ends
  <2>2. step \in 1..Len(Script[test]) /\ Len(Script[test]) \in Nat
    BY StepKind DEF TypeInv
  <2>3. Done => step' = step + 1 /\ step < Len(Script[test]) /\ pc' = "top"
    BY <2>2 DEF Done
  <2>4. (Stay => step' = step /\ pc' = "top") /\ \A l : Goto(l) => step' = step /\ pc' = l
    BY <1>1 DEF Stay, Goto
  <2> QED  BY <2>1, <2>3, <2>4, TickGoes
<1>7. doing'[1] = "end" => Polled("STOPPING")'
  <2>1. step' = step => doing'[1] # "end"
    BY <1>1, ScriptStays DEF doing
  <2>2. ASSUME doing'[1] = "end" PROVE Polled("STOPPING")'
    <3>1. sessionState' = doing[2] /\ step' = step + 1 /\ step < Len(Script[test])
      BY <1>6, <2>1, <2>2
    <3>2. doing[2] = "STOPPING"
      BY <1>1, <2>2, <3>1, ComesBefore
    <3> QED  BY <1>3, <3>1, <3>2
  <2> QED  BY <2>2
<1>8. step' >= BeginAt[test] /\ (test = "iterated" => running) => Polled("READY")'
  <2>1. SUFFICES ASSUME step' >= BeginAt[test], test = "iterated" => running, step < BeginAt[test]
                 PROVE  Polled("READY")'
    BY <1>1, <1>2, <1>3, RunsAt
  <2>2. step' = step + 1 /\ step + 1 = BeginAt[test] /\ test # "iterated" /\ step < Len(Script[test])
        /\ sessionState' = doing[2]
    BY <1>1, <1>6, <2>1, RunsAt
  <2>3. doing[2] = "READY"
    BY <1>1, <2>2, ComesBefore
  <2> QED  BY <1>3, <2>2, <2>3
<1>9. test = "iterated" /\ sessionState' = "READY" /\ pc' # "begin" => running
  <2>1. test = "iterated" => doing[2] = "FOCUSED"
    BY <1>1, RunsAt
  <2> QED  BY <1>2, <1>6, <2>1
<1>10. pc' = "begin" => sessionState' = "READY" /\ (running => ReadyTakenBack')
  <2>1. ReadyTakenBack' = ReadyTakenBack
    BY <1>1 DEF ReadyTakenBack
  <2> QED  BY <1>3, <1>6, <2>1
<1> QED  BY <1>1, <1>3, <1>4, <1>5, <1>7, <1>8, <1>9, <1>10, Zenon DEF PollInv

\* Polled events: the steps of the framework.
LEMMA StepPolls ==
    ASSUME TypeInv, PlaceInv, PhaseInv, ReaderInv, PollInv, Step
    PROVE  PollInv'
<1>1. outcome = "none" /\ test' = test /\ Running' = Running
  BY StepOpen, StepKeeps DEF Running
<1>2. SUFFICES ASSUME outcome' = "none", test \in Running
             PROVE  PollInv'
  BY <1>1 DEF PollInv
<1>3. CASE AwaitReady
  BY <1>3, AwaitPolls
<1>4. CASE Tick
  BY <1>4, TickPolls
<1>5. CASE ~AwaitReady /\ ~Tick
  <2>1. /\ UNCHANGED <<test, queue, raised, events, sessionState>> /\ pc' # "begin"
        /\ \/ step' = step
           \/ step' = step + 1 /\ step < Len(Script[test]) /\ doing[1] \notin {"await", "run"}
        /\ \/ running' = running /\ pc # "begin"
           \/ running' /\ doing[1] = "begin" /\ pc # "begin"
           \/ running' /\ pc = "begin" /\ step' = step
           \/ doing[1] = "end"
    BY <1>1, <1>2, <1>5, RunningStep, OthersGo, Zenon
  <2> QED  BY <1>1, <1>2, <2>1, PollOn
<1> QED  BY <1>3, <1>4, <1>5

\* Polled events: the creation of the session.
LEMMA CreatePolls ==
    ASSUME TypeInv, PlaceInv, PhaseInv, PollInv, Create
    PROVE  PollInv'
<1>1. /\ UNCHANGED <<test, queue, raised, events, sessionState, running>>
      /\ outcome = "none" /\ pc \in {"top", "session"} /\ doing[1] = "create"
      /\ outcome' = "none" => pc' \in {"session", "top"} /\ step' < BeginAt[test]
                              /\ (step' = step \/ (step' = step + 1 /\ step < Len(Script[test])))
  BY CreateMoves DEF constant, rtVars
<1>2. SUFFICES ASSUME outcome' = "none", test \in Running PROVE PollInv'
  BY <1>1 DEF PollInv, Running
<1> QED  BY <1>1, <1>2, PollOn

\* Polled events: an event is raised.
LEMMA RaisePolls ==
    ASSUME TypeInv, PollInv, NEW e \in Events, Raise(e),
           UNCHANGED <<test, step, pc, outcome, events, sessionState, running>>
    PROVE  PollInv'
<1>1. doing' = doing /\ BeginAt' = BeginAt /\ Running' = Running
  BY ScriptStays DEF doing, BeginAt, Running
<1> SUFFICES ASSUME outcome = "none", test \in Running PROVE PollInv'
  BY <1>1 DEF PollInv
<1>2. /\ Unpolled /\ \A f \in ToSet(events) : Polled(f)
      /\ doing[1] = "end" => Polled("STOPPING")
      /\ sessionState # "UNKNOWN" => Polled(sessionState)
      /\ step >= BeginAt[test] /\ (test = "iterated" => running) => Polled("READY")
      /\ test = "iterated" /\ sessionState = "READY" /\ pc # "begin" => running
      /\ pc = "begin" => sessionState = "READY" /\ (running => ReadyTakenBack)
  BY PollHolds
<1>3. Unpolled' /\ \A f : Polled(f) => Polled(f)'
  BY <1>2, PollsRaise
<1>4. ReadyTakenBack => ReadyTakenBack'
  BY RaiseTyped, TakenBackStays DEF TypeInv
<1>5. (\A f \in ToSet(events) : Polled(f))'
  <2>1. \A f \in ToSet(events) : Polled(f)'
    BY <1>2, <1>3
  <2> QED  BY <2>1 DEF Polled
<1>6. sessionState' # "UNKNOWN" => Polled(sessionState)'
  <2>1. \A f : f = sessionState /\ f # "UNKNOWN" => Polled(f)'
    BY <1>2, <1>3
  <2> QED  BY <2>1 DEF Polled
<1>7. /\ doing[1] = "end" => Polled("STOPPING")'
      /\ step >= BeginAt[test] /\ (test = "iterated" => running) => Polled("READY")'
  BY <1>2, <1>3
<1> QED  BY <1>1, <1>2, <1>3, <1>4, <1>5, <1>6, <1>7, Zenon DEF PollInv

\* Polled events: the other steps.
LEMMA RestPolls ==
    ASSUME TypeInv, PlaceInv, PollInv,
           \/ \E s \in States : RuntimeChanges(s)
           \/ ProfileChanges \/ DestroySession \/ ShutdownDevice \/ LeaveBehind \/ AppThread \/ Worker
           \/ DeadlinePasses \/ UNCHANGED vars
    PROVE  PollInv'
<1>1. ASSUME NEW s \in States, RuntimeChanges(s) PROVE PollInv'
  <2>1. s \in Events /\ Raise(s) /\ UNCHANGED <<test, step, pc, outcome, events, sessionState, running>>
    BY <1>1, Zenon DEF RuntimeChanges, Life!Change, Events, apart, constant, readVars
  <2> QED  BY <2>1, RaisePolls
<1>2. CASE ProfileChanges
  <2>1. "OTHER" \in Events /\ Raise("OTHER")
        /\ UNCHANGED <<test, step, pc, outcome, events, sessionState, running>>
    BY <1>2, Zenon DEF ProfileChanges, Events, apart, constant, readVars, rtVars
  <2> QED  BY <2>1, RaisePolls
<1>3. CASE DestroySession \/ ShutdownDevice \/ LeaveBehind
  <2>1. pc \in {"destroy", "device"} /\ outcome' = outcome
    BY <1>3 DEF DestroySession, ShutdownDevice, LeaveBehind, Goto
  <2>2. outcome' # "none"
    BY <2>1, PlacesOnly DEF PlaceInv
  <2> QED  BY <2>2 DEF PollInv
<1>4. CASE AppThread
  <2>1. UNCHANGED <<test, step, pc, outcome, queue, raised, events, sessionState, running>>
    BY <1>4, AppThreadKeeps DEF constant, readVars
  <2> QED  BY <2>1, PollKept
<1>5. CASE Worker
  <2>1. UNCHANGED <<test, queue, raised, events, sessionState, running, step>>
        /\ (outcome' = "crashed" \/ UNCHANGED <<pc, outcome>>)
    <3>1. outcome' = "crashed" \/ UNCHANGED <<pc, outcome>>
      BY <1>5, Zenon DEF Worker
    <3> QED  BY <1>5, <3>1, WorkerKeeps DEF constant, readVars, rtVars
  <2>2. CASE outcome' = "crashed"
    BY <2>2 DEF PollInv
  <2>3. CASE UNCHANGED <<pc, outcome>>
    BY <2>1, <2>3, PollKept
  <2> QED  BY <2>1, <2>2, <2>3
<1>6. CASE DeadlinePasses \/ UNCHANGED vars
  <2>1. UNCHANGED <<test, step, pc, outcome, queue, raised, events, sessionState, running>>
    BY <1>6 DEF DeadlinePasses, vars, apart, constant, readVars, rtVars
  <2> QED  BY <2>1, PollKept
<1> QED  BY <1>1, <1>2, <1>3, <1>4, <1>5, <1>6

Unframed == FramePlaces \cup {"frame"}

\* Frames: nothing of them changes.
LEMMA FrameKept ==
    ASSUME FrameInv, UNCHANGED <<test, pc, outcome, frame, image, running>>
    PROVE  FrameInv'
  BY DEF FrameInv, FramePlaces

\* A frame call is the only step from the places of a frame.
LEMMA InFrame ==
    ASSUME PlaceInv, Step, ~Framing
    PROVE  pc \notin Unframed /\ ~(pc = "top" /\ doing[1] \in {"focus", "sync"})
<1>1. outcome = "none" /\ pc \in PlacesOf(doing[1])
  BY StepOpen DEF PlaceInv
<1>2. /\ pc \in Unframed => doing[1] \in {"run", "submit", "focus", "sync", "render"}
      /\ pc \in {"poll", "look"} => doing[1] \in {"focus", "sync"}
  BY <1>1, PlacesOnly DEF FramePlaces, Unframed
<1>3. /\ PollEvents => pc = "poll"
      /\ LookForFocus => pc = "look"
      /\ SyncUntilFocus => pc = "look"
      /\ NextSessionState => pc = "top" /\ doing[1] \in {"next", "submit", "quiet"}
      /\ Tick => pc = "top" /\ doing[1] = "run"
      /\ TickBegins => pc = "begin"
      /\ Threading => pc \in {"top", "check", "dequeue", "join", "joined"} /\ doing[1] = "render"
  BY StepsBy DEF PollEvents, LookForFocus, SyncUntilFocus, NextSessionState, Tick, TickBegins, Threading,
     StartAppThread, CheckResult, DequeueFrame, JoinAppThread, At
<1>4. /\ AwaitReady => doing[1] = "await"
      /\ AwaitOwnReady => doing[1] = "await_own"
      /\ BeginSession => doing[1] = "begin"
      /\ EndSession => doing[1] = "end"
      /\ EndEarly => doing[1] = "end_early"
      /\ NewManager => doing[1] = "manager"
      /\ RequestExit => doing[1] = "exit"
      /\ Setup => doing[1] = "setup"
      /\ CreateLayers => doing[1] = "layers"
      /\ RunTestEnvironment => doing[1] = "threads"
  BY DEF AwaitReady, AwaitOwnReady, BeginSession, EndSession, EndEarly, NewManager, RequestExit, Setup, CreateLayers,
     RunTestEnvironment, At
<1> QED
  BY <1>2, <1>3, <1>4 DEF Step, Reading, Ticking, Beginning, Ending, Plain, FramePlaces, Unframed

\* What has been polled has been raised, after a step.
LEMMA RaisedHas ==
    ASSUME TypeInv', Unpolled', NEW s, Polled(s)'
    PROVE  s \in ToSet(raised')
<1>1. Len(raised') \in Nat /\ Len(queue') \in Nat /\ DOMAIN raised' = 1..Len(raised')
  BY DEF TypeInv
<1>2. PICK i \in 1..(Len(raised') - Len(queue')) : raised'[i] = s
  BY DEF Polled
<1>3. i \in DOMAIN raised'
  BY <1>1, <1>2
<1> QED  BY <1>2, <1>3, Zenon DEF ToSet

\* A frame is begun by the loop only while the session runs.
LEMMA TickRuns ==
    ASSUME TypeInv, PlaceInv, PhaseInv, PollInv, Tick, outcome' = "none", pc' = "frame"
    PROVE  running
<1>1. outcome = "none" /\ doing[1] = "run" /\ pc = "top" /\ raised' = raised
  BY TickGoes
<1>2. test \in Running
  BY <1>1, KindsOf
<1>3. ~Fail("timeout") /\ ~Fail("unexpected") /\ ~Stay /\ ~Goto("begin") /\ ~Done
  BY <1>1, FailOn DEF Ends, Stay, Goto, Done
<1>4. /\ sessionState' # doing[2]
      /\ sessionState' \in {"SYNCHRONIZED", "VISIBLE", "FOCUSED"}
         \/ (sessionState' = "READY" /\ sessionState = "READY")
  BY <1>3, TickGoes
<1>5. CASE sessionState' \in {"SYNCHRONIZED", "VISIBLE", "FOCUSED"}
  <2>1. Unpolled' /\ TypeInv' /\ \A e : e = sessionState' /\ e # "UNKNOWN" => Polled(e)'
    <3>1. Tick => Step
      BY DEF Step, Ticking
    <3> QED  BY <1>2, <3>1, StepTyped, TickPolled
  <2>2. PICK s \in {"SYNCHRONIZED", "VISIBLE", "FOCUSED"} : s = sessionState'
    BY <1>5
  <2>3. Polled(s)'
    BY <2>1, <2>2
  <2>4. s \in ToSet(raised)
    BY <1>1, <2>1, <2>3, RaisedHas
  <2>5. RaisedInv
    BY <1>1, <1>2, RunsAt
  <2> QED  BY <2>4, <2>5 DEF RaisedInv
<1>6. CASE sessionState' = "READY" /\ sessionState = "READY"
  <2>1. test = "iterated" => running
    BY <1>1, <1>2, <1>6, PollHolds
  <2> QED  BY <1>1, <1>2, <1>4, <1>6, <2>1, RunsAt
<1> QED  BY <1>4, <1>5, <1>6

\* Where the other steps go.
LEMMA FromNoFrame ==
    ASSUME TypeInv, PlaceInv, PhaseInv, PollInv, Step, ~Framing, outcome' = "none", pc' \in Unframed
    PROVE  \/ running' /\ pc' \in {"frame", "waited"} /\ (pc' = "waited" => test = "pipelined")
           \/ pc' = "frame" /\ test = "cycle"
<1>1. outcome = "none" /\ Moves
  BY StepOpen, MovesAre
<1>2. ~Fail("refused") /\ ~Fail("lost") /\ ~Fail("create") /\ ~Fail("layers") /\ ~Fail("errors")
      /\ ~Fail("timeout") /\ ~Fail("unexpected") /\ ~Fail("timing")
  BY FailOn DEF Ends
<1>3. Done => pc' = "top"
  BY DEF Done
<1>4. ~Done
  BY <1>3 DEF FramePlaces, Unframed
<1>5. pc \notin Unframed
  BY InFrame
<1>6. ~Stay
  BY <1>5 DEF Stay, Goto
<1>7. \A l : Goto(l) => l \in Unframed
  BY DEF Goto
<1>8. ~Goto("top") /\ ~Goto("look") /\ ~Goto("signal") /\ ~Goto("join") /\ ~Goto("check")
      /\ ~Goto("dequeue") /\ ~Goto("joined") /\ ~Goto("begin")
  BY <1>7 DEF FramePlaces, Unframed
<1>9. ~AwaitReady /\ ~AwaitOwnReady
  BY <1>2, <1>4, <1>6, Zenon DEF AwaitReady, AwaitOwnReady
<1>10. ~PollEvents /\ ~LookForFocus
  BY <1>2, <1>4, <1>6, <1>8, Zenon DEF PollEvents, LookForFocus
<1>11. ~SyncUntilFocus /\ ~Setup /\ ~CreateLayers /\ ~NewManager /\ ~RequestExit /\ ~EndSession /\ ~EndEarly
       /\ ~BeginSession
  BY <1>2, <1>4, <1>8, Zenon DEF SyncUntilFocus, Setup, CreateLayers, NewManager, RequestExit, EndSession,
     EndEarly, BeginSession, Begin, Call
<1>12. ~RunTestEnvironment /\ ~StartAppThread /\ ~JoinAppThread
  BY <1>2, <1>4, <1>8, Zenon DEF RunTestEnvironment, StartAppThread, JoinAppThread
<1>13. ~CheckResult
  <2>1. CheckResult => Goto("dequeue") \/ Goto("join")
    BY Zenon DEF CheckResult
  <2> QED  BY <1>8, <2>1
<1>14. CASE Tick
  <2>1. running' = running
    BY <1>14, TickGoes
  <2>2. pc' = "frame"
    BY <1>2, <1>4, <1>6, <1>8, <1>14, TickGoes DEF Goto
  <2> QED  BY <1>14, <2>1, <2>2, TickRuns
<1>15. CASE TickBegins
  <2>1. Goto("frame") /\ running'
    BY <1>2, <1>15, Zenon DEF TickBegins, Begin, Call
  <2> QED  BY <2>1 DEF Goto
<1>16. CASE NextSessionState
  <2>1. Goto("frame")
    BY <1>2, <1>4, <1>6, <1>16, Zenon DEF NextSessionState
  <2>2. test = "cycle"
    BY <1>16, KindsOf DEF NextSessionState
  <2> QED  BY <2>1, <2>2 DEF Goto
<1>17. CASE DequeueFrame
  <2>1. Goto("waited") /\ running' = running /\ doing[1] = "render"
    BY <1>8, <1>17, Zenon DEF DequeueFrame, At, rtVars
  <2>2. test = "pipelined" /\ step > BeginAt[test]
    BY <2>1, KindsOf
  <2>3. running
    BY <1>1, <2>2 DEF PhaseInv, ScriptRuns
  <2> QED  BY <2>1, <2>2, <2>3 DEF Goto
<1> QED
  BY <1>9, <1>10, <1>11, <1>12, <1>13, <1>14, <1>15, <1>16, <1>17, Zenon
  DEF Step, Reading, Ticking, Beginning, Ending, Plain, Threading

\* FrameInv, spelled out.
LEMMA FrameHolds ==
    ASSUME FrameInv, outcome = "none"
    PROVE  /\ pc \notin {"image", "release"} => image = "free"
           /\ pc = "image" => image = "acquired"
           /\ pc = "release" => image = "waited"
           /\ pc \in FramePlaces \/ (pc = "frame" /\ test # "cycle") => running
           /\ test # "pipelined" =>
                 /\ pc = "waited" => frame = {"waited"}
                 /\ pc \in FramePlaces \ {"waited"} => frame = {"begun"}
                 /\ pc \notin FramePlaces => frame = {}
  BY DEF FrameInv, FramePlaces

\* Frames: the calls of a frame.
LEMMA FramingFrame ==
    ASSUME TypeInv, PlaceInv, FrameInv, Framing
    PROVE  FrameInv'
<1>0. outcome = "none"
  BY StepOpen DEF Step
<1>1. SUFFICES ASSUME outcome' = "none" PROVE FrameInv'
  BY DEF FrameInv, FramePlaces
<1>2. UNCHANGED <<test, running>>
  BY FramingKeeps, Zenon DEF constant
<1>3. test = "pipelined" \/ test # "pipelined"
  OBVIOUS
<1>4. CASE pc = "frame" \/ (pc = "top" /\ doing[1] \in {"focus", "sync"})
  <2>1. running /\ frame' = frame \cup {"waited"} /\ image' = image /\ pc' = "waited"
    BY <1>0, <1>1, <1>4, FramingGoes
  <2>2. image = "free" /\ (test # "pipelined" => frame = {})
    BY <1>0, <1>4, FrameHolds DEF FramePlaces
  <2> QED  BY <1>2, <2>1, <2>2 DEF FrameInv, FramePlaces
<1>5. CASE pc = "waited"
  <2>1. running /\ frame' = {"begun"} /\ image' = image /\ pc' \in {"acquire", "end"}
    BY <1>0, <1>1, <1>5, FramingGoes
  <2>2. image = "free"
    BY <1>0, <1>5, FrameHolds DEF FramePlaces
  <2> QED  BY <1>2, <2>1, <2>2 DEF FrameInv, FramePlaces
<1>6. CASE pc \in {"acquire", "image", "release"}
  <2>1. running /\ (test # "pipelined" => frame = {"begun"})
    BY <1>0, <1>6, FrameHolds DEF FramePlaces
  <2>2. frame' = frame /\ \/ image' = "acquired" /\ pc' = "image"
                          \/ image' = "waited" /\ pc' = "release"
                          \/ image' = "free" /\ pc' = "end"
    BY <1>0, <1>1, <1>6, FramingGoes
  <2> QED  BY <1>2, <2>1, <2>2 DEF FrameInv, FramePlaces
<1>7. CASE pc = "end"
  <2>1. image = "free" /\ (test # "pipelined" => frame = {"begun"})
    BY <1>0, <1>7, FrameHolds DEF FramePlaces
  <2>2. frame' = frame \ {"begun"} /\ image' = image /\ pc' \in {"check", "poll", "top"}
    BY <1>0, <1>1, <1>7, FramingGoes
  <2> QED  BY <1>2, <2>1, <2>2 DEF FrameInv, FramePlaces
<1> QED  BY <1>0, <1>1, <1>4, <1>5, <1>6, <1>7, FramingGoes

\* Frames: the steps of the framework.
LEMMA StepFrame ==
    ASSUME TypeInv, PlaceInv, PhaseInv, PollInv, FrameInv, Step
    PROVE  FrameInv'
<1>1. CASE Framing
  BY <1>1, FramingFrame
<1>2. ASSUME ~Framing, outcome' = "none" PROVE FrameInv'
  <2>1. outcome = "none" /\ UNCHANGED <<test, frame, image>>
    BY <1>2, StepOpen, ReadingKeeps, TickingKeeps, NewManagerKeeps, BeginningKeeps, EndingKeeps,
       ThreadingKeeps, PlainKeeps, RequestExitKeeps, Zenon DEF Step, constant, rtVars
  <2>2. pc \notin Unframed
    BY <1>2, InFrame
  <2>3. image = "free" /\ (test # "pipelined" => frame = {})
    BY <2>1, <2>2, FrameHolds DEF FramePlaces, Unframed
  <2>4. pc' \in Unframed => \/ running' /\ pc' \in {"frame", "waited"} /\ (pc' = "waited" => test = "pipelined")
                            \/ pc' = "frame" /\ test = "cycle"
    BY <1>2, FromNoFrame
  <2> QED  BY <2>1, <2>3, <2>4 DEF FrameInv, FramePlaces, Unframed
<1> QED  BY <1>1, <1>2 DEF FrameInv

\* Frames: the creation of the session.
LEMMA CreateFrame ==
    ASSUME TypeInv, PlaceInv, FrameInv, Create
    PROVE  FrameInv'
<1>1. SUFFICES ASSUME outcome' = "none" PROVE FrameInv'
  BY DEF FrameInv, FramePlaces
<1>2. /\ UNCHANGED <<test, frame, image, running>> /\ outcome = "none"
      /\ pc \in {"top", "session"} /\ pc' \in {"top", "session"}
  BY <1>1, CreateMoves DEF constant, rtVars
<1>3. image = "free" /\ (test # "pipelined" => frame = {})
  BY <1>2, FrameHolds DEF FramePlaces
<1> QED  BY <1>2, <1>3 DEF FrameInv, FramePlaces

\* Frames: the other steps; only a pipelined frame is waited for elsewhere.
LEMMA RestFrame ==
    ASSUME TypeInv, PlaceInv, FrameInv, outcome = "none" /\ pipe.app # "none" => test = "pipelined",
           \/ \E s \in States : RuntimeChanges(s)
           \/ ProfileChanges \/ DestroySession \/ ShutdownDevice \/ LeaveBehind \/ AppThread \/ Worker
           \/ DeadlinePasses \/ UNCHANGED vars
    PROVE  FrameInv'
<1>1. ASSUME NEW s \in States, RuntimeChanges(s) PROVE FrameInv'
  <2>1. UNCHANGED <<test, pc, outcome, frame, image, running>>
    BY <1>1, Zenon DEF RuntimeChanges, Life!Change, apart, constant
  <2> QED  BY <2>1, FrameKept
<1>2. CASE ProfileChanges
  <2>1. UNCHANGED <<test, pc, outcome, frame, image, running>>
    BY <1>2, Zenon DEF ProfileChanges, apart, constant, rtVars
  <2> QED  BY <2>1, FrameKept
<1>3. CASE DestroySession \/ ShutdownDevice \/ LeaveBehind
  <2>1. pc \in {"destroy", "device"} /\ outcome' = outcome
    BY <1>3 DEF DestroySession, ShutdownDevice, LeaveBehind, Goto
  <2>2. outcome' # "none"
    BY <2>1, PlacesOnly DEF PlaceInv
  <2> QED  BY <2>2 DEF FrameInv
<1>4. CASE AppThread
  <2>1. UNCHANGED <<test, pc, outcome, image, running>> /\ outcome = "none"
    BY <1>4, AppThreadKeeps DEF constant, AppThread
  <2>2. pipe.app # "none"
    BY <1>4 DEF AppThread, AppWaitsFrame, AppQueuesFrame, SignalNoMoreFrames
  <2> QED  BY <2>1, <2>2 DEF FrameInv, FramePlaces
<1>5. CASE Worker
  <2>1. UNCHANGED <<test, frame, image, running>> /\ (outcome' = "crashed" \/ UNCHANGED <<pc, outcome>>)
    <3>1. outcome' = "crashed" \/ UNCHANGED <<pc, outcome>>
      BY <1>5, Zenon DEF Worker
    <3> QED  BY <1>5, <3>1, WorkerKeeps DEF constant, rtVars
  <2>2. CASE outcome' = "crashed"
    BY <2>2 DEF FrameInv
  <2>3. CASE UNCHANGED <<pc, outcome>>
    BY <2>1, <2>3, FrameKept
  <2> QED  BY <2>1, <2>2, <2>3
<1>6. CASE DeadlinePasses \/ UNCHANGED vars
  <2>1. UNCHANGED <<test, pc, outcome, frame, image, running>>
    BY <1>6 DEF DeadlinePasses, vars, apart, constant, rtVars
  <2> QED  BY <2>1, FrameKept
<1> QED  BY <1>1, <1>2, <1>3, <1>4, <1>5, <1>6

\* Pipe: what it holds where nothing of it changes.
LEMMA PipeKept ==
    ASSUME PipeInv, UNCHANGED <<test, step, pc, outcome, pipe, frame, state>>
    PROVE  PipeInv'
<1>1. doing' = doing
  BY ScriptStays DEF doing
<1>2. PipeIdle' = PipeIdle /\ Lost' = Lost
  BY DEF PipeIdle, Lost
<1>3. PipeFlows' = PipeFlows
  BY DEF PipeFlows, FramePlaces
<1> QED  BY <1>1, <1>2, <1>3 DEF PipeInv

\* The thread starts.
LEMMA StartFlows ==
    ASSUME TypeInv, PipeIdle, StartAppThread, test = "pipelined"
    PROVE  PipeFlows'
<1>1. pc' = "check" /\ frame' = frame
  BY Zenon DEF StartAppThread, Goto, rtVars
<1>2. pipe' = [app |-> "wait", left |-> pipe.left, queued |-> pipe.queued,
               completed |-> pipe.completed, result |-> pipe.result]
  BY PipeSteps, Zenon DEF StartAppThread
<1>3. /\ pipe'.app = "wait" /\ pipe'.left = FrameCount /\ pipe'.queued = 0 /\ pipe'.completed = FALSE
      /\ pipe'.result = "SUCCESS" /\ frame' = {}
  BY <1>1, <1>2 DEF PipeIdle, TypeInv
<1> QED  BY <1>1, <1>3, FrameAssumption DEF PipeFlows, FramePlaces

\* The result is looked at.
LEMMA CheckFlows ==
    ASSUME TypeInv, PipeFlows, CheckResult
    PROVE  PipeFlows'
<1>1. frame' = frame /\ pipe' = pipe /\ pc = "check" /\ pc' = "dequeue"
  BY DEF CheckResult, Goto, rtVars, PipeFlows
<1> QED  BY <1>1 DEF PipeFlows, FramePlaces

\* A frame is taken from the queue, or there is none left.
LEMMA DequeueFlows ==
    ASSUME TypeInv, PipeFlows, DequeueFrame
    PROVE  PipeFlows'
<1>1. frame' = frame /\ pc = "dequeue"
  BY Zenon DEF DequeueFrame, rtVars
<1>2. CASE pipe.queued > 0 /\ Pipe(pipe.app, [queued |-> pipe.queued - 1]) /\ Goto("waited")
  <2>1. pipe' = [app |-> pipe.app, left |-> pipe.left, queued |-> pipe.queued - 1,
                 completed |-> pipe.completed, result |-> pipe.result]
    BY <1>2, PipeSteps, Zenon
  <2>2. /\ pipe'.app = pipe.app /\ pipe'.left = pipe.left /\ pipe'.queued = pipe.queued - 1
        /\ pipe'.completed = pipe.completed /\ pipe'.result = pipe.result
    BY <2>1
  <2>3. pipe.queued \in Nat /\ pipe.queued <= 1
    BY DEF TypeInv, PipeFlows
  <2>4. pipe.queued = 1 /\ pipe'.queued = 0
    BY <1>2, <2>2, <2>3
  <2>5. pc' = "waited"
    BY <1>2 DEF Goto
  <2> QED  BY <1>1, <2>2, <2>4, <2>5 DEF PipeFlows, FramePlaces
<1>3. CASE pipe.queued = 0 /\ pipe.completed /\ Goto("join") /\ UNCHANGED pipe
  <2>1. pc' = "join" /\ pipe' = pipe
    BY <1>3 DEF Goto
  <2> QED  BY <1>1, <1>3, <2>1 DEF PipeFlows, FramePlaces
<1> QED  BY <1>2, <1>3, Zenon DEF DequeueFrame

\* After the join the test ends.
LEMMA JoinFlows ==
    ASSUME TypeInv, PipeFlows, JoinAppThread, outcome' = "none"
    PROVE  PipeFlows'
<1>1. ~Fail("lost") /\ ~Fail("timing")
  BY FailOn DEF Ends
<1>2. ~Done
  <2>1. doing[1] = "render"
    BY DEF JoinAppThread, At
  <2>2. step = Len(Script[test])
    BY <2>1, KindsOf
  <2> QED  BY <2>2 DEF Done
<1>3. pc = "join" /\ pipe.app = "done" /\ Pipe("none", NoChange) /\ Goto("joined") /\ frame' = frame
  BY <1>1, <1>2, Zenon DEF JoinAppThread, rtVars
<1>4. pipe' = [app |-> "none", left |-> pipe.left, queued |-> pipe.queued,
               completed |-> pipe.completed, result |-> pipe.result]
  BY <1>3, PipeSteps, Zenon
<1>5. /\ pipe'.app = "none" /\ pipe'.left = pipe.left /\ pipe'.queued = pipe.queued
      /\ pipe'.completed = pipe.completed /\ pipe'.result = pipe.result /\ pc' = "joined"
  BY <1>3, <1>4 DEF Goto
<1> QED  BY <1>3, <1>5 DEF PipeFlows, FramePlaces

\* The main thread renders a frame.
LEMMA FramingFlows ==
    ASSUME TypeInv, PipeFlows, Framing, outcome = "none", outcome' = "none", doing[1] = "render", PlaceInv
    PROVE  PipeFlows' /\ pc' # "top"
<1>1. pipe' = pipe
  BY FramingKeeps, Zenon
<1>2. pc # "frame"
  BY PlacesOnly DEF PlaceInv
<1>3. \/ /\ pc = "waited" /\ frame' = {"begun"} /\ pc' \in {"acquire", "end"}
      \/ pc = "acquire" /\ frame' = frame /\ pc' = "image"
      \/ pc = "image" /\ frame' = frame /\ pc' = "release"
      \/ pc = "release" /\ frame' = frame /\ pc' = "end"
      \/ pc = "end" /\ frame' = frame \ {"begun"} /\ pc' = "check"
  BY <1>2, FramingGoes
<1> QED  BY <1>1, <1>3 DEF PipeFlows, FramePlaces

\* The other thread.
LEMMA AppFlows ==
    ASSUME TypeInv, PipeFlows, AppThread, ~Lost
    PROVE  PipeFlows'
<1>1. pc' = pc
  BY AppThreadKeeps
<1>2. /\ pipe.left \in Nat /\ pipe.queued \in Nat /\ pipe.queued <= 1 /\ pipe.result = "SUCCESS"
  BY DEF TypeInv, PipeFlows
<1>3. CASE AppWaitsFrame
  <2>1. /\ pipe.app = "wait" /\ "waited" \notin frame /\ frame' = frame \cup {"waited"}
        /\ Pipe("queue", [left |-> pipe.left - 1])
    BY <1>3, Zenon DEF AppWaitsFrame, MayWait
  <2>2. pipe' = [app |-> "queue", left |-> pipe.left - 1, queued |-> pipe.queued,
                 completed |-> pipe.completed, result |-> pipe.result]
    BY <2>1, PipeSteps, Zenon
  <2>3. /\ pipe'.app = "queue" /\ pipe'.queued = pipe.queued
        /\ pipe'.completed = pipe.completed /\ pipe'.result = pipe.result
    BY <2>2
  <2> QED  BY <1>1, <2>1, <2>3 DEF PipeFlows
<1>4. CASE AppQueuesFrame
  <2>1. /\ pipe.app = "queue" /\ frame' = frame
        /\ Pipe(IF pipe.left = 0 THEN "signal" ELSE "wait", [queued |-> pipe.queued + 1])
    BY <1>4, Zenon DEF AppQueuesFrame, rtVars
  <2>2. PICK a : a = IF pipe.left = 0 THEN "signal" ELSE "wait"
    OBVIOUS
  <2>3. pipe' = [app |-> a, left |-> pipe.left, queued |-> pipe.queued + 1,
                 completed |-> pipe.completed, result |-> pipe.result]
    BY <2>1, <2>2, PipeSteps, Zenon
  <2>4. /\ pipe'.app = a /\ pipe'.queued = pipe.queued + 1 /\ pipe'.left = pipe.left
        /\ pipe'.completed = pipe.completed /\ pipe'.result = pipe.result
    BY <2>3
  <2>5. pipe.queued = 0 /\ pipe'.queued = 1 /\ (a = "wait" => pipe.left > 0) /\ a \in {"wait", "signal"}
    BY <1>2, <2>1, <2>2, <2>4 DEF PipeFlows
  <2> QED  BY <1>1, <2>1, <2>4, <2>5 DEF PipeFlows
<1>5. CASE SignalNoMoreFrames
  <2>1. pipe.app = "signal" /\ frame' = frame /\ Pipe("done", [completed |-> TRUE])
    BY <1>5, Zenon DEF SignalNoMoreFrames, rtVars
  <2>2. pipe' = [app |-> "done", left |-> pipe.left, queued |-> pipe.queued,
                 completed |-> TRUE, result |-> pipe.result]
    BY <2>1, PipeSteps, Zenon
  <2>3. /\ pipe'.app = "done" /\ pipe'.queued = pipe.queued /\ pipe'.left = pipe.left
        /\ pipe'.completed = TRUE /\ pipe'.result = pipe.result
    BY <2>2
  <2> QED  BY <1>1, <2>1, <2>3 DEF PipeFlows
<1> QED  BY <1>3, <1>4, <1>5, Zenon DEF AppThread

\* Before and after the two threads are two.
LEMMA StillIdle ==
    ASSUME TypeInv, PlaceInv, PipeInv, Step, doing[1] # "render", outcome' = "none"
    PROVE  PipeInv'
<1>1. outcome = "none" /\ PipeIdle
  BY StepOpen DEF PipeInv
<1>2. ~Threading
  BY StepsBy
<1>3. test' = test /\ pipe' = pipe
  BY <1>2, ReadingKeeps, TickingKeeps, NewManagerKeeps, BeginningKeeps, EndingKeeps, FramingKeeps,
     PlainKeeps, RequestExitKeeps, Zenon DEF Step, constant
<1>4. test = "pipelined" => frame' = frame
  <2>1. ~Framing => frame' = frame
    BY <1>2, ReadingKeeps, TickingKeeps, NewManagerKeeps, BeginningKeeps, EndingKeeps,
       PlainKeeps, RequestExitKeeps, Zenon DEF Step, rtVars
  <2>2. Framing => doing[1] \in {"run", "submit", "focus", "sync", "render"}
    <3>1. pc \in PlacesOf(doing[1])
      BY <1>1 DEF PlaceInv
    <3> QED  BY <3>1, PlacesOnly, StepsBy DEF FramePlaces
  <2>3. doing[1] \in {"run", "submit", "focus", "sync"} => test # "pipelined"
    BY KindsOf DEF Running
  <2> QED  BY <2>1, <2>2, <2>3
<1>5. PipeIdle'
  BY <1>1, <1>3, <1>4 DEF PipeIdle
<1>6. step' = step \/ pc' = "top"
  <2>1. Moves
    BY <1>1, MovesAre
  <2> QED  BY <2>1 DEF Moves, Goes, Goto, Advances, Ends
<1>7. step' = step => doing' = doing
  BY <1>3, ScriptStays DEF doing
<1> QED  BY <1>5, <1>6, <1>7 DEF PipeInv

\* Pipe: the steps of the framework.
LEMMA StepPipe ==
    ASSUME TypeInv, PlaceInv, PipeInv, Step
    PROVE  PipeInv'
<1> SUFFICES ASSUME outcome' = "none", doing[1] = "render" PROVE PipeInv'
  BY StillIdle DEF PipeInv
<1>1. Threading \/ Framing
  BY StepOpen, StepsBy
<1>2. outcome = "none"
  BY StepOpen
<1>3. test = "pipelined" /\ step = Len(Script[test])
  BY KindsOf
<1>4. UNCHANGED <<test, state>>
  BY <1>1, ThreadingKeeps, FramingKeeps, Zenon DEF constant, rtVars
<1>5. ~Done
  BY <1>3 DEF Done
<1>6. ~Fail("lost") /\ ~Fail("timing")
  BY FailOn DEF Ends
<1>7. step' = step /\ pc' # "top" /\ (pc = "top" <=> StartAppThread)
  <2>1. Framing => step' = step /\ pc' # "top" /\ pc # "top"
    <3>1. Framing => step' = step /\ pc # "top"
      BY <1>2, FramingGoes
    <3>2. Framing => pc' # "top"
      BY <1>2, FramingGoes
    <3> QED  BY <3>1, <3>2
  <2>2. StartAppThread => step' = step /\ pc' # "top" /\ pc = "top"
    BY DEF StartAppThread, Goto
  <2>3. CheckResult => step' = step /\ pc' # "top" /\ pc # "top"
    BY DEF CheckResult, Goto
  <2>4. DequeueFrame => step' = step /\ pc' # "top" /\ pc # "top"
    BY DEF DequeueFrame, Goto
  <2>5. JoinAppThread => step' = step /\ pc' # "top" /\ pc # "top"
    BY <1>5, <1>6 DEF JoinAppThread, Goto
  <2> QED  BY <1>1, <2>1, <2>2, <2>3, <2>4, <2>5 DEF Threading
<1>8. doing' = doing /\ Lost' = Lost
  BY <1>4, <1>7, ScriptStays DEF doing, Lost
<1>9. ASSUME ~Lost PROVE PipeFlows'
  <2>1. StartAppThread => PipeFlows'
    BY <1>2, <1>3, <1>7, StartFlows DEF PipeInv
  <2>2. CASE ~StartAppThread
    <3>1. PipeFlows
      BY <1>2, <1>7, <1>9, <2>2 DEF PipeInv
    <3>2. Framing => PipeFlows'
      BY <1>2, <3>1, FramingFlows
    <3>3. CheckResult => PipeFlows'
      BY <3>1, CheckFlows
    <3>4. DequeueFrame => PipeFlows'
      BY <3>1, DequeueFlows
    <3>5. JoinAppThread => PipeFlows'
      BY <3>1, JoinFlows
    <3> QED  BY <1>1, <2>2, <3>2, <3>3, <3>4, <3>5, Zenon DEF Threading
  <2> QED  BY <2>1, <2>2
<1> QED  BY <1>7, <1>8, <1>9 DEF PipeInv

\* Pipe: the creation of the session.
LEMMA CreatePipe ==
    ASSUME TypeInv, PlaceInv, PipeInv, Create
    PROVE  PipeInv'
<1> SUFFICES ASSUME outcome' = "none" PROVE PipeInv'
  BY DEF PipeInv
<1>1. UNCHANGED <<test, pipe, frame>> /\ outcome = "none" /\ doing[1] = "create"
  BY CreateMoves DEF constant, rtVars
<1>2. PipeIdle
  BY <1>1 DEF PipeInv
<1>3. PipeIdle'
  BY <1>1, <1>2 DEF PipeIdle
<1>4. Goto("session") \/ Done
  <2>1. ~Fail("create")
    BY FailOn DEF Ends
  <2> QED  BY <2>1, Zenon DEF Create
<1>5. step' = step \/ pc' = "top"
  BY <1>4 DEF Goto, Done
<1>6. step' = step => doing' = doing
  BY <1>1, ScriptStays DEF doing
<1> QED  BY <1>1, <1>3, <1>5, <1>6 DEF PipeInv

\* There are two threads only where the frames are rendered.
LEMMA TwoThreads ==
    ASSUME TypeInv, PipeInv, outcome = "none", pipe.app # "none"
    PROVE  doing[1] = "render" /\ pc # "top" /\ test = "pipelined"
<1>1. doing[1] = "render" /\ pc # "top"
  BY DEF PipeInv, PipeIdle
<1> QED  BY <1>1, KindsOf

\* Pipe: the other thread, the runtime and the rest.
LEMMA RestPipe ==
    ASSUME TypeInv, PlaceInv, PipeInv,
           \/ \E s \in States : RuntimeChanges(s)
           \/ ProfileChanges \/ DestroySession \/ ShutdownDevice \/ LeaveBehind \/ AppThread \/ Worker
           \/ DeadlinePasses \/ UNCHANGED vars
    PROVE  PipeInv'
<1>1. ASSUME NEW s \in States, RuntimeChanges(s) PROVE PipeInv'
  <2>1. UNCHANGED <<test, step, pc, outcome, pipe, frame>>
    BY <1>1, Zenon DEF RuntimeChanges, apart, constant
  <2>2. ~Lost
    <3>1. s # state /\ (s = "LOSS_PENDING" \/ Life!Rest(s) \/ Life!Run(s))
      BY <1>1 DEF RuntimeChanges, Willing, Life!Change
    <3> QED  BY <3>1 DEF Lost, Life!Rest, Life!Run
  <2>3. doing' = doing
    BY <2>1, ScriptStays DEF doing
  <2>4. PipeIdle' = PipeIdle /\ PipeFlows' = PipeFlows
    BY <2>1 DEF PipeIdle, PipeFlows, FramePlaces
  <2> QED  BY <2>1, <2>2, <2>3, <2>4 DEF PipeInv
<1>2. CASE ProfileChanges
  <2>1. UNCHANGED <<test, step, pc, outcome, pipe, frame, state>>
    BY <1>2, Zenon DEF ProfileChanges, apart, constant, rtVars
  <2> QED  BY <2>1, PipeKept
<1>3. CASE DestroySession \/ ShutdownDevice \/ LeaveBehind
  <2>1. pc \in {"destroy", "device"} /\ outcome' = outcome
    BY <1>3 DEF DestroySession, ShutdownDevice, LeaveBehind, Goto
  <2>2. outcome' # "none"
    BY <2>1, PlacesOnly DEF PlaceInv
  <2> QED  BY <2>2 DEF PipeInv
<1>4. CASE AppThread
  <2>1. UNCHANGED <<test, step, pc, outcome, state>> /\ outcome = "none"
    BY <1>4, AppThreadKeeps DEF constant, AppThread
  <2>2. pipe.app # "none"
    BY <1>4 DEF AppThread, AppWaitsFrame, AppQueuesFrame, SignalNoMoreFrames
  <2>3. doing[1] = "render" /\ pc # "top"
    BY <2>1, <2>2, TwoThreads
  <2>4. doing' = doing /\ Lost' = Lost
    BY <2>1, ScriptStays DEF doing, Lost
  <2>5. ~Lost => PipeFlows'
    BY <1>4, <2>1, <2>3, AppFlows DEF PipeInv
  <2> QED  BY <2>1, <2>3, <2>4, <2>5 DEF PipeInv
<1>5. CASE Worker
  <2>1. UNCHANGED <<test, pipe, frame, state, step>> /\ (outcome' = "crashed" \/ UNCHANGED <<pc, outcome>>)
    <3>1. outcome' = "crashed" \/ UNCHANGED <<pc, outcome>>
      BY <1>5, Zenon DEF Worker
    <3> QED  BY <1>5, <3>1, WorkerKeeps DEF constant, rtVars
  <2>2. CASE outcome' = "crashed"
    BY <2>2 DEF PipeInv
  <2>3. CASE UNCHANGED <<pc, outcome>>
    BY <2>1, <2>3, PipeKept
  <2> QED  BY <2>1, <2>2, <2>3
<1>6. CASE DeadlinePasses \/ UNCHANGED vars
  <2>1. UNCHANGED <<test, step, pc, outcome, pipe, frame, state>>
    BY <1>6 DEF DeadlinePasses, vars, apart, constant, rtVars
  <2> QED  BY <2>1, PipeKept
<1> QED  BY <1>1, <1>2, <1>3, <1>4, <1>5, <1>6

\* What has been polled has been raised.
LEMMA PolledIs ==
    ASSUME TypeInv, NEW e, Polled(e)
    PROVE  e \in ToSet(raised)
<1>1. Len(raised) \in Nat /\ Len(queue) \in Nat /\ DOMAIN raised = 1..Len(raised)
  BY DEF TypeInv
<1>2. PICK i \in 1..(Len(raised) - Len(queue)) : raised[i] = e
  BY DEF Polled
<1>3. i \in DOMAIN raised
  BY <1>1, <1>2
<1> QED  BY <1>2, <1>3, Zenon DEF ToSet

\* A session is ended only by a test that polls by itself, or by the cycle.
LEMMA EndsBy ==
    ASSUME TypeInv, doing[1] = "end"
    PROVE  test \in Running \/ test = "cycle"
<1>1. SUFFICES ASSUME test \in Helpers PROVE FALSE
  BY Scripts DEF TypeInv, Running, Helpers
<1>2. test # "cycle"
  BY <1>1 DEF Helpers
<1>3. Scripted(test, step) /\ doing = Script[test][step]
  BY StepKind DEF doing
<1>4. step = Len(Script[test])
  BY <1>2, <1>3 DEF Scripted
<1>5. CASE test = "helper"
  <2>1. Script[test][Len(Script[test])] = <<"sync">>
    BY <1>5 DEF Script
  <2> QED  BY <1>3, <1>4, <2>1
<1>6. CASE test = "manager"
  <2>1. Script[test][Len(Script[test])] = <<"sync">>
    BY <1>6 DEF Script
  <2> QED  BY <1>3, <1>4, <2>1
<1>7. CASE test = "pipelined"
  <2>1. Script[test][Len(Script[test])] = <<"render">>
    BY <1>7 DEF Script
  <2> QED  BY <1>3, <1>4, <2>1
<1> QED  BY <1>1, <1>5, <1>6, <1>7 DEF Helpers

\* READY has been raised when a session is begun, and taken back where it is not READY.
LEMMA BeginKnows ==
    ASSUME TypeInv, PlaceInv, SessionInv, PhaseInv, ReaderInv, ReadyInv, PollInv, outcome = "none", test # "cycle",
           doing[1] = "begin" \/ pc = "begin", ~(state = "READY" /\ ~running), ~Lost
    PROVE  ReadyTakenBack
<1>1. ScriptRuns /\ RaisedInv
  BY DEF PhaseInv
<1>2. step \in Nat /\ BeginAt[test] \in Nat
  BY BeginsAt
<1>3. "READY" \in ToSet(raised) /\ ~running => ReadyTakenBack
  BY <1>1 DEF RaisedInv, Lost
<1>4. pc = "begin" => doing[1] = "run" /\ test \in Running
  <2>1. pc = "begin" => doing[1] = "run"
    BY PlacesOnly DEF PlaceInv
  <2> QED  BY <2>1, KindsOf
<1>5. CASE test \in Running
  <2>1. /\ sessionState # "UNKNOWN" => Polled(sessionState)
        /\ step >= BeginAt[test] /\ (test = "iterated" => running) => Polled("READY")
        /\ pc = "begin" => sessionState = "READY" /\ (running => ReadyTakenBack)
    BY <1>5, PollHolds
  <2>2. CASE pc = "begin"
    BY <1>3, <2>1, <2>2, PolledIs
  <2>3. CASE doing[1] = "begin"
    <3>1. step = BeginAt[test] /\ test # "iterated" /\ ~running
      BY <1>5, <2>3, RunsAt
    <3> QED  BY <1>2, <1>3, <2>1, <3>1, PolledIs
  <2> QED  BY <2>2, <2>3
<1>6. CASE test \in Helpers
  <2>1. doing[1] = "begin"
    BY <1>4, <1>6 DEF Running, Helpers
  <2>2. step = BeginAt[test] /\ test # "iterated"
    BY <2>1, BeginsAt
  <2>3. ~running
    BY <1>1, <2>2 DEF ScriptRuns
  <2>4. PICK i \in 1..(reader["private"] - 1) : events[i] = "READY"
    BY <1>2, <1>6, <2>2 DEF ReadyInv, ReadyRead
  <2>5. "private" \in Readers /\ reader["private"] \in Nat /\ events \in Seq(Events) /\ queue \in Seq(Events)
    BY DEF TypeInv, Readers
  <2>6. reader["private"] <= Len(events) + 1
    <3>1. Follows("private")
      BY <2>5 DEF ReaderInv
    <3> QED  BY <2>5, <3>1 DEF Follows
  <2>7. i \in 1..Len(events)
    BY <2>4, <2>5, <2>6
  <2>8. session # "destroyed"
    BY DEF SessionInv
  <2>9. raised = events \o queue
    BY <1>6, <2>8 DEF ReaderInv, NothingDropped
  <2>10. raised \in Seq(Events) /\ raised[i] = "READY" /\ i \in 1..Len(raised)
    BY <2>4, <2>5, <2>7, <2>9, ConcatType
  <2>11. i \in DOMAIN raised
    BY <2>10
  <2>12. "READY" \in ToSet(raised)
    BY ONLY <2>10, <2>11, Zenon DEF ToSet
  <2> QED  BY <1>3, <2>3, <2>12
<1> QED  BY <1>5, <1>6, Scripts DEF TypeInv, Running, Helpers

\* No call of a frame is out of order.
LEMMA FramesLegal ==
    ASSUME TypeInv, PlaceInv, PhaseInv, FrameInv, PipeInv, Framing, outcome = "none", outcome' # "none", test # "cycle"
    PROVE  /\ UNCHANGED <<refused, frame, image, state>>
           /\ (Lost /\ Fail("lost")) \/ (doing[1] = "run" /\ Fail("imageWait"))
<1>1. ScriptRuns
  BY DEF PhaseInv
<1>2. doing[1] \in {"focus", "sync"} => running
  BY <1>1, KindsOf DEF ScriptRuns
<1>3. pc \in PlacesOf(doing[1])
  BY DEF PlaceInv
<1>4. test = "pipelined" /\ pc \in FramePlaces => doing[1] = "render"
  <2>1. pc \in FramePlaces => doing[1] \in {"run", "submit", "focus", "sync", "render"}
    BY <1>3, PlacesOnly DEF FramePlaces
  <2> QED  BY <2>1, KindsOf DEF Running
<1>5. test = "pipelined" /\ pc \in FramePlaces /\ ~Lost =>
         (pc = "waited" => "waited" \in frame) /\ (pc = "end" => "begun" \in frame)
  BY <1>4 DEF PipeInv, PipeFlows, FramePlaces
<1>6. /\ pc \in FramePlaces \/ pc = "frame" => running
      /\ pc = "acquire" => image = "free"
      /\ pc = "image" => image = "acquired"
      /\ pc = "release" => image = "waited"
      /\ test # "pipelined" => (pc = "waited" => "waited" \in frame) /\ (pc = "end" => "begun" \in frame)
  BY FrameHolds DEF FramePlaces
<1>7. /\ UNCHANGED <<frame, image, state, step>>
      /\ \/ Lost /\ Fail("lost") /\ refused' = refused
         \/ doing[1] = "run" /\ Fail("imageWait") /\ refused' = refused
         \/ /\ ~Lost
            /\ \/ (pc = "frame" \/ (pc = "top" /\ doing[1] \in {"focus", "sync"})) /\ ~running
               \/ pc = "waited" /\ ~(running /\ "waited" \in frame)
               \/ pc = "acquire" /\ image # "free"
               \/ pc = "image" /\ image # "acquired"
               \/ pc = "release" /\ image # "waited"
               \/ pc = "end" /\ ~(running /\ "begun" \in frame)
  BY FramingFails
<1> QED  BY <1>2, <1>5, <1>6, <1>7 DEF FramePlaces

\* Refused calls: none is added.
LEMMA RefusedKept ==
    ASSUME RefusedInv, refused' = refused, test' = test, outcome' = outcome \/ outcome' # "none",
           ReadyTakenBack => ReadyTakenBack'
    PROVE  RefusedInv'
  BY DEF RefusedInv

\* A beginning that is refused comes too late.
LEMMA BeginRefused ==
    ASSUME TypeInv, PlaceInv, SessionInv, PhaseInv, ReaderInv, ReadyInv, PollInv, RefusedInv, Beginning
    PROVE  RefusedInv'
<1>1. outcome = "none" /\ refused = {} /\ UNCHANGED <<test, raised>>
  BY StepOpen, BeginningKeeps, Zenon DEF Step, constant, RefusedInv
<1>2. ReadyTakenBack' = ReadyTakenBack
  BY <1>1 DEF ReadyTakenBack
<1>3. doing[1] = "begin" \/ pc = "begin"
  BY Zenon DEF Beginning, BeginSession, TickBegins, At
<1>4. \/ refused' = refused
      \/ /\ ~(state = "READY" /\ ~running) /\ ~Lost /\ refused' = refused \cup {"xrBeginSession"}
         /\ Fail("refused")
  BY Zenon DEF Beginning, BeginSession, TickBegins, Begin, Call
<1>5. CASE refused' = refused
  BY <1>1, <1>2, <1>5 DEF RefusedInv
<1>6. CASE /\ ~(state = "READY" /\ ~running) /\ ~Lost /\ refused' = refused \cup {"xrBeginSession"}
           /\ Fail("refused")
  <2>1. outcome' # "none"
    BY <1>6, FailOn DEF Ends
  <2>2. refused' = {"xrBeginSession"}
    BY <1>1, <1>6
  <2>3. test # "cycle" => ReadyTakenBack
    BY <1>1, <1>3, <1>6, BeginKnows
  <2> QED  BY <1>1, <1>2, <2>1, <2>2, <2>3 DEF RefusedInv
<1> QED  BY <1>4, <1>5, <1>6

\* No other call of a test but the cycle is refused.
LEMMA OthersLegal ==
    ASSUME TypeInv, PlaceInv, PhaseInv, PollInv, FrameInv, PipeInv, Step, ~Beginning, test # "cycle"
    PROVE  refused' = refused
<1>1. outcome = "none" /\ ScriptRuns /\ RaisedInv
  BY StepOpen DEF PhaseInv
<1>2. CASE Reading \/ Ticking \/ Threading \/ NewManager
  BY <1>2, ReadingKeeps, TickingKeeps, ThreadingKeeps, NewManagerKeeps, Zenon DEF endVars
<1>3. CASE Plain
  BY <1>3, Zenon DEF Plain, Setup, CreateLayers, SyncUntilFocus, RunTestEnvironment, Call, NotThreads, endVars
<1>4. CASE Framing
  <2>1. outcome' = "none" => refused' = refused
    BY <1>1, <1>4, FramingGoes
  <2>2. outcome' # "none" => refused' = refused
    BY <1>1, <1>4, FramesLegal
  <2> QED  BY <2>1, <2>2
<1>5. CASE RequestExit
  <2>1. doing[1] = "exit"
    BY <1>5 DEF RequestExit, At
  <2>2. running
    BY <1>1, <2>1, BeginsAt DEF ScriptRuns
  <2> QED  BY <1>5, <2>2, Zenon DEF RequestExit, Call
<1>6. CASE EndEarly
  BY <1>6, Zenon DEF EndEarly, endVars
<1>7. CASE EndSession
  <2>1. doing[1] = "end"
    BY <1>7 DEF EndSession, At
  <2>2. running
    BY <1>1, <2>1, BeginsAt DEF ScriptRuns
  <2>3. Polled("STOPPING")
    BY <1>1, <2>1, EndsBy, PollHolds
  <2>4. state = "STOPPING" \/ Lost
    BY <1>1, <2>3, PolledIs DEF RaisedInv, Lost
  <2> QED  BY <1>7, <2>2, <2>4, Zenon DEF EndSession, Call
<1> QED  BY <1>2, <1>3, <1>4, <1>5, <1>6, <1>7, Zenon DEF Step, Ending

\* Refused calls: the steps of the framework.
LEMMA StepRefused ==
    ASSUME TypeInv, PlaceInv, SessionInv, PhaseInv, ReaderInv, ReadyInv, PollInv, FrameInv, PipeInv, RefusedInv, Step
    PROVE  RefusedInv'
<1>1. outcome = "none" /\ refused = {} /\ UNCHANGED <<test, raised>>
  BY StepOpen, StepKeeps DEF RefusedInv
<1>2. ReadyTakenBack' = ReadyTakenBack
  BY <1>1 DEF ReadyTakenBack
<1>3. CASE Beginning
  BY <1>3, BeginRefused
<1>4. CASE ~Beginning /\ test # "cycle"
  BY <1>1, <1>2, <1>4, OthersLegal DEF RefusedInv
<1>5. CASE ~Beginning /\ test = "cycle"
  <2>1. refused' = refused \/ Fail("refused")
    <3>1. CASE Reading \/ Ticking \/ Threading \/ NewManager
      BY <3>1, ReadingKeeps, TickingKeeps, ThreadingKeeps, NewManagerKeeps, Zenon DEF endVars
    <3>2. CASE Plain
      BY <3>2, Zenon DEF Plain, Setup, CreateLayers, SyncUntilFocus, RunTestEnvironment, Call, NotThreads, endVars
    <3>3. CASE Framing
      <4>1. outcome' = "none" => refused' = refused
        BY <1>1, <3>3, FramingGoes
      <4>2. outcome' # "none" => refused' = refused \/ Fail("refused")
        BY <1>1, <3>3, FramingFails
      <4> QED  BY <4>1, <4>2
    <3>4. CASE RequestExit \/ Ending
      BY <3>4, Zenon DEF RequestExit, Ending, EndSession, EndEarly, endVars, Call
    <3> QED  BY <1>5, <3>1, <3>2, <3>3, <3>4, Zenon DEF Step
  <2>2. Fail("refused") => outcome' # "none"
    BY FailOn DEF Ends
  <2> QED  BY <1>1, <1>5, <2>1, <2>2 DEF RefusedInv
<1> QED  BY <1>3, <1>4, <1>5

\* Refused calls: the other steps.
LEMMA RestRefused ==
    ASSUME TypeInv, PlaceInv, RefusedInv,
           \/ \E s \in States : RuntimeChanges(s)
           \/ Create \/ ProfileChanges \/ DestroySession \/ ShutdownDevice \/ LeaveBehind \/ AppThread \/ Worker
           \/ DeadlinePasses \/ UNCHANGED vars
    PROVE  RefusedInv'
<1>0. raised' = raised => ReadyTakenBack' = ReadyTakenBack
  BY DEF ReadyTakenBack
<1>1. ASSUME NEW s \in States, RuntimeChanges(s) PROVE RefusedInv'
  <2>1. s \in Events /\ Raise(s) /\ UNCHANGED <<test, outcome, refused>>
    BY <1>1, Zenon DEF RuntimeChanges, Events, apart, constant, endVars
  <2>2. ReadyTakenBack => ReadyTakenBack'
    BY <2>1, RaiseTyped, TakenBackStays DEF TypeInv
  <2> QED  BY <2>1, <2>2, RefusedKept
<1>2. CASE ProfileChanges
  <2>1. "OTHER" \in Events /\ Raise("OTHER") /\ UNCHANGED <<test, outcome, refused>>
    BY <1>2, Zenon DEF ProfileChanges, Events, apart, constant, endVars
  <2>2. ReadyTakenBack => ReadyTakenBack'
    BY <2>1, RaiseTyped, TakenBackStays DEF TypeInv
  <2> QED  BY <2>1, <2>2, RefusedKept
<1>3. CASE DestroySession \/ ShutdownDevice \/ LeaveBehind
  <2>1. UNCHANGED <<test, outcome, raised, refused>>
    BY <1>3, Zenon DEF DestroySession, ShutdownDevice, LeaveBehind, Goto, apart, constant, endVars
  <2> QED  BY <1>0, <2>1, RefusedKept
<1>4. CASE AppThread
  <2>1. UNCHANGED <<test, outcome, raised, refused>>
    BY <1>4, AppThreadKeeps DEF constant, endVars
  <2> QED  BY <1>0, <2>1, RefusedKept
<1>5. CASE Worker
  <2>1. UNCHANGED <<test, raised, refused>> /\ (outcome' = "crashed" \/ outcome' = outcome)
    <3>1. outcome' = "crashed" \/ outcome' = outcome
      BY <1>5, Zenon DEF Worker
    <3> QED  BY <1>5, <3>1, WorkerKeeps DEF constant, endVars
  <2> QED  BY <1>0, <2>1, RefusedKept
<1>6. CASE DeadlinePasses \/ UNCHANGED vars
  <2>1. UNCHANGED <<test, outcome, raised, refused>>
    BY <1>6 DEF DeadlinePasses, vars, apart, constant, endVars
  <2> QED  BY <1>0, <2>1, RefusedKept
<1>7. CASE Create
  <2>1. UNCHANGED <<test, raised, refused>> /\ outcome = "none"
    BY <1>7, CreateMoves DEF constant
  <2> QED  BY <1>0, <2>1, RefusedKept
<1> QED  BY <1>1, <1>2, <1>3, <1>4, <1>5, <1>6, <1>7

\* Reasons: a test that is over keeps its own.
LEMMA ReasonKept ==
    ASSUME ReasonInv, UNCHANGED <<test, outcome, frame, image, pipe>>, Lost => Lost',
           ReadyTakenBack => ReadyTakenBack', \A s : Contains(raised, s) => Contains(raised', s)
    PROVE  ReasonInv'
<1>1. UnexpectedExplained'
  BY DEF ReasonInv, UnexpectedExplained
<1>2. LeftOpenExplained'
  BY DEF ReasonInv, LeftOpenExplained
<1>3. PipelineExplained'
  BY DEF ReasonInv, PipelineExplained
<1> QED  BY <1>1, <1>2, <1>3 DEF ReasonInv

\* What ends a test, and how.
LEMMA EndsHow ==
    /\ Done => outcome' \in {"passed", outcome}
    /\ \A l : Goto(l) => outcome' = outcome
    /\ Stay => outcome' = outcome
    /\ \A why : Fail(why) => outcome' = IF Joinable THEN "terminated" ELSE why
  BY DEF Done, Goto, Stay, Fail

\* The steps that find a state unexpected.
LEMMA UnexpectedBy ==
    ASSUME Step, outcome = "none", outcome' = "unexpected"
    PROVE  PollEvents \/ Tick \/ EndEarly \/ NextSessionState
<1>1. ~Done /\ ~Stay /\ \A l : ~Goto(l)
  BY EndsHow
<1>2. ~Fail("refused") /\ ~Fail("lost") /\ ~Fail("create") /\ ~Fail("layers") /\ ~Fail("errors")
      /\ ~Fail("timeout") /\ ~Fail("timing") /\ ~Fail("imageWait")
  BY EndsHow
<1>3. ~AwaitReady /\ ~AwaitOwnReady /\ ~LookForFocus
  BY <1>1, <1>2, Zenon DEF AwaitReady, AwaitOwnReady, LookForFocus
<1>4. ~Setup /\ ~CreateLayers /\ ~NewManager /\ ~RunTestEnvironment
  BY <1>1, <1>2, Zenon DEF Setup, CreateLayers, NewManager, RunTestEnvironment
<1>5. ~SyncUntilFocus /\ ~RequestExit /\ ~EndSession /\ ~BeginSession /\ ~TickBegins
  BY <1>1, <1>2, Zenon DEF SyncUntilFocus, RequestExit, EndSession, BeginSession, TickBegins, Begin, Call
<1>6. ~WaitFrame /\ ~BeginFrame /\ ~AcquireImage /\ ~ReleaseImage /\ ~EndFrame
  BY <1>1, <1>2, Zenon DEF WaitFrame, BeginFrame, AcquireImage, ReleaseImage, EndFrame, Call
<1>7. ~WaitImage
  BY <1>1, <1>2, Zenon DEF WaitImage, ImageWaitExpires, Call
<1>8. ~Threading
  BY <1>1, <1>2, Zenon DEF Threading, StartAppThread, CheckResult, DequeueFrame, JoinAppThread
<1> QED
  BY <1>3, <1>4, <1>5, <1>6, <1>7, <1>8 DEF Step, Reading, Ticking, Beginning, Ending, Plain, Framing

\* An event has been raised.
LEMMA Contained ==
    ASSUME raised \in Seq(Events)
    PROVE  \A e : Contains(raised, e) <=> e \in ToSet(raised)
<1>1. DOMAIN raised = 1..Len(raised)
  OBVIOUS
<1> QED  BY <1>1, Zenon DEF Contains, ToSet

\* What the loop of FrameIterator finds unexpected has been raised.
LEMMA TickFinds ==
    ASSUME TypeInv, PlaceInv, PhaseInv, PollInv, Tick, outcome' = "unexpected"
    PROVE  \E s \in {"STOPPING", "EXITING", "LOSS_PENDING"} : Contains(raised, s)
<1>1. outcome = "none" /\ doing[1] = "run" /\ raised' = raised
  BY TickGoes
<1>2. test \in Running
  BY <1>1, KindsOf
<1>3. ~Done /\ ~Stay /\ ~Goto("begin") /\ ~Goto("frame") /\ ~Fail("timeout")
  BY <1>1, EndsHow
<1>4. sessionState' \in {"LOSS_PENDING", "EXITING", "STOPPING"}
  BY <1>3, TickGoes
<1>5. Unpolled' /\ TypeInv' /\ \A e : e = sessionState' /\ e # "UNKNOWN" => Polled(e)'
  <2>1. Tick => Step
    BY DEF Step, Ticking
  <2> QED  BY <1>2, <2>1, StepTyped, TickPolled
<1>6. PICK s \in {"STOPPING", "EXITING", "LOSS_PENDING"} : s = sessionState'
  BY <1>4
<1>7. Polled(s)'
  BY <1>5, <1>6
<1>8. s \in ToSet(raised)
  BY <1>1, <1>5, <1>7, RaisedHas
<1>9. raised \in Seq(Events)
  BY DEF TypeInv
<1> QED  BY <1>6, <1>8, <1>9, Contained

\* What CompositionHelper finds unexpected.
LEMMA PollFinds ==
    ASSUME TypeInv, PlaceInv, SessionInv, EventInv, PhaseInv, ReaderInv, ReadyInv, PollEvents,
           outcome = "none", outcome' = "unexpected"
    PROVE  (\E s \in {"STOPPING", "EXITING", "LOSS_PENDING"} : Contains(raised, s)) \/ ReadyTakenBack
<1>1. ~Goto("look") /\ ~Stay
  BY EndsHow
<1>2. PICK e \in States \ FrameLoopStates : TryReadNext("private", e)
  BY <1>1, Zenon DEF PollEvents
<1>3. doing[1] \in {"focus", "sync"}
  BY PlacesOnly DEF PlaceInv, PollEvents
<1>4. test \in Helpers /\ test # "cycle" /\ step > BeginAt[test]
  BY <1>3, KindsOf DEF Helpers
<1>5. ScriptRuns /\ RaisedInv /\ step \in Nat /\ BeginAt[test] \in Nat
  BY <1>4, BeginsAt DEF PhaseInv
<1>6. running
  BY <1>4, <1>5 DEF ScriptRuns
<1>7. raised = events \o queue
  <2>1. session # "destroyed"
    BY DEF SessionInv
  <2> QED  BY <1>4, <2>1 DEF ReaderInv, NothingDropped
<1>8. "private" \in Readers /\ reader["private"] \in Nat /\ events \in Seq(Events) /\ queue \in Seq(Events)
      /\ raised \in Seq(Events)
  BY DEF TypeInv, Readers
<1>9. PICK n \in Nat : n = reader["private"]
  BY <1>8
<1>10. n <= Len(raised) /\ e = raised[n]
  BY <1>2, <1>7, <1>9 DEF TryReadNext, ReadEvents
<1>11. PICK i \in 1..(n - 1) : events[i] = "READY"
  BY <1>4, <1>5, <1>9 DEF ReadyInv, ReadyRead
<1>12. n <= Len(events) + 1
  <2>1. Follows("private")
    BY <1>8 DEF ReaderInv
  <2> QED  BY <1>8, <1>9, <1>11, <2>1 DEF Follows
<1>13. raised[i] = "READY"
  <2>1. i \in 1..Len(events)
    BY <1>8, <1>9, <1>11, <1>12
  <2> QED  BY <1>7, <1>8, <1>11, <2>1, ConcatType
<1>14. n \in DOMAIN raised /\ i \in DOMAIN raised /\ i < n
  BY <1>8, <1>10, <1>11
<1>15. e \in ToSet(raised)
  BY <1>10, <1>14, Zenon DEF ToSet
<1>16. e \in {"IDLE", "STOPPING", "EXITING", "LOSS_PENDING"}
  BY <1>2, <1>15 DEF EventInv, States, FrameLoopStates
<1>17. CASE e = "IDLE"
  BY <1>5, <1>10, <1>13, <1>14, <1>17 DEF RaisedInv
<1>18. CASE e \in {"STOPPING", "EXITING", "LOSS_PENDING"}
  BY <1>8, <1>15, <1>18, Contained
<1> QED  BY <1>16, <1>17, <1>18

\* A test is terminated only with a thread that was not joined.
LEMMA TerminatedBy ==
    ASSUME TypeInv, Step, outcome = "none", ~Joinable
    PROVE  outcome' # "terminated"
<1> SUFFICES ASSUME outcome' = "terminated" PROVE FALSE
  OBVIOUS
<1>1. ~Done /\ ~Stay /\ \A l : ~Goto(l)
  BY EndsHow
<1>2. ~Fail("refused") /\ ~Fail("lost") /\ ~Fail("create") /\ ~Fail("layers") /\ ~Fail("errors")
      /\ ~Fail("timeout") /\ ~Fail("timing") /\ ~Fail("imageWait") /\ ~Fail("unexpected")
  BY EndsHow
<1>3. ~AwaitReady /\ ~AwaitOwnReady /\ ~LookForFocus /\ ~PollEvents
  BY <1>1, <1>2, Zenon DEF AwaitReady, AwaitOwnReady, LookForFocus, PollEvents
<1>4. ~Setup /\ ~CreateLayers /\ ~NewManager /\ ~RunTestEnvironment
  BY <1>1, <1>2, Zenon DEF Setup, CreateLayers, NewManager, RunTestEnvironment
<1>5. ~SyncUntilFocus /\ ~RequestExit /\ ~EndSession /\ ~BeginSession /\ ~TickBegins
  BY <1>1, <1>2, Zenon DEF SyncUntilFocus, RequestExit, EndSession, BeginSession, TickBegins, Begin, Call
<1>6. ~WaitFrame /\ ~BeginFrame /\ ~AcquireImage /\ ~ReleaseImage /\ ~EndFrame
  BY <1>1, <1>2, Zenon DEF WaitFrame, BeginFrame, AcquireImage, ReleaseImage, EndFrame, Call
<1>7. ~WaitImage
  BY <1>1, <1>2, Zenon DEF WaitImage, ImageWaitExpires, Call
<1>8. ~Threading
  BY <1>1, <1>2, Zenon DEF Threading, StartAppThread, CheckResult, DequeueFrame, JoinAppThread
<1>9. ~EndEarly /\ ~NextSessionState
  BY <1>1, <1>2, Zenon DEF EndEarly, NextSessionState
<1>10. ~Tick
  BY <1>1, <1>2, TickGoes
<1> QED
  BY <1>3, <1>4, <1>5, <1>6, <1>7, <1>8, <1>9, <1>10 DEF Step, Reading, Ticking, Beginning, Ending, Plain, Framing

\* With a session that is not lost, a test ends outside of a frame or for want of an image, and alone.
LEMMA FrameEnds ==
    ASSUME TypeInv, PlaceInv, PhaseInv, FrameInv, PipeInv, Framing, outcome = "none", outcome' # "none", ~Lost
    PROVE  /\ UNCHANGED <<frame, image, pipe>> /\ pipe.queued = 0 /\ ~Joinable
           /\ outcome' = "imageWait" \/ (frame = {} /\ image = "free")
<1>1. UNCHANGED <<frame, image, pipe>>
  BY FramingFails, FramingKeeps
<1>2. CASE test # "cycle"
  <2>1. doing[1] = "run" /\ Fail("imageWait")
    BY <1>2, FramesLegal
  <2>2. pipe.queued = 0 /\ ~Joinable
    BY <2>1 DEF PipeInv, PipeIdle, Joinable
  <2> QED  BY <1>1, <2>1, <2>2, EndsHow
<1>3. CASE test = "cycle"
  <2>1. doing[1] \notin {"run", "render", "focus", "sync"}
    BY <1>3, KindsOf DEF Running
  <2>2. pipe.queued = 0 /\ ~Joinable
    BY <2>1 DEF PipeInv, PipeIdle, Joinable
  <2>3. \/ pc = "frame"
        \/ pc = "waited" /\ ~(running /\ "waited" \in frame)
        \/ pc = "acquire" /\ image # "free"
        \/ pc = "image" /\ image # "acquired"
        \/ pc = "release" /\ image # "waited"
        \/ pc = "end" /\ ~(running /\ "begun" \in frame)
    BY <2>1, FramingFails
  <2>4. pc = "frame"
    BY <1>3, <2>3, FrameHolds DEF FramePlaces
  <2>5. frame = {} /\ image = "free"
    BY <1>3, <2>4, FrameHolds DEF FramePlaces
  <2> QED  BY <1>1, <2>2, <2>5
<1> QED  BY <1>2, <1>3

\* A test that ends outside of the calls of a frame holds neither frame nor image.
LEMMA OtherEnds ==
    ASSUME TypeInv, PlaceInv, FrameInv, PipeInv, Step, ~Framing, outcome' # "none", ~Lost
    PROVE  UNCHANGED <<frame, image, pipe>> /\ pipe.queued = 0 /\ ~Joinable /\ frame = {} /\ image = "free"
<1>1. outcome = "none"
  BY StepOpen
<1>2. CASE doing[1] # "render"
  <2>1. ~Threading
    BY <1>2, StepsBy
  <2>2. UNCHANGED <<frame, image, pipe>>
    BY <2>1, ReadingKeeps, TickingKeeps, NewManagerKeeps, BeginningKeeps, EndingKeeps,
       PlainKeeps, RequestExitKeeps, Zenon DEF Step, rtVars
  <2>3. PipeIdle
    BY <1>1, <1>2 DEF PipeInv
  <2>4. pc \notin FramePlaces
    BY InFrame DEF Unframed
  <2>5. image = "free" /\ frame = {}
    BY <1>1, <2>3, <2>4, FrameHolds DEF PipeIdle, FramePlaces
  <2> QED  BY <2>2, <2>3, <2>5 DEF PipeIdle, Joinable
<1>3. CASE doing[1] = "render"
  <2>1. Threading
    BY <1>3, StepsBy
  <2>2. ~Goto("check") /\ ~Goto("dequeue") /\ ~Goto("join") /\ ~Goto("waited") /\ ~Goto("joined")
    BY <1>1, EndsHow
  <2>3. ~StartAppThread /\ ~DequeueFrame
    BY <2>2, Zenon DEF StartAppThread, DequeueFrame
  <2>4. ~CheckResult
    BY <1>1 DEF CheckResult, Goto
  <2>5. JoinAppThread
    BY <2>1, <2>3, <2>4 DEF Threading
  <2>6. pc = "joined" /\ pipe' = pipe
    BY <2>2, <2>5, Zenon DEF JoinAppThread
  <2>7. PipeFlows
    BY <1>1, <1>3, <2>6 DEF PipeInv
  <2>8. pipe.queued = 0 /\ pipe.app = "none" /\ "waited" \notin frame /\ "begun" \notin frame
    BY <2>6, <2>7 DEF PipeFlows, FramePlaces
  <2>9. frame = {}
    <3>1. frame \subseteq {"waited", "begun"}
      BY DEF TypeInv
    <3> QED  BY <2>8, <3>1
  <2>10. image = "free"
    BY <1>1, <2>6, FrameHolds
  <2>11. frame' = frame /\ image' = image
    BY <2>1, ThreadingKeeps DEF rtVars
  <2> QED  BY <2>6, <2>8, <2>9, <2>10, <2>11 DEF Joinable
<1> QED  BY <1>2, <1>3

\* Reasons: the steps of the framework.
LEMMA StepReason ==
    ASSUME TypeInv, PlaceInv, SessionInv, EventInv, PhaseInv, ReaderInv, ReadyInv, PollInv, FrameInv, PipeInv,
           ReasonInv, Step
    PROVE  ReasonInv'
<1>1. outcome = "none" /\ UNCHANGED <<test, raised, state>>
  BY StepOpen, StepKeeps
<1>2. Lost' = Lost /\ ReadyTakenBack' = ReadyTakenBack /\ \A s : Contains(raised', s) = Contains(raised, s)
  BY <1>1 DEF Lost, ReadyTakenBack
<1>3. UnexpectedExplained'
  <2>1. SUFFICES ASSUME outcome' = "unexpected", test # "cycle"
                 PROVE  (\E s \in {"STOPPING", "EXITING", "LOSS_PENDING"} : Contains(raised, s)) \/ ReadyTakenBack
    BY <1>1, <1>2 DEF UnexpectedExplained
  <2>2. ~EndEarly /\ ~NextSessionState
    <3>1. doing[1] \notin {"end_early", "next", "submit", "quiet"}
      BY <2>1, KindsOf
    <3> QED  BY <3>1, Zenon DEF EndEarly, NextSessionState, At
  <2>3. PollEvents \/ Tick
    BY <1>1, <2>1, <2>2, UnexpectedBy
  <2> QED  BY <1>1, <2>1, <2>3, TickFinds, PollFinds
<1>4. LeftOpenExplained' /\ PipelineExplained'
  <2>1. SUFFICES ASSUME outcome' # "none", ~Lost PROVE LeftOpenExplained' /\ PipelineExplained'
    BY <1>2 DEF LeftOpenExplained, PipelineExplained
  <2>2. /\ UNCHANGED <<frame, image, pipe>> /\ pipe.queued = 0 /\ ~Joinable
        /\ outcome' = "imageWait" \/ (frame = {} /\ image = "free")
    BY <1>1, <2>1, FrameEnds, OtherEnds
  <2>3. outcome' # "terminated"
    BY <1>1, <2>2, TerminatedBy
  <2> QED  BY <2>2, <2>3 DEF LeftOpenExplained, PipelineExplained
<1> QED  BY <1>3, <1>4 DEF ReasonInv

\* Reasons: the creation of the session.
LEMMA CreateReason ==
    ASSUME TypeInv, PlaceInv, FrameInv, PipeInv, Create
    PROVE  ReasonInv'
<1>1. /\ UNCHANGED <<frame, image, pipe>> /\ outcome = "none" /\ pc \in {"top", "session"} /\ doing[1] = "create"
      /\ outcome' # "none" => outcome' \in {"create", "terminated", "passed"}
                              /\ (outcome' = "terminated" => Joinable)
  BY CreateMoves DEF rtVars
<1>2. PipeIdle
  BY <1>1 DEF PipeInv
<1>3. image = "free" /\ frame = {}
  BY <1>1, <1>2, FrameHolds DEF PipeIdle, FramePlaces
<1>4. pipe.queued = 0 /\ ~Joinable
  BY <1>2 DEF PipeIdle, Joinable
<1>5. outcome' \in {"none", "create", "passed"}
  BY <1>1, <1>4
<1>6. UnexpectedExplained'
  BY <1>5 DEF UnexpectedExplained
<1>7. LeftOpenExplained'
  BY <1>1, <1>3 DEF LeftOpenExplained
<1>8. PipelineExplained'
  BY <1>1, <1>4, <1>5 DEF PipelineExplained
<1> QED  BY <1>6, <1>7, <1>8 DEF ReasonInv

\* An event more leaves the reasons there are.
LEMMA RaiseReason ==
    ASSUME TypeInv, ReasonInv, NEW e \in Events, Raise(e), UNCHANGED <<test, outcome, frame, image, pipe>>,
           Lost => Lost'
    PROVE  ReasonInv'
<1>1. raised \in Seq(Events) /\ raised' = Append(raised, e)
  BY RaiseTyped DEF TypeInv
<1>2. ReadyTakenBack => ReadyTakenBack'
  BY <1>1, TakenBackStays
<1>3. /\ Len(raised') = Len(raised) + 1 /\ Len(raised) \in Nat
      /\ \A i \in 1..Len(raised) : raised'[i] = raised[i]
  BY <1>1, Appended
<1>4. ASSUME NEW s, Contains(raised, s) PROVE Contains(raised', s)
  <2>1. PICK i \in 1..Len(raised) : raised[i] = s
    BY <1>4 DEF Contains
  <2>2. i \in 1..Len(raised') /\ raised'[i] = s
    BY <1>3, <2>1
  <2> QED  BY <2>2 DEF Contains
<1> QED  BY <1>2, <1>4, ReasonKept

\* Reasons: the other steps.
LEMMA RestReason ==
    ASSUME TypeInv, PlaceInv, FrameInv, PipeInv, ReasonInv,
           \/ \E s \in States : RuntimeChanges(s)
           \/ ProfileChanges \/ DestroySession \/ ShutdownDevice \/ LeaveBehind \/ AppThread \/ Worker
           \/ DeadlinePasses \/ UNCHANGED vars
    PROVE  ReasonInv'
<1>0. UNCHANGED <<raised, state>> => /\ Lost' = Lost /\ ReadyTakenBack' = ReadyTakenBack
                                     /\ \A s : Contains(raised', s) = Contains(raised, s)
  BY DEF Lost, ReadyTakenBack
<1>1. ASSUME NEW s \in States, RuntimeChanges(s) PROVE ReasonInv'
  <2>1. s \in Events /\ Raise(s) /\ UNCHANGED <<test, outcome, frame, image, pipe>>
    BY <1>1, Zenon DEF RuntimeChanges, Events, apart, constant
  <2>2. ~Lost
    <3>1. s # state /\ (s = "LOSS_PENDING" \/ Life!Rest(s) \/ Life!Run(s))
      BY <1>1 DEF RuntimeChanges, Willing, Life!Change
    <3> QED  BY <3>1 DEF Lost, Life!Rest, Life!Run
  <2> QED  BY <2>1, <2>2, RaiseReason
<1>2. CASE ProfileChanges
  <2>1. "OTHER" \in Events /\ Raise("OTHER") /\ UNCHANGED <<test, outcome, frame, image, pipe, state>>
    BY <1>2, Zenon DEF ProfileChanges, Events, apart, constant, rtVars
  <2>2. Lost => Lost'
    BY <2>1 DEF Lost
  <2> QED  BY <2>1, <2>2, RaiseReason
<1>3. CASE DestroySession \/ ShutdownDevice \/ LeaveBehind
  <2>1. UNCHANGED <<test, outcome, frame, image, pipe, raised, state>>
    BY <1>3, Zenon DEF DestroySession, ShutdownDevice, LeaveBehind, Goto, apart, constant, rtVars
  <2> QED  BY <1>0, <2>1, ReasonKept
<1>4. CASE AppThread
  <2>1. outcome' = "none"
    BY <1>4, AppThreadKeeps DEF AppThread
  <2> QED  BY <2>1 DEF ReasonInv, UnexpectedExplained, LeftOpenExplained, PipelineExplained
<1>5. CASE Worker
  <2>1. UNCHANGED <<test, frame, image, pipe, raised, state>> /\ outcome = "none" /\ doing[1] = "threads"
    <3>1. outcome = "none" /\ doing[1] = "threads"
      BY <1>5, Zenon DEF Worker, At
    <3> QED  BY <1>5, <3>1, WorkerKeeps DEF constant, rtVars
  <2>2. outcome' = "crashed" \/ outcome' = outcome
    BY <1>5, Zenon DEF Worker
  <2>3. PipeIdle
    BY <2>1 DEF PipeInv
  <2>4. pc \notin FramePlaces
    BY <2>1, PlacesOnly DEF PlaceInv, FramePlaces
  <2>5. image = "free" /\ frame = {}
    BY <2>1, <2>3, <2>4, FrameHolds DEF PipeIdle, FramePlaces
  <2>6. pipe.queued = 0
    BY <2>3 DEF PipeIdle
  <2> QED  BY <2>1, <2>2, <2>5, <2>6 DEF ReasonInv, UnexpectedExplained, LeftOpenExplained, PipelineExplained
<1>6. CASE DeadlinePasses \/ UNCHANGED vars
  <2>1. UNCHANGED <<test, outcome, frame, image, pipe, raised, state>>
    BY <1>6 DEF DeadlinePasses, vars, apart, constant, rtVars
  <2> QED  BY <1>0, <2>1, ReasonKept
<1> QED  BY <1>1, <1>2, <1>3, <1>4, <1>5, <1>6

\* READY read: the other steps.
LEMMA RestReady ==
    ASSUME TypeInv, PlaceInv, ReadyInv,
           \/ \E s \in States : RuntimeChanges(s)
           \/ ProfileChanges \/ DestroySession \/ ShutdownDevice \/ LeaveBehind \/ AppThread \/ Worker
           \/ DeadlinePasses \/ UNCHANGED vars
    PROVE  ReadyInv'
<1>1. CASE DestroySession \/ ShutdownDevice \/ LeaveBehind
  <2>1. pc \in {"destroy", "device"} /\ outcome' = outcome
    BY <1>1 DEF DestroySession, ShutdownDevice, LeaveBehind, Goto
  <2>2. outcome' # "none"
    BY <2>1, PlacesOnly DEF PlaceInv
  <2> QED  BY <2>2 DEF ReadyInv
<1>2. CASE (\E s \in States : RuntimeChanges(s)) \/ ProfileChanges
  <2>1. UNCHANGED <<test, step, outcome, events, reader>>
    BY <1>2, Zenon DEF RuntimeChanges, ProfileChanges, apart, constant, readVars
  <2> QED  BY <2>1, ReadyKept
<1>3. CASE AppThread
  <2>1. UNCHANGED <<test, step, outcome, events, reader>>
    BY <1>3, AppThreadKeeps DEF constant, readVars
  <2> QED  BY <2>1, ReadyKept
<1>4. CASE Worker
  <2>1. UNCHANGED <<test, step, events, reader>>
    BY <1>4, WorkerKeeps DEF constant, readVars
  <2>2. outcome' = "crashed" \/ outcome' = outcome
    BY <1>4, Zenon DEF Worker
  <2>3. CASE outcome' = "crashed"
    BY <2>3 DEF ReadyInv
  <2>4. CASE outcome' = outcome
    BY <2>1, <2>4, ReadyKept
  <2> QED  BY <2>2, <2>3, <2>4
<1>5. CASE DeadlinePasses \/ UNCHANGED vars
  <2>1. UNCHANGED <<test, step, outcome, events, reader>>
    BY <1>5 DEF DeadlinePasses, vars, apart, constant, readVars
  <2> QED  BY <2>1, ReadyKept
<1> QED  BY <1>1, <1>2, <1>3, <1>4, <1>5

CallInv == ReadyInv /\ PollInv /\ RefusedInv /\ FrameInv /\ PipeInv /\ ReasonInv

\* What holds of the calls holds when a test begins.
LEMMA CallInit == Init => CallInv
<1> SUFFICES ASSUME Init PROVE CallInv
  OBVIOUS
<1>1. /\ state = "UNKNOWN" /\ running = FALSE /\ frame = {} /\ image = "free"
      /\ queue = <<>> /\ raised = <<>> /\ events = <<>>
      /\ sessionState = "UNKNOWN" /\ step = 1 /\ pc = "top" /\ outcome = "none" /\ refused = {}
      /\ pipe = [app |-> "none", left |-> FrameCount, queued |-> 0, completed |-> FALSE,
                 result |-> "SUCCESS"]
  BY Zenon DEF Init, Life!Init
<1>2. test \in DOMAIN Script /\ TypeInv
  BY MainInit, TestsAssumption DEF Init, MainInv
<1>3. 1 < BeginAt[test] /\ BeginAt[test] \in Nat
  <2>1. CreateAt[test] >= 1
    BY <1>2, Scripts DEF CreateAt
  <2>2. CreateAt[test] \in Nat /\ BeginAt[test] \in Nat /\ CreateAt[test] < BeginAt[test]
    BY <1>2, Places, Zenon
  <2> QED  BY <2>1, <2>2
<1>4. ReadyInv
  BY <1>1, <1>3 DEF ReadyInv, ReadyRead
<1>5. PollInv
  <2>1. Unpolled
    BY <1>1 DEF Unpolled
  <2>2. \A e \in ToSet(events) : Polled(e)
    BY <1>1 DEF ToSet
  <2>3. doing[1] # "end"
    <3>1. doing[1] = "end" => step > BeginAt[test]
      BY <1>2, BeginsAt
    <3> QED  BY <1>1, <1>3, <3>1
  <2> QED  BY <1>1, <1>3, <2>1, <2>2, <2>3 DEF PollInv
<1>6. RefusedInv
  BY <1>1 DEF RefusedInv
<1>7. FrameInv
  BY <1>1 DEF FrameInv, FramePlaces
<1>8. PipeInv
  BY <1>1 DEF PipeInv, PipeIdle
<1>9. ReasonInv
  BY <1>1 DEF ReasonInv, UnexpectedExplained, LeftOpenExplained, PipelineExplained
<1> QED  BY <1>4, <1>5, <1>6, <1>7, <1>8, <1>9 DEF CallInv

\* Every step keeps what holds of the calls.
LEMMA CallNext ==
    ASSUME MainInv, CallInv, [Next]_vars
    PROVE  CallInv'
<1>1. /\ TypeInv /\ PlaceInv /\ SessionInv /\ EventInv /\ PhaseInv /\ ReaderInv
      /\ ReadyInv /\ PollInv /\ RefusedInv /\ FrameInv /\ PipeInv /\ ReasonInv
  BY DEF MainInv, CallInv
<1>2. CASE Step
  BY <1>1, <1>2, StepReady, StepPolls, StepRefused, StepFrame, StepPipe, StepReason DEF CallInv
<1>3. CASE Create
  BY <1>1, <1>3, CreateReady, CreatePolls, RestRefused, CreateFrame, CreatePipe, CreateReason DEF CallInv
<1>4. CASE \/ \E s \in States : RuntimeChanges(s)
           \/ ProfileChanges \/ DestroySession \/ ShutdownDevice \/ LeaveBehind \/ AppThread \/ Worker
           \/ DeadlinePasses \/ UNCHANGED vars
  <2>1. outcome = "none" /\ pipe.app # "none" => test = "pipelined"
    BY <1>1, TwoThreads
  <2>2. ReadyInv' /\ PollInv' /\ RefusedInv'
    BY <1>1, <1>4, RestReady, RestPolls, RestRefused
  <2>3. FrameInv' /\ PipeInv' /\ ReasonInv'
    BY <1>1, <1>4, <2>1, RestFrame, RestPipe, RestReason
  <2> QED  BY <2>2, <2>3 DEF CallInv
<1> QED  BY <1>2, <1>3, <1>4, NextIs

\* What the framework knows of the session when it calls, and in which state a test ends.
THEOREM CallsFit == Spec => []CallInv
<1>1. MainInv /\ CallInv /\ [Next]_vars => CallInv'
  BY CallNext
<1> QED  BY CallInit, Main, <1>1, PTL DEF Spec

\* No call comes at a wrong time, but an xrBeginSession after READY was taken back, and those
\* that may not overlap do not.
THEOREM CalledInOrder == Spec => []CallsInOrder
<1>1. CallInv /\ CallsExclusive => CallsInOrder
  BY DEF CallInv, RefusedInv, CallsInOrder
<1> QED  BY <1>1, CallsFit, WorkersInOrder, PTL

\* A test meets an unexpected state, leaves a frame or its image open, ends the program or
\* lets a worker report an error for the runtime's fault only, and none crashes with OpenGL.
THEOREM FailedWithReason == Spec => []FailuresExplained
<1>1. CallInv /\ ThreadsExplained => FailuresExplained
  BY DEF CallInv, ReasonInv, FailuresExplained
<1> QED  BY <1>1, CallsFit, WorkersInOrder, PTL

-----------------------------------------------------------------------------
(***************************************************************************)
(* VulkanPlugin, for any swapchains and any number of models: whatever      *)
(* fails or times out, what the GPU works with stays as it is, and after a  *)
(* timeout nothing is submitted.  The proofs rest on one fact: a call that  *)
(* can record its command buffer finds nothing in flight.                   *)
(***************************************************************************)

\* At most one list of each command buffer is in flight, the uploads first.
LengthInv ==
    /\ Len(gpu) <= 2
    /\ Len(gpu) = 2 => gpu[1].buffer = "copy" /\ gpu[2].buffer = "cmd"

\* The uploads in flight are those that are recorded and whose staging buffers are kept.
CopiesInv ==
    \A n \in DOMAIN gpu : gpu[n].buffer = "copy" =>
        /\ copyCmdBuffer = "Executing"
        /\ gpu[n].uploads = recordedUploads /\ gpu[n].draws = {}
        /\ gpu[n].target = Null /\ ~gpu[n].ownedByCall

\* The call that submitted a list waits for it, unless it has given up.
CallListInv ==
    \A n \in DOMAIN gpu : gpu[n].buffer = "cmd" =>
        /\ cmdBuffer = "Executing"
        /\ gpu[n].uploads = {}
        /\ timedOut \/ vkCall \in {"wait", "waitView"}
        /\ ~timedOut /\ gpu[n].target # Null => gpu[n].target \in targets
        /\ ~timedOut /\ gpu[n].ownedByCall => vkCall = "wait"

\* Where a call stands, the device is there and its buffers are in the states it needs.
DeviceInv ==
    /\ ~vkDevice => cmdBuffer = "Undefined" /\ models = 0 /\ targets = {}
    /\ vkCall # "idle" => vkDevice /\ ~failed
    /\ vkCall \in {"wait", "waitView"} => cmdBuffer = "Executing"
    /\ vkCall = "waitCopies" => cmdBuffer \in {"Executing", "Executable"}
    /\ vkCall \in {"waitView", "waitCopies"} => copyCmdBuffer = "Executing"
    /\ vkDevice /\ ~failed /\ vkCall \in {"idle", "wait"} =>
           copyCmdBuffer = "Recording" /\ recordedUploads = stagingBuffers
    /\ gpu # <<>> => cmdBuffer \notin {"Undefined", "Initialized"}

\* A wait that has given up leaves a buffer that no call can use.
TimeoutInv ==
    timedOut =>
        /\ vkCall \in {"idle", "waitCopies"}
        /\ cmdBuffer = "Executing" \/ (failed /\ cmdBuffer = "Executable")

\* The textures of every model are uploaded, or recorded to be uploaded.
TexturesInv ==
    /\ recordedUploads \subseteq stagingBuffers
    /\ vkDevice /\ ~failed => 0..models \subseteq uploaded \cup recordedUploads
    /\ copyCmdBuffer = "Executing" /\ Signaled("copy") => recordedUploads \subseteq uploaded

VulkanInv ==
    /\ TypeOK /\ LengthInv /\ CopiesInv /\ CallListInv /\ DeviceInv
    /\ TimeoutInv /\ TexturesInv /\ UploadsPrecedeDraws

-----------------------------------------------------------------------------
(* What a call finds when it starts.                                       *)

\* The lists in flight.
LEMMA GpuTypes ==
    ASSUME TypeOK, LengthInv
    PROVE  /\ Len(gpu) \in 0..2 /\ DOMAIN gpu = 1..Len(gpu)
           /\ \A n \in DOMAIN gpu : gpu[n] \in Lists
           /\ gpu = <<>> <=> Len(gpu) = 0
<1>1. gpu \in Seq(Lists)
  BY DEF TypeOK
<1>2. Len(gpu) \in Nat /\ DOMAIN gpu = 1..Len(gpu) /\ \A n \in 1..Len(gpu) : gpu[n] \in Lists
  BY <1>1, LenProperties, ElementOfSeq
<1>3. gpu = <<>> <=> Len(gpu) = 0
  BY <1>1, EmptySeq, Zenon
<1> QED  BY <1>2, <1>3 DEF LengthInv

\* A buffer that can be recorded leaves nothing in flight, of either buffer.
LEMMA Ready ==
    ASSUME VulkanInv, MayCall, Clearable(cmdBuffer)
    PROVE  gpu = <<>> /\ ~timedOut
<1>1. copyCmdBuffer = "Recording" /\ cmdBuffer # "Executing"
  BY DEF MayCall, Clearable, VulkanInv, DeviceInv
<1>2. \A n \in DOMAIN gpu : gpu[n].buffer \in {"cmd", "copy"}
  BY GpuTypes DEF VulkanInv, Lists
<1>3. DOMAIN gpu = {}
  BY <1>1, <1>2 DEF VulkanInv, CopiesInv, CallListInv
<1>4. gpu = <<>>
  BY <1>3, GpuTypes DEF VulkanInv
<1> QED
  BY <1>1, <1>4 DEF MayCall, VulkanInv, TimeoutInv

\* What is submitted is a list.
LEMMA ListIsList ==
    ASSUME NEW b \in {"cmd", "copy"}, NEW u \in SUBSET Textures, NEW d \in SUBSET Textures,
           NEW s \in Swapchains \cup {Null}, NEW o \in BOOLEAN
    PROVE  List(b, u, d, s, o) \in Lists
BY DEF List, Lists

\* A call with one list of its own.
LEMMA OneList ==
    ASSUME VulkanInv, MayCall, NEW s \in Swapchains \cup {Null}, NEW owned \in BOOLEAN,
           Execute(<<List("cmd", {}, {}, s, owned)>>),
           targets' \in SUBSET Swapchains, s # Null => s \in targets',
           vkCall' = "wait",
           UNCHANGED <<uploadVars, vkDevice, models, timedOut>>
    PROVE  VulkanInv'
<1> DEFINE list == List("cmd", {}, {}, s, owned)
<1>1. gpu = <<>> /\ ~timedOut
  BY Ready DEF Execute
<1>2. gpu' = <<list>> /\ list \in Lists
  BY <1>1, ListIsList DEF Execute
<1>3. list.buffer = "cmd" /\ list.uploads = {} /\ list.draws = {} /\ list.target = s
      /\ list.ownedByCall = owned
  BY DEF List
<1>4. gpu' \in Seq(Lists) /\ Len(gpu') = 1 /\ DOMAIN gpu' = {1} /\ gpu'[1] = list /\ gpu' # <<>>
  BY <1>2
<1>5. /\ cmdBuffer' = "Executing" /\ vkDevice /\ ~failed /\ vkCall = "idle"
      /\ UNCHANGED <<uploaded, failed, copyCmdBuffer, recordedUploads, stagingBuffers,
                     vkDevice, models, timedOut>>
  BY DEF Execute, MayCall, uploadVars
<1> HIDE DEF list
<1>6. TypeOK'
  BY <1>4, <1>5 DEF VulkanInv, TypeOK, CmdBufferState
<1>7. LengthInv' /\ CopiesInv' /\ CallListInv'
  BY <1>1, <1>3, <1>4, <1>5 DEF LengthInv, CopiesInv, CallListInv
<1>8. DeviceInv' /\ TimeoutInv'
  BY <1>1, <1>4, <1>5 DEF VulkanInv, DeviceInv, TimeoutInv
<1>9. TexturesInv'
  BY <1>1, <1>4, <1>5 DEF VulkanInv, DeviceInv, TexturesInv, Signaled
<1>10. UploadsPrecedeDraws'
  BY <1>3, <1>4 DEF UploadsPrecedeDraws
<1> QED
  BY <1>6, <1>7, <1>8, <1>9, <1>10 DEF VulkanInv

\* A call that throws before it submits a list.
LEMMA Thrown ==
    ASSUME VulkanInv, MayCall, ExecuteFails,
           UNCHANGED <<gpu, uploaded, copyCmdBuffer, recordedUploads, stagingBuffers,
                       vkDevice, targets, models, timedOut, vkCall>>
    PROVE  VulkanInv'
<1>1. failed' = TRUE /\ vkCall = "idle" /\ vkDevice
  BY DEF ExecuteFails, MayCall
<1>2. CASE UNCHANGED cmdBuffer
  <2>1. TypeOK'
    <3>1. failed' \in BOOLEAN
      BY <1>1, Zenon
    <3> QED
      BY <1>2, <3>1 DEF VulkanInv, TypeOK
  <2>2. LengthInv' /\ CopiesInv' /\ CallListInv'
    BY <1>2 DEF VulkanInv, LengthInv, CopiesInv, CallListInv
  <2>3. DeviceInv' /\ TimeoutInv'
    BY <1>1, <1>2 DEF VulkanInv, DeviceInv, TimeoutInv
  <2>4. TexturesInv' /\ UploadsPrecedeDraws'
    BY <1>1 DEF VulkanInv, TexturesInv, UploadsPrecedeDraws, Signaled
  <2> QED
    BY <2>1, <2>2, <2>3, <2>4 DEF VulkanInv
<1>3. CASE Clearable(cmdBuffer) /\ cmdBuffer' \in {"Initialized", "Recording", "Executable"}
  <2>1. gpu = <<>> /\ ~timedOut
    BY <1>3, Ready
  <2>2. TypeOK'
    <3>1. failed' \in BOOLEAN
      BY <1>1, Zenon
    <3> QED
      BY <1>3, <3>1 DEF VulkanInv, TypeOK, CmdBufferState
  <2>3. LengthInv' /\ CopiesInv' /\ CallListInv' /\ UploadsPrecedeDraws'
    BY <2>1 DEF LengthInv, CopiesInv, CallListInv, UploadsPrecedeDraws
  <2>4. DeviceInv' /\ TimeoutInv'
    BY <1>1, <2>1 DEF VulkanInv, DeviceInv, TimeoutInv
  <2>5. TexturesInv'
    BY <1>1 DEF VulkanInv, TexturesInv, Signaled
  <2> QED
    BY <2>2, <2>3, <2>4, <2>5 DEF VulkanInv
<1> QED
  BY <1>2, <1>3 DEF ExecuteFails

-----------------------------------------------------------------------------
(* The GPU and the waits.                                                  *)

\* The GPU completes a list: its uploads are there for the view behind it.
LEMMA CompleteInvariant ==
    ASSUME VulkanInv, Complete
    PROVE  VulkanInv'
<1> DEFINE list == gpu[1]
<1>1. Len(gpu) \in {1, 2} /\ list \in Lists /\ DOMAIN gpu = 1..Len(gpu)
  BY GpuTypes DEF Complete, VulkanInv
<1>2. /\ uploaded' = uploaded \cup list.uploads
      /\ gpu' = Tail(gpu)
      /\ UNCHANGED <<cmdBuffer, copyCmdBuffer, recordedUploads, stagingBuffers, vkDevice,
                     targets, models, timedOut, failed, vkCall>>
  BY DEF Complete, uploadVars, pluginVars, VulkanInv, TypeOK
<1>3. /\ gpu' \in Seq(Lists) /\ Len(gpu') = Len(gpu) - 1 /\ DOMAIN gpu' = 1..Len(gpu')
      /\ \A n \in DOMAIN gpu' : gpu'[n] = gpu[n + 1]
  BY <1>1, <1>2, HeadTailProperties DEF Complete, VulkanInv, TypeOK
<1>4. \A n \in DOMAIN gpu' : n = 1 /\ gpu'[n] = gpu[2] /\ 2 \in DOMAIN gpu
  BY <1>1, <1>3
<1>5. list.uploads \subseteq Textures /\ list.buffer \in {"cmd", "copy"}
  BY <1>1 DEF Lists
<1> HIDE DEF list
<1>6. TypeOK'
  BY <1>2, <1>3, <1>5 DEF VulkanInv, TypeOK
<1>7. LengthInv'
  BY <1>1, <1>3 DEF LengthInv
<1>8. CopiesInv' /\ CallListInv'
  BY <1>2, <1>4 DEF VulkanInv, CopiesInv, CallListInv
<1>9. DeviceInv' /\ TimeoutInv'
  BY <1>2 DEF Complete, VulkanInv, DeviceInv, TimeoutInv
<1>10. TexturesInv'
  <2>1. vkDevice' /\ ~failed' => 0..models' \subseteq uploaded' \cup recordedUploads'
    BY <1>2 DEF VulkanInv, TexturesInv
  <2>2. ASSUME copyCmdBuffer = "Executing", Signaled("copy")' PROVE recordedUploads \subseteq uploaded'
    <3>1. CASE list.buffer = "copy"
      BY <1>1, <1>2, <3>1 DEF VulkanInv, CopiesInv, list
    <3>2. CASE list.buffer = "cmd"
      <4>1. Signaled("copy")
        BY <1>1, <3>2 DEF Signaled, VulkanInv, LengthInv, list
      <4> QED
        BY <1>2, <2>2, <4>1 DEF VulkanInv, TexturesInv
    <3> QED  BY <1>5, <3>1, <3>2
  <2> QED
    BY <1>2, <2>1, <2>2 DEF VulkanInv, TexturesInv
<1>11. UploadsPrecedeDraws'
  <2>1. ASSUME NEW n \in DOMAIN gpu' PROVE gpu'[n].draws \subseteq uploaded'
    <3>1. gpu[2].draws \subseteq uploaded \cup UNION {gpu[m].uploads : m \in 1..(2 - 1)}
      BY <1>4, <2>1 DEF VulkanInv, UploadsPrecedeDraws
    <3> QED
      BY <1>2, <1>4, <2>1, <3>1 DEF list
  <2> QED
    BY <2>1 DEF UploadsPrecedeDraws
<1> QED
  BY <1>6, <1>7, <1>8, <1>9, <1>10, <1>11 DEF VulkanInv

\* The wait for a list ends or gives up.
LEMMA CmdBufferWaitInvariant ==
    ASSUME VulkanInv, CmdBufferWait
    PROVE  VulkanInv'
<1>1. /\ vkCall \in {"wait", "waitView"} /\ vkDevice /\ ~failed /\ cmdBuffer = "Executing"
      /\ vkCall' = IF vkCall = "wait" THEN "idle" ELSE "waitCopies"
      /\ vkCall = "waitView" => copyCmdBuffer = "Executing"
      /\ ~timedOut
      /\ UNCHANGED <<gpu, uploaded, copyCmdBuffer, recordedUploads, stagingBuffers, vkDevice,
                     targets, models, failed>>
  BY DEF CmdBufferWait, gpuVars, uploadVars, pluginVars, VulkanInv, DeviceInv, TimeoutInv
<1>2. CASE Signaled("cmd") /\ cmdBuffer' = "Executable" /\ UNCHANGED timedOut
  <2>1. TypeOK'
    BY <1>1, <1>2 DEF VulkanInv, TypeOK, CmdBufferState
  <2>2. LengthInv' /\ CopiesInv' /\ CallListInv'
    BY <1>1, <1>2 DEF VulkanInv, LengthInv, CopiesInv, CallListInv, Signaled
  <2>3. DeviceInv' /\ TimeoutInv'
    BY <1>1, <1>2 DEF VulkanInv, DeviceInv, TimeoutInv
  <2>4. TexturesInv' /\ UploadsPrecedeDraws'
    BY <1>1 DEF VulkanInv, TexturesInv, UploadsPrecedeDraws, Signaled
  <2> QED
    BY <2>1, <2>2, <2>3, <2>4 DEF VulkanInv
<1>3. CASE timedOut' = TRUE /\ UNCHANGED cmdBuffer
  <2>1. TypeOK'
    <3>1. timedOut' \in BOOLEAN
      BY <1>3, Zenon
    <3> QED
      BY <1>1, <1>3, <3>1 DEF VulkanInv, TypeOK
  <2>2. LengthInv' /\ CopiesInv' /\ CallListInv'
    BY <1>1, <1>3 DEF VulkanInv, LengthInv, CopiesInv, CallListInv
  <2>3. DeviceInv' /\ TimeoutInv'
    BY <1>1, <1>3 DEF VulkanInv, DeviceInv, TimeoutInv
  <2>4. TexturesInv' /\ UploadsPrecedeDraws'
    BY <1>1 DEF VulkanInv, TexturesInv, UploadsPrecedeDraws, Signaled
  <2> QED
    BY <2>1, <2>2, <2>3, <2>4 DEF VulkanInv
<1> QED
  BY <1>2, <1>3 DEF CmdBufferWait, Wait

\* The wait for the uploads recycles their buffer, gives up or throws.
LEMMA ResourcesWaitInvariant ==
    ASSUME VulkanInv, ResourcesWait
    PROVE  VulkanInv'
<1>1. /\ vkCall = "waitCopies" /\ vkCall' = "idle" /\ vkDevice /\ ~failed /\ copyCmdBuffer = "Executing"
      /\ UNCHANGED <<gpu, uploaded, cmdBuffer, vkDevice, targets, models>>
  BY DEF ResourcesWait, gpuVars, pluginVars, VulkanInv, DeviceInv
<1>2. /\ DOMAIN gpu = 1..Len(gpu) /\ \A n \in DOMAIN gpu : gpu[n].buffer = "cmd" => timedOut
      /\ \A n \in DOMAIN gpu : gpu[n].buffer \in {"cmd", "copy"}
  BY <1>1, GpuTypes DEF VulkanInv, CallListInv, Lists
<1>3. CASE WaitTimesOut
  <2>1. TypeOK'
    <3>1. timedOut' \in BOOLEAN /\ failed' \in BOOLEAN
      BY <1>3, Zenon DEF WaitTimesOut
    <3> QED
      BY <1>1, <1>3, <3>1 DEF WaitTimesOut, uploadVars, VulkanInv, TypeOK
  <2>2. LengthInv' /\ CopiesInv' /\ CallListInv'
    BY <1>1, <1>3 DEF WaitTimesOut, uploadVars, VulkanInv, LengthInv, CopiesInv, CallListInv
  <2>3. DeviceInv'
    BY <1>1, <1>3 DEF WaitTimesOut, uploadVars, VulkanInv, DeviceInv
  <2>4. TimeoutInv'
    BY <1>1, <1>3 DEF WaitTimesOut, uploadVars, VulkanInv, DeviceInv, TimeoutInv
  <2>5. TexturesInv' /\ UploadsPrecedeDraws'
    BY <1>1, <1>3 DEF WaitTimesOut, uploadVars, VulkanInv, TexturesInv, UploadsPrecedeDraws, Signaled
  <2> QED
    BY <2>1, <2>2, <2>3, <2>4, <2>5 DEF VulkanInv
<1>4. CASE WaitSucceeds
  <2>1. (\A n \in DOMAIN gpu : gpu[n].buffer # "copy") /\ recordedUploads \subseteq uploaded
    BY <1>1, <1>4 DEF WaitSucceeds, Signaled, VulkanInv, TexturesInv
  <2>2. UNCHANGED timedOut
    BY <1>4 DEF WaitSucceeds
  <2>3. LengthInv' /\ CopiesInv' /\ CallListInv'
    BY <1>1, <1>2, <2>1, <2>2 DEF VulkanInv, LengthInv, CopiesInv, CallListInv
  <2>4. UploadsPrecedeDraws'
    BY <1>1 DEF VulkanInv, UploadsPrecedeDraws
  <2>5. CASE /\ copyCmdBuffer' = Recycled
             /\ recordedUploads' = {} /\ stagingBuffers' = {}
             /\ UNCHANGED failed
    <3>1. TypeOK'
      BY <1>1, <2>2, <2>5 DEF VulkanInv, TypeOK, CmdBufferState, Recycled
    <3>2. DeviceInv' /\ TimeoutInv'
      BY <1>1, <2>2, <2>5 DEF VulkanInv, DeviceInv, TimeoutInv, Recycled
    <3>3. TexturesInv'
      BY <1>1, <2>1, <2>5 DEF VulkanInv, TexturesInv, Recycled
    <3> QED
      BY <2>3, <2>4, <3>1, <3>2, <3>3 DEF VulkanInv
  <2>6. CASE /\ copyCmdBuffer' \in {"Executable", "Initialized"}
             /\ failed' = TRUE
             /\ UNCHANGED <<recordedUploads, stagingBuffers>>
    <3>1. TypeOK'
      <4>1. failed' \in BOOLEAN
        BY <2>6, Zenon
      <4> QED
        BY <1>1, <2>2, <2>6, <4>1 DEF VulkanInv, TypeOK, CmdBufferState
    <3>2. DeviceInv'
      BY <1>1, <2>2, <2>6 DEF VulkanInv, DeviceInv
    <3>3. TimeoutInv'
      BY <1>1, <2>2, <2>6 DEF VulkanInv, DeviceInv, TimeoutInv
    <3>4. TexturesInv'
      BY <1>1, <2>1, <2>6 DEF VulkanInv, TexturesInv
    <3> QED
      BY <2>3, <2>4, <3>1, <3>2, <3>3, <3>4 DEF VulkanInv
  <2> QED
    BY <1>4, <2>5, <2>6 DEF WaitSucceeds
<1> QED
  BY <1>3, <1>4 DEF ResourcesWait

-----------------------------------------------------------------------------
(* The other operations.                                                   *)

\* The device is initialized again only while nothing is in flight.
LEMMA InitializeInvariant ==
    ASSUME VulkanInv, InitializeDevice \/ InitializeDeviceFails
    PROVE  VulkanInv'
<1>1. /\ vkCall = "idle" /\ models = 0 /\ targets = {} /\ cmdBuffer \in {"Undefined", "Initialized"}
      /\ gpu = <<>> /\ ~timedOut
      /\ UNCHANGED <<gpu, uploaded, targets, models, timedOut, vkCall>>
  BY DEF InitializeDevice, InitializeDeviceFails, MayInitialize, gpuVars, VulkanInv, DeviceInv, TimeoutInv
<1>2. LengthInv' /\ CopiesInv' /\ CallListInv' /\ UploadsPrecedeDraws' /\ TimeoutInv'
  BY <1>1 DEF LengthInv, CopiesInv, CallListInv, UploadsPrecedeDraws, TimeoutInv
<1>3. /\ vkDevice' \in BOOLEAN /\ failed' \in BOOLEAN
  BY Zenon DEF InitializeDevice, InitializeDeviceFails, VulkanInv, TypeOK
<1>4. TypeOK'
  BY <1>1, <1>3 DEF InitializeDevice, InitializeDeviceFails, NewResources, uploadVars, Textures,
         VulkanInv, TypeOK, CmdBufferState, ConstantsAssumption
<1>5. DeviceInv'
  BY <1>1 DEF InitializeDevice, InitializeDeviceFails, NewResources, VulkanInv, DeviceInv
<1>6. TexturesInv'
  <2>1. CASE NewResources
    BY <1>1, <2>1 DEF NewResources, TexturesInv
  <2>2. CASE UNCHANGED uploadVars /\ failed'
    BY <1>1, <2>2 DEF uploadVars, VulkanInv, TexturesInv, Signaled
  <2> QED
    BY <2>1, <2>2 DEF InitializeDevice, InitializeDeviceFails
<1> QED
  BY <1>2, <1>4, <1>5, <1>6 DEF VulkanInv

\* The shutdown has waited for the GPU.
LEMMA ShutdownInvariant ==
    ASSUME VulkanInv, VulkanShutdownDevice
    PROVE  VulkanInv'
<1>1. gpu = <<>> /\ vkCall = "idle" /\ UNCHANGED <<gpu, vkCall>>
  BY DEF VulkanShutdownDevice
<1>2. LengthInv' /\ CopiesInv' /\ CallListInv' /\ UploadsPrecedeDraws'
  BY <1>1 DEF LengthInv, CopiesInv, CallListInv, UploadsPrecedeDraws
<1>3. vkDevice' \in BOOLEAN /\ timedOut' \in BOOLEAN /\ failed' \in BOOLEAN
  BY Zenon DEF VulkanShutdownDevice
<1>4. TypeOK'
  BY <1>1, <1>3, ConstantsAssumption DEF VulkanShutdownDevice, NoResources, VulkanInv, TypeOK, CmdBufferState
<1>5. DeviceInv' /\ TimeoutInv' /\ TexturesInv'
  BY <1>1 DEF VulkanShutdownDevice, NoResources, DeviceInv, TimeoutInv, TexturesInv
<1> QED
  BY <1>2, <1>4, <1>5 DEF VulkanInv

\* What is in flight when a cache is cleared has timed out.
LEMMA ClearSwapchainCacheInvariant ==
    ASSUME VulkanInv, ClearSwapchainCache
    PROVE  VulkanInv'
<1>1. /\ vkCall = "idle" /\ vkDevice /\ targets' = {}
      /\ UNCHANGED <<gpu, uploaded, cmdBuffer, copyCmdBuffer, recordedUploads, stagingBuffers,
                     vkDevice, models, timedOut, failed, vkCall>>
  BY DEF ClearSwapchainCache, MayCall, gpuVars, uploadVars
<1>2. TypeOK' /\ LengthInv' /\ CopiesInv'
  BY <1>1 DEF VulkanInv, TypeOK, LengthInv, CopiesInv
<1>3. CallListInv'
  BY <1>1 DEF VulkanInv, CallListInv
<1>4. DeviceInv' /\ TimeoutInv'
  BY <1>1 DEF VulkanInv, DeviceInv, TimeoutInv
<1>5. TexturesInv' /\ UploadsPrecedeDraws'
  BY <1>1 DEF VulkanInv, TexturesInv, UploadsPrecedeDraws, Signaled
<1> QED
  BY <1>2, <1>3, <1>4, <1>5 DEF VulkanInv

\* Uploads are recorded only while no upload is in flight.
LEMMA LoadGLTFInvariant ==
    ASSUME VulkanInv, LoadGLTF
    PROVE  VulkanInv'
<1>1. /\ vkCall = "idle" /\ vkDevice /\ ~failed /\ copyCmdBuffer = "Recording"
      /\ recordedUploads = stagingBuffers /\ models \in Nat /\ models + 1 \in Textures
      /\ recordedUploads' = recordedUploads \cup {models + 1}
      /\ stagingBuffers' = stagingBuffers \cup {models + 1}
      /\ UNCHANGED <<gpu, uploaded, cmdBuffer, copyCmdBuffer, vkDevice, targets, timedOut, vkCall>>
  BY ConstantsAssumption
     DEF LoadGLTF, MayCall, gpuVars, VulkanInv, DeviceInv, TypeOK, Textures
<1>2. models' \in 0..MaxModels /\ (~failed' => models' = models + 1) /\ (failed' => models' = models)
  BY ConstantsAssumption DEF LoadGLTF, VulkanInv, TypeOK, MayCall
<1>3. TypeOK'
  <2>1. failed' \in BOOLEAN
    BY Zenon DEF LoadGLTF, VulkanInv, TypeOK
  <2> QED
    BY <1>1, <1>2, <2>1 DEF VulkanInv, TypeOK
<1>4. \A n \in DOMAIN gpu : gpu[n].buffer # "copy"
  BY <1>1 DEF VulkanInv, CopiesInv
<1>5. LengthInv' /\ CopiesInv' /\ CallListInv' /\ UploadsPrecedeDraws'
  BY <1>1, <1>4 DEF VulkanInv, LengthInv, CopiesInv, CallListInv, UploadsPrecedeDraws
<1>6. DeviceInv' /\ TimeoutInv'
  BY <1>1 DEF VulkanInv, DeviceInv, TimeoutInv
<1>7. TexturesInv'
  <2>1. ~failed' => 0..models' \subseteq (0..models) \cup {models + 1}
    BY <1>1, <1>2
  <2> QED
    BY <1>1, <2>1 DEF VulkanInv, TexturesInv
<1> QED
  BY <1>3, <1>5, <1>6, <1>7 DEF VulkanInv

\* A view is submitted behind the uploads it needs.
LEMMA RenderViewInvariant ==
    ASSUME VulkanInv, NEW s \in Swapchains, NEW model \in 0..models, RenderView(s, model)
    PROVE  VulkanInv'
<1> DEFINE view == View(s, model)
<1>1. gpu = <<>> /\ ~timedOut /\ vkCall = "idle" /\ vkDevice /\ ~failed
  BY Ready DEF RenderView, Execute, MayCall
<1>2. recordedUploads \subseteq Textures /\ model \in Textures /\ 0 \in Textures
  BY ConstantsAssumption DEF VulkanInv, TypeOK, Textures
<1>3. Copies \in Lists /\ view \in Lists
  BY <1>2, ListIsList DEF Copies, View
<1>4. gpu' = <<Copies, view>>
  BY <1>1, <1>3 DEF RenderView, Execute, Submitted
<1>5. /\ Copies.buffer = "copy" /\ Copies.uploads = recordedUploads /\ Copies.draws = {}
      /\ Copies.target = Null /\ ~Copies.ownedByCall
      /\ view.buffer = "cmd" /\ view.uploads = {} /\ view.draws \subseteq 0..models
      /\ view.target = s /\ ~view.ownedByCall
  BY DEF Copies, View, List, VulkanInv, TypeOK
<1>6. /\ gpu' \in Seq(Lists) /\ Len(gpu') = 2 /\ DOMAIN gpu' = {1, 2}
      /\ gpu'[1] = Copies /\ gpu'[2] = view /\ gpu' # <<>>
  BY <1>3, <1>4
<1>7. /\ cmdBuffer' = "Executing" /\ copyCmdBuffer' = "Executing" /\ vkCall' = "waitView"
      /\ targets' = targets \cup {s}
      /\ UNCHANGED <<uploaded, failed, recordedUploads, stagingBuffers, vkDevice, models, timedOut>>
  BY DEF RenderView, Execute
<1> HIDE DEF view
<1>8. TypeOK'
  BY <1>6, <1>7 DEF VulkanInv, TypeOK, CmdBufferState
<1>9. LengthInv' /\ CopiesInv' /\ CallListInv'
  BY <1>1, <1>5, <1>6, <1>7 DEF LengthInv, CopiesInv, CallListInv
<1>10. DeviceInv' /\ TimeoutInv'
  BY <1>1, <1>7 DEF VulkanInv, DeviceInv, TimeoutInv
<1>11. TexturesInv'
  BY <1>5, <1>6, <1>7 DEF VulkanInv, TexturesInv, Signaled
<1>12. UploadsPrecedeDraws'
  <2>1. view.draws \subseteq uploaded \cup recordedUploads
    BY <1>1, <1>5 DEF VulkanInv, TexturesInv
  <2>2. 1..(2 - 1) = {1}
    OBVIOUS
  <2> QED
    BY <1>5, <1>6, <1>7, <2>1, <2>2 DEF UploadsPrecedeDraws
<1> QED
  BY <1>8, <1>9, <1>10, <1>11, <1>12 DEF VulkanInv

\* A view that throws may have submitted its uploads.
LEMMA RenderViewFailsInvariant ==
    ASSUME VulkanInv, RenderViewFails
    PROVE  VulkanInv'
<1>1. /\ MayCall /\ vkCall = "idle" /\ vkDevice
      /\ UNCHANGED <<uploaded, recordedUploads, stagingBuffers, vkDevice, targets, models,
                     timedOut, vkCall>>
  BY DEF RenderViewFails, MayCall, pluginVars
<1>2. CASE ExecuteFails /\ UNCHANGED <<gpu, copyCmdBuffer>>
  BY <1>1, <1>2, Thrown
<1>3. CASE /\ Clearable(cmdBuffer) /\ cmdBuffer' = "Recording" /\ copyCmdBuffer' = "Executable"
           /\ failed' = TRUE /\ UNCHANGED gpu
  <2>1. gpu = <<>> /\ ~timedOut
    BY <1>1, <1>3, Ready
  <2>2. failed' \in BOOLEAN
    BY <1>3, Zenon
  <2>3. TypeOK'
    BY <1>1, <1>3, <2>2 DEF VulkanInv, TypeOK, CmdBufferState
  <2>4. LengthInv' /\ CopiesInv' /\ CallListInv' /\ UploadsPrecedeDraws'
    BY <1>3, <2>1 DEF LengthInv, CopiesInv, CallListInv, UploadsPrecedeDraws
  <2>5. DeviceInv' /\ TimeoutInv' /\ TexturesInv'
    BY <1>1, <1>3, <2>1 DEF VulkanInv, DeviceInv, TimeoutInv, TexturesInv
  <2> QED
    BY <2>3, <2>4, <2>5 DEF VulkanInv
<1>4. CASE /\ Clearable(cmdBuffer) /\ cmdBuffer' \in {"Recording", "Executable"}
           /\ gpu' = Append(gpu, Copies) /\ copyCmdBuffer' = "Executing" /\ failed' = TRUE
  <2>1. gpu = <<>> /\ ~timedOut
    BY <1>1, <1>4, Ready
  <2>2. Copies \in Lists
    BY ListIsList DEF Copies, VulkanInv, TypeOK
  <2>3. gpu' = <<Copies>>
    BY <1>4, <2>1
  <2>4. /\ gpu' \in Seq(Lists) /\ Len(gpu') = 1 /\ DOMAIN gpu' = {1} /\ gpu'[1] = Copies
    BY <2>2, <2>3
  <2>5. /\ Copies.buffer = "copy" /\ Copies.uploads = recordedUploads /\ Copies.draws = {}
        /\ Copies.target = Null /\ ~Copies.ownedByCall
    BY DEF Copies, List
  <2>6. failed' \in BOOLEAN
    BY <1>4, Zenon
  <2>7. TypeOK'
    BY <1>1, <1>4, <2>4, <2>6 DEF VulkanInv, TypeOK, CmdBufferState
  <2>8. LengthInv' /\ CopiesInv' /\ CallListInv' /\ UploadsPrecedeDraws'
    BY <1>1, <1>4, <2>4, <2>5 DEF LengthInv, CopiesInv, CallListInv, UploadsPrecedeDraws
  <2>9. DeviceInv' /\ TimeoutInv'
    BY <1>1, <1>4, <2>1 DEF VulkanInv, DeviceInv, TimeoutInv
  <2>10. TexturesInv'
    BY <1>1, <1>4, <2>4, <2>5 DEF VulkanInv, TexturesInv, Signaled
  <2> QED
    BY <2>7, <2>8, <2>9, <2>10 DEF VulkanInv
<1> QED
  BY <1>2, <1>3, <1>4 DEF RenderViewFails

\* The other calls submit one list or throw.
LEMMA CallInvariant ==
    ASSUME VulkanInv,
           \/ CopyRGBAImage
           \/ \E s \in Swapchains : ClearImageSlice(s) \/ RenderClearImageSliceCompute(s)
    PROVE  VulkanInv'
<1>1. /\ MayCall /\ Null \notin Swapchains /\ targets \in SUBSET Swapchains
      /\ UNCHANGED <<uploadVars, vkDevice, models, timedOut>>
  BY ConstantsAssumption
     DEF CopyRGBAImage, ClearImageSlice, RenderClearImageSliceCompute, pluginVars, VulkanInv, TypeOK
<1>2. CASE ExecuteFails /\ UNCHANGED <<gpuVars, targets, vkCall>>
  BY <1>1, <1>2, Thrown DEF gpuVars, uploadVars
<1>3. ASSUME NEW s \in Swapchains, NEW owned \in BOOLEAN,
             Execute(<<List("cmd", {}, {}, s, owned)>>), targets' = targets \cup {s}, vkCall' = "wait"
      PROVE  VulkanInv'
  BY <1>1, <1>3, OneList
<1>4. CASE Execute(<<List("cmd", {}, {}, Null, TRUE)>>) /\ vkCall' = "wait" /\ UNCHANGED targets
  BY <1>1, <1>4, OneList
<1> QED
  BY <1>2, <1>3, <1>4
     DEF CopyRGBAImage, ClearImageSlice, RenderClearImageSliceCompute, AfterClearing, pluginVars

-----------------------------------------------------------------------------
(* The invariant and what follows from it.                                 *)

\* A plugin starts without a device and with nothing in flight.
LEMMA InitInvariant == VulkanInit => VulkanInv
<1> SUFFICES ASSUME VulkanInit PROVE VulkanInv
  OBVIOUS
<1>1. vkDevice \in BOOLEAN /\ timedOut \in BOOLEAN /\ failed \in BOOLEAN
  BY Zenon DEF VulkanInit
<1>2. gpu \in Seq(Lists) /\ Len(gpu) = 0 /\ DOMAIN gpu = {}
  BY DEF VulkanInit
<1>3. TypeOK
  BY <1>1, <1>2, ConstantsAssumption DEF VulkanInit, TypeOK, CmdBufferState
<1>4. LengthInv /\ CopiesInv /\ CallListInv /\ UploadsPrecedeDraws
  BY <1>2 DEF LengthInv, CopiesInv, CallListInv, UploadsPrecedeDraws
<1>5. DeviceInv /\ TimeoutInv /\ TexturesInv
  BY DEF VulkanInit, DeviceInv, TimeoutInv, TexturesInv
<1> QED
  BY <1>3, <1>4, <1>5 DEF VulkanInv

\* Every operation preserves the invariant.
LEMMA NextInvariant == VulkanInv /\ [VulkanNext]_vulkanVars => VulkanInv'
<1> SUFFICES ASSUME VulkanInv, [VulkanNext]_vulkanVars PROVE VulkanInv'
  OBVIOUS
<1>1. CASE UNCHANGED vulkanVars
  BY <1>1 DEF vulkanVars, VulkanInv, TypeOK, LengthInv, CopiesInv, CallListInv, DeviceInv, TimeoutInv,
         TexturesInv, UploadsPrecedeDraws, Signaled
<1>2. CASE VulkanNext
  BY <1>2, CompleteInvariant, CmdBufferWaitInvariant, ResourcesWaitInvariant,
     InitializeInvariant, ShutdownInvariant, ClearSwapchainCacheInvariant, LoadGLTFInvariant,
     RenderViewInvariant, RenderViewFailsInvariant, CallInvariant
     DEF VulkanNext, Resume
<1> QED  BY <1>1, <1>2

\* It holds in every state.
LEMMA VulkanInvHolds == VulkanSpec => []VulkanInv
BY InitInvariant, NextInvariant, PTL DEF VulkanSpec

\* It says that what the GPU works with is intact.
LEMMA Intact == VulkanInv => ListsIntact
<1> SUFFICES ASSUME VulkanInv PROVE ListsIntact
  OBVIOUS
<1>1. \A n \in DOMAIN gpu : gpu[n] \in Lists /\ gpu[n].buffer \in {"cmd", "copy"}
  BY GpuTypes DEF VulkanInv, Lists
<1>2. BuffersIntact
  <2>1. \A list \in InFlight : State(list.buffer) = "Executing"
    BY <1>1 DEF VulkanInv, CopiesInv, CallListInv, InFlight, State
  <2>2. \A m, n \in DOMAIN gpu : gpu[m].buffer = gpu[n].buffer => m = n
    BY GpuTypes DEF VulkanInv, LengthInv
  <2> QED
    BY <2>1, <2>2 DEF BuffersIntact
<1>3. StagingKept
  BY <1>1 DEF VulkanInv, CopiesInv, CallListInv, TexturesInv, StagingKept, InFlight
<1>4. FreedInFlightOnlyAfterTimeout
  BY <1>1 DEF VulkanInv, CopiesInv, CallListInv, FreedInFlightOnlyAfterTimeout, InFlight
<1>5. UploadsCanBeRecorded
  BY DEF VulkanInv, DeviceInv, UploadsCanBeRecorded, MayCall
<1> QED
  BY <1>2, <1>3, <1>4, <1>5 DEF ListsIntact, VulkanInv

\* Every variable of the plugin keeps its type, whatever throws and whatever wait gives up
\* (graphics_plugin_vulkan.cpp, vulkan_utils.h).
THEOREM VulkanTypeCorrect == VulkanSpec => []TypeOK
<1>1. VulkanInv => TypeOK
  BY DEF VulkanInv
<1> QED
  BY <1>1, VulkanInvHolds, PTL

\* What a list in flight uses is there and unchanged: its command buffer, its staging
\* buffers, the textures it draws with and, while no wait has given up, its targets.  This
\* is for any number of swapchains and models: that the plugin waits for each list
\* (RenderView, ClearImageSlice) and that Clear throws on a buffer it did not wait for.
THEOREM ListsStayIntact == VulkanSpec => []ListsIntact
BY VulkanInvHolds, Intact, PTL

\* With a wait that has given up, only the GPU moves the lists in flight.
LEMMA Refused ==
    ASSUME VulkanInv, [VulkanNext]_vulkanVars, timedOut, timedOut'
    PROVE  Len(gpu') <= Len(gpu)
<1>1. ~(MayCall /\ Clearable(cmdBuffer))
  BY Ready
<1>2. Len(gpu) \in Nat
  BY GpuTypes DEF VulkanInv
<1>3. CASE Complete
  BY <1>2, <1>3, HeadTailProperties DEF Complete, VulkanInv, TypeOK
<1>4. CASE UNCHANGED gpu
  BY <1>2, <1>4
<1>5. Complete \/ UNCHANGED gpu
  BY <1>1 DEF VulkanNext, Resume, CmdBufferWait, ResourcesWait, InitializeDevice,
         InitializeDeviceFails, VulkanShutdownDevice, ClearSwapchainCache, CopyRGBAImage, LoadGLTF,
         RenderViewFails, ClearImageSlice, RenderClearImageSliceCompute, RenderView, Execute,
         gpuVars, vulkanVars
<1> QED  BY <1>3, <1>4, <1>5

\* After a wait has given up nothing is submitted to the device any more: CmdBuffer::Clear
\* throws in every call until the device is shut down.
THEOREM NothingSubmittedAfterTimeout == VulkanSpec => RefusesAfterTimeout
<1>1. VulkanInv /\ [VulkanNext]_vulkanVars => [timedOut /\ timedOut' => Len(gpu') <= Len(gpu)]_vulkanVars
  BY Refused
<1> QED
  BY <1>1, VulkanInvHolds, PTL DEF VulkanSpec, RefusesAfterTimeout
=============================================================================
