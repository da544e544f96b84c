------------------------- MODULE SwapchainConformance -------------------------
(***************************************************************************)
(* What the conformance layer tracks of one XrSwapchain (Swapchain.cpp),    *)
(* beside the runtime it checks.  A hook forwards its call to the runtime   *)
(* and then, under the swapchain's mutex, compares the answer with the      *)
(* states and the queue of images it keeps, and updates them.              *)
(*                                                                         *)
(* A conforming runtime keeps the rules of a swapchain and every report of  *)
(* it is a false one; any other runtime answers anything, and a wrong       *)
(* answer should be reported.                                              *)
(***************************************************************************)
EXTENDS Naturals, Sequences

CONSTANTS
    Threads,           \* application threads
    Null,
    Count,             \* number of images of a swapchain that is not static
    MaxHeld,           \* bound on the images a nonconforming runtime hands out
    Conformance,       \* the runtimes considered: keeping the rules or not
    MayFailEnumerate,  \* may xrEnumerateSwapchainImages fail?
    MayOverlap         \* the pairs of calls the application makes concurrently

Calls == {"enumerate", "acquire", "wait", "release"}

ASSUME ConstantsAssumption ==
    /\ Null \notin Threads
    /\ Count \in Nat \ {0} /\ MaxHeld \in Nat
    /\ {MayFailEnumerate} \cup Conformance \subseteq BOOLEAN
    /\ MayOverlap \subseteq SUBSET Calls

\* The pairs of calls whose records may overtake one another: the layer judges a
\* swapchain as long as no such pair overlaps.  Every other pair is harmless, a call with
\* an enumeration and calls of which the runtime lets only one succeed.
Races == {{"acquire"}, {"acquire", "wait"}, {"acquire", "release"}, {"wait", "release"}}

\* Images are numbered from 1; a nonconforming runtime may go one too far.
Images == 1..Count + 1
ImageStates == {"Created", "Acquired", "Waited", "Released"}
Failures == {"emptyCount", "staticCount", "countDiffers", "enumerateFailed",
             "outOfBounds", "acquireWaited", "acquireAcquired", "staticAgain",
             "waitWrongState", "waitNone", "releaseWrongState", "releaseNone"}

VARIABLES
    \* The runtime.
    conforming,        \* does it keep the rules of a swapchain? never changes
    rtHeld,            \* images acquired and not released, the oldest first
    rtWaited,          \* has the oldest one been waited on?
    rtUsed,            \* images that have been acquired
    rtCount,           \* the image count it has announced, 0 before
    misbehaved,        \* has it broken a rule?
    \* CustomSwapchainState.
    isStatic, imageStates, acquiredSwapchains,
    corrupted,         \* has imageStates been indexed out of its bounds?
    reports,           \* failures the layer has reported
    unrecorded,        \* the last successful wait the layer ignored: is its image
                       \* "held", "released", or was there "none"?
    \* The calls in progress.
    pc,                \* the call each thread is in, past the runtime
    index,             \* the image index or count the runtime returned to it
    result             \* the result the runtime returned to it

runtimeVars == <<conforming, rtHeld, rtWaited, rtUsed, rtCount, misbehaved>>
layerVars == <<isStatic, imageStates, acquiredSwapchains, corrupted, reports, unrecorded>>
vars == <<conforming, rtHeld, rtWaited, rtUsed, rtCount, misbehaved, isStatic,
          imageStates, acquiredSwapchains, corrupted, reports, unrecorded,
          pc, index, result>>

TypeOK ==
    /\ rtHeld \in Seq(Images) /\ rtUsed \subseteq Images
    /\ conforming \in BOOLEAN /\ rtWaited \in BOOLEAN /\ misbehaved \in BOOLEAN
    /\ isStatic \in BOOLEAN /\ corrupted \in BOOLEAN
    /\ rtCount \in 0..Count + 1
    /\ imageStates \in Seq(ImageStates)
    /\ acquiredSwapchains \in Seq(Images)
    /\ reports \subseteq Failures
    /\ unrecorded \in {"none", "held", "released"}
    /\ pc \in [Threads -> Calls \cup {"idle"}]
    /\ index \in [Threads -> 0..Count + 1]
    /\ result \in [Threads -> {"SUCCESS", "LOSS_PENDING", "TIMEOUT_EXPIRED", Null}]

Init ==
    /\ conforming \in Conformance
    /\ rtHeld = <<>> /\ rtWaited = FALSE /\ rtUsed = {} /\ rtCount = 0
    /\ misbehaved = FALSE
    /\ isStatic \in BOOLEAN
    /\ imageStates = <<>> /\ acquiredSwapchains = <<>>
    /\ corrupted = FALSE /\ reports = {} /\ unrecorded = "none"
    /\ pc = [t \in Threads |-> "idle"]
    /\ index = [t \in Threads |-> 0]
    /\ result = [t \in Threads |-> Null]

-----------------------------------------------------------------------------
(* Calls.                                                                  *)

\* After an access out of bounds nothing can be said any more.  A runtime that
\* does not conform is called until it has been reported, by one thread at a time.
MayCall(t, c) ==
    /\ ~corrupted
    /\ conforming \/ reports = {}
    /\ pc[t] = "idle"
    /\ \A u \in Threads \ {t} :
          pc[u] # "idle" => conforming /\ {c, pc[u]} \in MayOverlap

Forwarded(t, c, i, r) ==
    /\ pc' = [pc EXCEPT ![t] = c]
    /\ index' = [index EXCEPT ![t] = i]
    /\ result' = [result EXCEPT ![t] = r]
    /\ UNCHANGED layerVars

Return(t) ==
    /\ pc' = [pc EXCEPT ![t] = "idle"]
    /\ index' = [index EXCEPT ![t] = 0]
    /\ result' = [result EXCEPT ![t] = Null]

\* A step of the runtime that keeps the rules only under a condition.
Rule(condition) ==
    /\ conforming => condition
    /\ misbehaved' = (misbehaved \/ ~condition)
    /\ UNCHANGED conforming

If(condition, failure) == IF condition THEN {failure} ELSE {}
Report(failures) == reports' = reports \cup failures
Success == {"SUCCESS", "LOSS_PENDING"}

-----------------------------------------------------------------------------
(* xrEnumerateSwapchainImages.                                             *)

\* The runtime announces n images: the same number whenever it is asked, and
\* one if the swapchain is static.
Announce(n, condition) ==
    /\ n \in 0..Count + 1
    /\ conforming => n = IF isStatic THEN 1 ELSE Count
    /\ Rule(n > 0 /\ (isStatic => n = 1) /\ rtCount \in {0, n} /\ condition)
    /\ rtCount' = IF rtCount = 0 THEN n ELSE rtCount
    /\ UNCHANGED <<rtHeld, rtWaited, rtUsed>>

EnumerateSwapchainImages(t, n) ==
    /\ MayCall(t, "enumerate")
    /\ Announce(n, TRUE)
    /\ Forwarded(t, "enumerate", n, "SUCCESS")

CountFailures(n) ==
    If(n = 0, "emptyCount") \cup If(n # 1 /\ isStatic, "staticCount")
    \cup If(imageStates # <<>> /\ Len(imageStates) # n, "countDiffers")

Created(n) == [i \in 1..n |-> "Created"]

ImagesEnumerated(t) ==
    /\ pc[t] = "enumerate"
    /\ Report(CountFailures(index[t]))
    /\ imageStates' = IF imageStates = <<>> THEN Created(index[t]) ELSE imageStates
    /\ Return(t)
    /\ UNCHANGED <<runtimeVars, isStatic, acquiredSwapchains, corrupted, unrecorded>>

-----------------------------------------------------------------------------
(* xrAcquireSwapchainImage.                                                *)

InRuntime(i) == \E n \in DOMAIN rtHeld : rtHeld[n] = i

AcquireSwapchainImage(t, i) ==
    /\ MayCall(t, "acquire")
    /\ Len(rtHeld) < MaxHeld
    /\ conforming => i <= IF isStatic THEN 1 ELSE Count
    /\ Rule((rtCount # 0 => i <= rtCount) /\ ~InRuntime(i) /\ (isStatic => i \notin rtUsed))
    /\ rtHeld' = Append(rtHeld, i)
    /\ rtUsed' = rtUsed \cup {i}
    /\ Forwarded(t, "acquire", i, "SUCCESS")
    /\ UNCHANGED <<rtWaited, rtCount>>

\* The image becomes the youngest of those acquired.
Push_Newest(i) == acquiredSwapchains' = <<i>> \o acquiredSwapchains
Push_OffByOne(i) == acquiredSwapchains' = Append(acquiredSwapchains, i + 1)
Push(i) == acquiredSwapchains' = Append(acquiredSwapchains, i)

AcquireFailures_Unheld(state) ==
    If(state = "Waited", "acquireWaited")
    \cup If(state = "Released" /\ isStatic, "staticAgain")

AcquireFailures(state) ==
    If(state = "Waited", "acquireWaited") \cup If(state = "Acquired", "acquireAcquired")
    \cup If(state = "Released" /\ isStatic, "staticAgain")

\* The end of the hook, with the image states it has found or set up.
RecordAcquired(t, states, failures) ==
    LET i == index[t]
    IN  /\ IF i > Len(states)
           THEN /\ Report(failures) /\ corrupted' = TRUE
                /\ imageStates' = states
                /\ UNCHANGED acquiredSwapchains
           ELSE /\ Report(failures \cup AcquireFailures(states[i]))
                /\ imageStates' = [states EXCEPT ![i] = "Acquired"]
                /\ Push(i)
                /\ UNCHANGED corrupted
        /\ Return(t)
        /\ UNCHANGED <<isStatic, unrecorded>>

ImageAcquired(t) ==
    /\ pc[t] = "acquire" /\ imageStates # <<>>
    /\ RecordAcquired(t, imageStates, If(index[t] > Len(imageStates), "outOfBounds"))
    /\ UNCHANGED runtimeVars

\* An image acquired before any enumeration: the hook enumerates, under the mutex.
FirstImageAcquired(t, n) ==
    /\ pc[t] = "acquire" /\ imageStates = <<>>
    /\ Announce(n, index[t] <= n)
    /\ RecordAcquired(t, Created(n), CountFailures(n))

FirstImageAcquiredUnenumerated(t) ==
    /\ pc[t] = "acquire" /\ imageStates = <<>> /\ MayFailEnumerate
    /\ RecordAcquired(t, <<>>, {"enumerateFailed"})
    /\ UNCHANGED runtimeVars

-----------------------------------------------------------------------------
(* xrWaitSwapchainImage and xrReleaseSwapchainImage.                       *)

WaitSwapchainImage(t) ==
    /\ MayCall(t, "wait")
    /\ \/ /\ Rule(rtHeld # <<>> /\ ~rtWaited)
          /\ rtWaited' = TRUE
          /\ \E r \in Success : Forwarded(t, "wait", 0, r)
       \/ /\ rtHeld # <<>> /\ ~rtWaited
          /\ Forwarded(t, "wait", 0, "TIMEOUT_EXPIRED")
          /\ UNCHANGED <<conforming, rtWaited, misbehaved>>
    /\ UNCHANGED <<rtHeld, rtUsed, rtCount>>

Oldest == Head(acquiredSwapchains)

ImageWaited(t) ==
    /\ pc[t] = "wait"
    /\ unrecorded' = IF result[t] = "LOSS_PENDING" THEN "held" ELSE unrecorded
    /\ IF result[t] # "SUCCESS" THEN UNCHANGED <<reports, imageStates>>
       ELSE IF acquiredSwapchains = <<>>
       THEN Report({"waitNone"}) /\ UNCHANGED imageStates
       ELSE /\ Report(If(imageStates[Oldest] # "Acquired", "waitWrongState"))
            /\ imageStates' = [imageStates EXCEPT ![Oldest] = "Waited"]
    /\ Return(t)
    /\ UNCHANGED <<runtimeVars, isStatic, acquiredSwapchains, corrupted>>

ReleaseSwapchainImage(t) ==
    /\ MayCall(t, "release")
    /\ Rule(rtWaited)
    /\ rtHeld' = IF rtHeld = <<>> THEN <<>> ELSE Tail(rtHeld)
    /\ rtWaited' = FALSE
    /\ \E r \in Success : Forwarded(t, "release", 0, r)
    /\ UNCHANGED <<rtUsed, rtCount>>

Pop_Omitted == UNCHANGED acquiredSwapchains
Pop == acquiredSwapchains' = Tail(acquiredSwapchains)

ImageReleased(t) ==
    /\ pc[t] = "release"
    /\ IF acquiredSwapchains = <<>>
       THEN Report({"releaseNone"}) /\ UNCHANGED <<imageStates, acquiredSwapchains>>
       ELSE /\ Report(If(imageStates[Oldest] # "Waited", "releaseWrongState"))
            /\ imageStates' = [imageStates EXCEPT ![Oldest] = "Released"]
            /\ Pop
    /\ unrecorded' = IF unrecorded = "held" THEN "released" ELSE unrecorded
    /\ Return(t)
    /\ UNCHANGED <<runtimeVars, isStatic, corrupted>>

-----------------------------------------------------------------------------

Next ==
    \E t \in Threads :
        \/ \E n \in 0..Count + 1 : EnumerateSwapchainImages(t, n) \/ FirstImageAcquired(t, n)
        \/ \E i \in Images : AcquireSwapchainImage(t, i)
        \/ ImagesEnumerated(t)
        \/ ImageAcquired(t) \/ FirstImageAcquiredUnenumerated(t)
        \/ WaitSwapchainImage(t) \/ ImageWaited(t)
        \/ ReleaseSwapchainImage(t) \/ ImageReleased(t)

Spec == Init /\ [][Next]_vars

-----------------------------------------------------------------------------
(* Correctness.                                                            *)

Quiet == \A t \in Threads : pc[t] = "idle"

\* A runtime that keeps the rules of a swapchain is reported for nothing but an
\* enumeration that did fail, and the release of an image whose wait succeeded with
\* XR_SESSION_LOSS_PENDING, which the hook of the wait does not record.
NoFalseError ==
    conforming => reports \subseteq {"enumerateFailed"}
                                    \cup If(unrecorded # "none", "releaseWrongState")

\* Between calls the layer's queue is a conforming runtime's, and the state of each
\* image says where it stands: never used, held, waited on as the oldest, released.
RecordAgrees ==
    Quiet /\ conforming /\ ~corrupted =>
        /\ acquiredSwapchains = rtHeld
        /\ \A i \in DOMAIN imageStates :
              LET recorded == rtWaited /\ i = Head(rtHeld) /\ unrecorded # "held"
              IN  imageStates[i] = CASE InRuntime(i) /\ recorded -> "Waited"
                                     [] InRuntime(i) /\ ~recorded -> "Acquired"
                                     [] ~InRuntime(i) /\ i \in rtUsed -> "Released"
                                     [] OTHER -> "Created"

\* A runtime that breaks a rule of swapchains has been reported when the call
\* in which it did so returns, unless the layer itself has left its vector or has
\* ignored a wait.
NothingMissed ==
    Quiet /\ misbehaved /\ ~corrupted /\ unrecorded = "none" => reports # {}

\* The layer indexes its vector of image states out of bounds only after a runtime
\* failed the enumeration inside an acquire or returned an index that does not exist.
OutOfBoundsExplained == corrupted => misbehaved \/ "enumerateFailed" \in reports

\* The verdict of Swapchain.cpp: no report of a runtime that keeps the rules, one of
\* every runtime that does not, unless the layer has corrupted itself, which such a
\* runtime, or a failed enumeration, has led it to.
VerdictExact == NoFalseError /\ NothingMissed /\ OutOfBoundsExplained

\* With a conforming runtime the layer's record of images is that of a swapchain:
\* first acquired, first waited on and released, no image twice at a time.
\* An ignored wait counts as one.
Swapchain == INSTANCE SwapchainImages
    WITH held <- IF conforming THEN acquiredSwapchains ELSE <<>>,
         waited <- /\ conforming /\ acquiredSwapchains # <<>>
                   /\ imageStates[Oldest] = "Waited" \/ unrecorded = "held"
ImplementsSwapchain == Swapchain!Spec
=============================================================================
