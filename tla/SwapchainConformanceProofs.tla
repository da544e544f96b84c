---------------------- MODULE SwapchainConformanceProofs ----------------------
(***************************************************************************)
(* Proofs about SwapchainConformance, for any threads, image count and      *)
(* bounds: types are right whatever overlaps; the layer's verdict and its   *)
(* record of the images are exact, and the record is the abstract swapchain, *)
(* as long as the application makes none of the racing pairs of calls.      *)
(***************************************************************************)
EXTENDS SwapchainConformance, SequenceTheorems, TLAPS

\* The application keeps the racing pairs of calls apart.
Serialised == MayOverlap \cap Races = {}

\* A call in progress has an index or count and a result that it can have.
CallInv ==
    \A t \in Threads :
        /\ pc[t] = "acquire" => index[t] \in Images
        /\ pc[t] = "wait" => result[t] \in Success \cup {"TIMEOUT_EXPIRED"}

TypeInv == TypeOK /\ CallInv

\* The calls that race with c.
Excluded(c) ==
    CASE c = "acquire" -> {"acquire", "wait", "release"}
      [] c = "wait" -> {"acquire", "release"}
      [] c = "release" -> {"acquire", "wait"}
      [] OTHER -> {}

\* No race is in progress, and a runtime that does not conform is called by one thread.
NoRace ==
    /\ \A t, u \in Threads : t # u => pc[u] \notin Excluded(pc[t])
    /\ ~conforming => \A t, u \in Threads : t # u => pc[t] = "idle" \/ pc[u] = "idle"

\* The count that is announced is the length of the vector.
CountInv ==
    ~misbehaved =>
        /\ isStatic => rtCount \in {0, 1}
        /\ conforming => rtCount \in {0, IF isStatic THEN 1 ELSE Count}
        /\ imageStates # <<>> => Len(imageStates) = rtCount
        /\ rtCount # 0 /\ imageStates = <<>> => \E t \in Threads : pc[t] = "enumerate"
        /\ \A t \in Threads :
             /\ pc[t] = "enumerate" => index[t] = rtCount /\ rtCount # 0
             /\ pc[t] = "acquire" /\ rtCount # 0 => index[t] <= rtCount
             /\ pc[t] = "acquire" /\ conforming => index[t] <= IF isStatic THEN 1 ELSE Count

Listed(i) == \E n \in DOMAIN acquiredSwapchains : acquiredSwapchains[n] = i
Acquiring(i) == \E t \in Threads : pc[t] = "acquire" /\ index[t] = i

\* The queue of the layer is the runtime's, but for the call in progress.
QueueInv ==
    /\ (\A t \in Threads : pc[t] \notin {"acquire", "release"}) => rtHeld = acquiredSwapchains
    /\ \A t \in Threads :
         /\ pc[t] = "acquire" =>
                /\ ~Listed(index[t]) /\ index[t] \in rtUsed
                /\ rtHeld = Append(acquiredSwapchains, index[t])
         /\ pc[t] = "release" =>
                acquiredSwapchains # <<>> /\ rtHeld = Tail(acquiredSwapchains)
    /\ \A m, n \in DOMAIN acquiredSwapchains :
           acquiredSwapchains[m] = acquiredSwapchains[n] => m = n
    /\ \A n \in DOMAIN acquiredSwapchains :
           acquiredSwapchains[n] \in DOMAIN imageStates \cap rtUsed

\* The state of an image says whether it is in the queue and has been used.
StatesInv ==
    /\ \A n \in DOMAIN acquiredSwapchains :
           imageStates[acquiredSwapchains[n]] \in
               IF n = 1 THEN {"Acquired", "Waited"} ELSE {"Acquired"}
    /\ \A i \in DOMAIN imageStates : ~Listed(i) =>
           /\ imageStates[i] \in {"Created", "Released"}
           /\ i \notin rtUsed \/ (Acquiring(i) /\ isStatic) => imageStates[i] = "Created"
           /\ i \in rtUsed /\ ~Acquiring(i) => imageStates[i] = "Released"
    /\ \A i \in rtUsed : i \in DOMAIN imageStates \/ Acquiring(i)

\* The layer knows that the oldest image has been waited on, or has ignored it.
OldestWaited ==
    acquiredSwapchains # <<>> /\ (imageStates[Oldest] = "Waited" \/ unrecorded = "held")

\* What the layer knows of the oldest image, when no call of it is in progress
\* and when one is; a wait it has ignored; and at most one such call.
WaitSettled ==
    (\A t \in Threads : pc[t] # "release" /\ ~(pc[t] = "wait" /\ result[t] \in Success)) =>
        (rtWaited <=> OldestWaited)

WaitUnderway ==
    \A t \in Threads :
        /\ pc[t] = "wait" /\ result[t] \in Success =>
               rtWaited /\ acquiredSwapchains # <<>> /\ ~OldestWaited
        /\ pc[t] = "release" => ~rtWaited /\ OldestWaited

WaitIgnored ==
    unrecorded = "held" => acquiredSwapchains # <<>> /\ imageStates[Oldest] # "Waited"

OneCall ==
    \A t, u \in Threads : t # u /\ pc[t] = pc[u] =>
        /\ pc[t] # "release"
        /\ pc[t] = "wait" => ~(result[t] \in Success /\ result[u] \in Success)

WaitInv == WaitSettled /\ WaitUnderway /\ WaitIgnored /\ OneCall

OrderlyInv == ~misbehaved /\ ~corrupted => QueueInv /\ StatesInv /\ WaitInv

\* A broken rule is reported by the hook of the call that broke it.
Detected(t) ==
    \/ pc[t] = "enumerate" /\ CountFailures(index[t]) # {}
    \/ /\ pc[t] = "acquire" /\ imageStates # <<>>
       /\ \/ index[t] > Len(imageStates)
          \/ AcquireFailures(imageStates[index[t]]) # {}
    \/ /\ pc[t] = "wait"
       /\ \/ result[t] = "LOSS_PENDING"
          \/ acquiredSwapchains = <<>>
          \/ imageStates[Oldest] # "Acquired"
       /\ result[t] \in Success
    \/ /\ pc[t] = "release"
       /\ \/ acquiredSwapchains = <<>>
          \/ imageStates[Oldest] # "Waited"

VerdictInv ==
    /\ conforming => ~misbehaved
    /\ ~misbehaved => reports \subseteq {"enumerateFailed"}
                                      \cup If(unrecorded # "none", "releaseWrongState")
    /\ misbehaved /\ ~corrupted /\ unrecorded = "none" /\ reports = {} =>
           \E t \in Threads : Detected(t)
    /\ ~conforming /\ reports # {} => \A t \in Threads : pc[t] = "idle"

CorruptedInv ==
    corrupted =>
        /\ misbehaved \/ "enumerateFailed" \in reports
        /\ conforming => acquiredSwapchains = <<>>
        /\ \A t \in Threads : pc[t] \in {"idle", "enumerate"}

IInv ==
    /\ TypeInv /\ NoRace /\ CountInv /\ OrderlyInv /\ VerdictInv /\ CorruptedInv

-----------------------------------------------------------------------------
(* Calls in progress, types.                                               *)

\* A call that may be made races with none in progress.
LEMMA Admitted ==
    ASSUME Serialised, TypeOK, NEW t \in Threads, NEW c \in Calls, MayCall(t, c),
           NEW u \in Threads, u # t
    PROVE  pc[u] \notin Excluded(c) /\ c \notin Excluded(pc[u])
<1>1. pc[u] \in Calls \cup {"idle"}
  BY DEF TypeOK
<1>2. pc[u] # "idle" => {c, pc[u]} \in MayOverlap
  BY DEF MayCall
<1>3. pc[u] # "idle" => {c, pc[u]} \notin Races
  BY <1>2 DEF Serialised
<1> QED
  BY <1>1, <1>3, SMTT(20) DEF Excluded, Races, Calls

LEMMA Company ==
    ASSUME Serialised, TypeOK, NEW t \in Threads, NEW c \in Calls, MayCall(t, c)
    PROVE  \A u \in Threads : pc[u] \in (Calls \cup {"idle"}) \ Excluded(c)
<1>1. pc[t] = "idle" /\ "idle" \notin Excluded(c)
  BY SMTT(10) DEF MayCall, Excluded
<1> QED
  BY <1>1, Admitted DEF TypeOK

\* Calls enter and leave the runtime without a race.
LEMMA Entered ==
    ASSUME Serialised, TypeOK, NoRace, NEW t \in Threads, NEW c \in Calls, MayCall(t, c),
           pc' = [pc EXCEPT ![t] = c], UNCHANGED conforming
    PROVE  NoRace'
<1>1. \A u \in Threads \ {t} : pc[u] # "idle" => conforming
  BY DEF MayCall
<1>2. \A u, v \in Threads : u # v => pc'[v] \notin Excluded(pc'[u])
  BY Admitted, SMTT(20) DEF NoRace, TypeOK
<1> QED
  BY <1>1, <1>2 DEF NoRace, TypeOK

LEMMA Left ==
    ASSUME TypeOK, NoRace, NEW t \in Threads, pc' = [pc EXCEPT ![t] = "idle"], UNCHANGED conforming
    PROVE  NoRace'
BY SMTT(20) DEF NoRace, Excluded, TypeOK

\* What forwarding, returning and the pieces of a step do to the types.
LEMMA ForwardedTypes ==
    ASSUME TypeOK, NEW t \in Threads, NEW c \in Calls, NEW i \in 0..Count + 1,
           NEW r \in {"SUCCESS", "LOSS_PENDING", "TIMEOUT_EXPIRED"}, Forwarded(t, c, i, r)
    PROVE  /\ pc' \in [Threads -> Calls \cup {"idle"}]
           /\ index' \in [Threads -> 0..Count + 1]
           /\ result' \in [Threads -> {"SUCCESS", "LOSS_PENDING", "TIMEOUT_EXPIRED", Null}]
           /\ isStatic' \in BOOLEAN /\ corrupted' \in BOOLEAN
           /\ imageStates' \in Seq(ImageStates) /\ acquiredSwapchains' \in Seq(Images)
           /\ reports' \subseteq Failures /\ unrecorded' \in {"none", "held", "released"}
BY DEF TypeOK, Forwarded, layerVars

LEMMA ReturnTypes ==
    ASSUME TypeOK, NEW t \in Threads, Return(t)
    PROVE  /\ pc' \in [Threads -> Calls \cup {"idle"}]
           /\ index' \in [Threads -> 0..Count + 1]
           /\ result' \in [Threads -> {"SUCCESS", "LOSS_PENDING", "TIMEOUT_EXPIRED", Null}]
BY ConstantsAssumption DEF TypeOK, Return

LEMMA RuleTypes ==
    ASSUME TypeOK, NEW condition, Rule(condition)
    PROVE  conforming' \in BOOLEAN /\ misbehaved' \in BOOLEAN
BY Zenon DEF TypeOK, Rule

\* The vector that an enumeration sets up, and one state of it changed.
LEMMA CreatedStates ==
    ASSUME NEW n \in Nat
    PROVE  /\ Created(n) \in Seq(ImageStates) /\ Len(Created(n)) = n
           /\ DOMAIN Created(n) = 1..n /\ \A i \in 1..n : Created(n)[i] = "Created"
           /\ Created(n) = <<>> <=> n = 0
<1>1. Created(n) \in Seq(ImageStates)
  BY DEF Created, ImageStates
<1>2. Len(Created(n)) = n /\ DOMAIN Created(n) = 1..n /\ \A i \in 1..n : Created(n)[i] = "Created"
  BY DEF Created
<1> QED  BY <1>1, <1>2, EmptySeq

LEMMA AnnounceTypes ==
    ASSUME TypeOK, NEW n, NEW condition, Announce(n, condition)
    PROVE  /\ conforming' \in BOOLEAN /\ misbehaved' \in BOOLEAN
           /\ n \in 0..Count + 1 /\ n \in Nat /\ rtCount' \in 0..Count + 1
           /\ UNCHANGED <<rtHeld, rtWaited, rtUsed>>
<1>1. Rule(n > 0 /\ (isStatic => n = 1) /\ rtCount \in {0, n} /\ condition)
  BY DEF Announce
<1>2. n \in 0..Count + 1 /\ rtCount' \in 0..Count + 1 /\ UNCHANGED <<rtHeld, rtWaited, rtUsed>>
  BY DEF Announce, TypeOK
<1> QED
  BY <1>1, <1>2, RuleTypes, ConstantsAssumption

LEMMA StateSet ==
    ASSUME NEW states \in Seq(ImageStates), NEW i, NEW state \in ImageStates
    PROVE  /\ [states EXCEPT ![i] = state] \in Seq(ImageStates)
           /\ Len([states EXCEPT ![i] = state]) = Len(states)
           /\ DOMAIN [states EXCEPT ![i] = state] = 1..Len(states)
           /\ \A j \in 1..Len(states) :
                  [states EXCEPT ![i] = state][j] = IF j = i THEN state ELSE states[j]
<1>1. CASE i \in 1..Len(states)
  BY <1>1, ExceptSeq, LenProperties
<1>2. CASE i \notin 1..Len(states)
  <2>1. [states EXCEPT ![i] = state] = states
    BY <1>2
  <2> QED
    BY <1>2, <2>1, LenProperties
<1> QED  BY <1>1, <1>2

LEMMA RecordTypes ==
    ASSUME TypeOK, NEW t \in Threads, index[t] \in Images, NEW states \in Seq(ImageStates),
           NEW failures \in SUBSET Failures, RecordAcquired(t, states, failures)
    PROVE  /\ pc' \in [Threads -> Calls \cup {"idle"}]
           /\ index' \in [Threads -> 0..Count + 1]
           /\ result' \in [Threads -> {"SUCCESS", "LOSS_PENDING", "TIMEOUT_EXPIRED", Null}]
           /\ isStatic' \in BOOLEAN /\ corrupted' \in BOOLEAN
           /\ imageStates' \in Seq(ImageStates) /\ acquiredSwapchains' \in Seq(Images)
           /\ reports' \subseteq Failures /\ unrecorded' \in {"none", "held", "released"}
<1>1. corrupted' \in BOOLEAN /\ isStatic' \in BOOLEAN /\ unrecorded' \in {"none", "held", "released"}
  BY Zenon DEF RecordAcquired, TypeOK
<1>2. AcquireFailures(states[index[t]]) \subseteq Failures
  BY DEF AcquireFailures, If, Failures
<1>3. reports' \subseteq Failures
  BY <1>2 DEF RecordAcquired, Report, TypeOK
<1>4. imageStates' \in Seq(ImageStates) /\ acquiredSwapchains' \in Seq(Images)
  <2>1. CASE index[t] > Len(states)
    BY <2>1 DEF RecordAcquired, TypeOK
  <2>2. CASE ~(index[t] > Len(states))
    <3>1. /\ imageStates' = [states EXCEPT ![index[t]] = "Acquired"]
          /\ acquiredSwapchains' = Append(acquiredSwapchains, index[t])
      BY <2>2 DEF RecordAcquired, Push
    <3>2. "Acquired" \in ImageStates /\ acquiredSwapchains \in Seq(Images)
      BY DEF ImageStates, TypeOK
    <3>3. index[t] \in 1..Len(states)
      BY <2>2, ConstantsAssumption DEF Images
    <3>4. [states EXCEPT ![index[t]] = "Acquired"] \in Seq(ImageStates)
      BY <3>2, <3>3, ExceptSeq
    <3> QED
      BY <3>1, <3>2, <3>4, AppendProperties
  <2> QED  BY <2>1, <2>2
<1>5. Return(t)
  BY DEF RecordAcquired
<1> QED
  BY <1>1, <1>3, <1>4, <1>5, ReturnTypes

LEMMA CountTypes ==
    ASSUME NEW n
    PROVE  CountFailures(n) \subseteq Failures
BY DEF CountFailures, If, Failures

\* Every step keeps the types, whatever calls overlap.
LEMMA TypeStep ==
    ASSUME TypeInv, Next
    PROVE  TypeInv'
<1> USE DEF TypeInv
<1>1. ASSUME NEW t \in Threads, NEW n \in 0..Count + 1, EnumerateSwapchainImages(t, n)
      PROVE  TypeInv'
  <2>1. Announce(n, TRUE) /\ Forwarded(t, "enumerate", n, "SUCCESS")
    BY <1>1 DEF EnumerateSwapchainImages
  <2>2. TypeOK'
    BY <2>1, AnnounceTypes, ForwardedTypes DEF Calls, TypeOK
  <2>3. CallInv'
    BY <2>1 DEF Forwarded, TypeOK, CallInv
  <2> QED  BY <2>2, <2>3
<1>2. ASSUME NEW t \in Threads, ImagesEnumerated(t)
      PROVE  TypeInv'
  <2>1. reports' \subseteq Failures /\ Return(t)
    BY <1>2, CountTypes DEF ImagesEnumerated, Report, TypeOK
  <2>2. imageStates' \in Seq(ImageStates)
    BY <1>2, CreatedStates, ConstantsAssumption DEF ImagesEnumerated, TypeOK
  <2>3. TypeOK'
    BY <1>2, <2>1, <2>2, ReturnTypes DEF ImagesEnumerated, runtimeVars, TypeOK
  <2>4. CallInv'
    BY <2>1 DEF Return, TypeOK, CallInv
  <2> QED  BY <2>3, <2>4
<1>3. ASSUME NEW t \in Threads, NEW i \in Images, AcquireSwapchainImage(t, i)
      PROVE  TypeInv'
  <2>1. Forwarded(t, "acquire", i, "SUCCESS") /\ i \in 0..Count + 1
    BY <1>3, ConstantsAssumption DEF AcquireSwapchainImage, Images
  <2>2. conforming' \in BOOLEAN /\ misbehaved' \in BOOLEAN
    BY <1>3, RuleTypes DEF AcquireSwapchainImage
  <2>3. rtHeld' \in Seq(Images) /\ rtUsed' \subseteq Images
    BY <1>3, AppendProperties DEF AcquireSwapchainImage, TypeOK
  <2>4. TypeOK'
    BY <1>3, <2>1, <2>2, <2>3, ForwardedTypes DEF AcquireSwapchainImage, Calls, TypeOK
  <2>5. CallInv'
    BY <2>1 DEF Forwarded, TypeOK, CallInv
  <2> QED  BY <2>4, <2>5
<1>4. ASSUME NEW t \in Threads, pc[t] = "acquire", NEW states \in Seq(ImageStates),
             NEW failures \in SUBSET Failures, RecordAcquired(t, states, failures),
             conforming' \in BOOLEAN, misbehaved' \in BOOLEAN, rtCount' \in 0..Count + 1,
             UNCHANGED <<rtHeld, rtWaited, rtUsed>>
      PROVE  TypeInv'
  <2>1. TypeOK'
    BY <1>4, RecordTypes DEF CallInv, TypeOK
  <2>2. CallInv'
    BY <1>4 DEF RecordAcquired, Return, TypeOK, CallInv
  <2> QED  BY <2>1, <2>2
<1>5. ASSUME NEW t \in Threads, ImageAcquired(t)
      PROVE  TypeInv'
  <2>1. If(index[t] > Len(imageStates), "outOfBounds") \in SUBSET Failures
    BY DEF If, Failures
  <2> QED
    BY <1>4, <1>5, <2>1 DEF ImageAcquired, runtimeVars, TypeOK
<1>6. ASSUME NEW t \in Threads, NEW n \in 0..Count + 1, FirstImageAcquired(t, n)
      PROVE  TypeInv'
  <2>1. Announce(n, index[t] <= n) /\ RecordAcquired(t, Created(n), CountFailures(n)) /\ pc[t] = "acquire"
    BY <1>6 DEF FirstImageAcquired
  <2>2. Created(n) \in Seq(ImageStates)
    BY CreatedStates, ConstantsAssumption
  <2> QED
    BY <1>4, <2>1, <2>2, AnnounceTypes, CountTypes
<1>7. ASSUME NEW t \in Threads, FirstImageAcquiredUnenumerated(t)
      PROVE  TypeInv'
  <2>1. <<>> \in Seq(ImageStates) /\ {"enumerateFailed"} \in SUBSET Failures
    BY DEF Failures
  <2> QED
    BY <1>4, <1>7, <2>1 DEF FirstImageAcquiredUnenumerated, runtimeVars, TypeOK
<1>8. ASSUME NEW t \in Threads, WaitSwapchainImage(t)
      PROVE  TypeInv'
  <2>1. PICK r \in Success \cup {"TIMEOUT_EXPIRED"} : Forwarded(t, "wait", 0, r)
    BY <1>8 DEF WaitSwapchainImage
  <2>2. conforming' \in BOOLEAN /\ misbehaved' \in BOOLEAN /\ rtWaited' \in BOOLEAN
    <3>1. CASE UNCHANGED <<conforming, rtWaited, misbehaved>>
      BY <3>1 DEF TypeOK
    <3>2. CASE Rule(rtHeld # <<>> /\ ~rtWaited) /\ rtWaited' = TRUE
      BY <3>2, RuleTypes, Zenon
    <3> QED
      BY <1>8, <3>1, <3>2 DEF WaitSwapchainImage
  <2>3. TypeOK'
    BY <1>8, <2>1, <2>2, ForwardedTypes, ConstantsAssumption
       DEF WaitSwapchainImage, Success, Calls, TypeOK
  <2>4. CallInv'
    BY <2>1 DEF Forwarded, TypeOK, CallInv
  <2> QED  BY <2>3, <2>4
<1>9. ASSUME NEW t \in Threads, ImageWaited(t)
      PROVE  TypeInv'
  <2>1. Return(t) /\ UNCHANGED <<runtimeVars, isStatic, acquiredSwapchains, corrupted>>
    BY <1>9 DEF ImageWaited
  <2>2. unrecorded' \in {"none", "held", "released"} /\ reports' \subseteq Failures
    BY <1>9 DEF ImageWaited, Report, If, Failures, TypeOK
  <2>3. imageStates' \in Seq(ImageStates)
    BY <1>9, StateSet DEF ImageWaited, ImageStates, TypeOK
  <2>4. TypeOK'
    BY <2>1, <2>2, <2>3, ReturnTypes DEF runtimeVars, TypeOK
  <2>5. CallInv'
    BY <2>1 DEF Return, TypeOK, CallInv
  <2> QED  BY <2>4, <2>5
<1>10. ASSUME NEW t \in Threads, ReleaseSwapchainImage(t)
       PROVE  TypeInv'
  <2>1. PICK r \in Success : Forwarded(t, "release", 0, r)
    BY <1>10 DEF ReleaseSwapchainImage
  <2>2. conforming' \in BOOLEAN /\ misbehaved' \in BOOLEAN /\ rtWaited' \in BOOLEAN
    BY <1>10, RuleTypes, Zenon DEF ReleaseSwapchainImage
  <2>3. rtHeld' \in Seq(Images)
    BY <1>10, HeadTailProperties, EmptySeq DEF ReleaseSwapchainImage, TypeOK
  <2>4. TypeOK'
    BY <1>10, <2>1, <2>2, <2>3, ForwardedTypes, ConstantsAssumption
       DEF ReleaseSwapchainImage, Success, Calls, TypeOK
  <2>5. CallInv'
    BY <2>1 DEF Forwarded, TypeOK, CallInv
  <2> QED  BY <2>4, <2>5
<1>11. ASSUME NEW t \in Threads, ImageReleased(t)
       PROVE  TypeInv'
  <2>1. Return(t) /\ UNCHANGED <<runtimeVars, isStatic, corrupted>>
    BY <1>11 DEF ImageReleased
  <2>2. unrecorded' \in {"none", "held", "released"} /\ reports' \subseteq Failures
    BY <1>11 DEF ImageReleased, Report, If, Failures, TypeOK
  <2>3. imageStates' \in Seq(ImageStates)
    BY <1>11, StateSet DEF ImageReleased, ImageStates, TypeOK
  <2>4. acquiredSwapchains' \in Seq(Images)
    BY <1>11, HeadTailProperties DEF ImageReleased, Pop, TypeOK
  <2>5. TypeOK'
    BY <2>1, <2>2, <2>3, <2>4, ReturnTypes DEF runtimeVars, TypeOK
  <2>6. CallInv'
    BY <2>1 DEF Return, TypeOK, CallInv
  <2> QED  BY <2>5, <2>6
<1> QED
  BY <1>1, <1>2, <1>3, <1>5, <1>6, <1>7, <1>8, <1>9, <1>10, <1>11 DEF Next

-----------------------------------------------------------------------------
(* Calls into the runtime.                                                 *)

\* Which calls are in progress after one has been forwarded, or has returned.
LEMMA ForwardedFacts ==
    ASSUME TypeOK, NEW t \in Threads, NEW c, NEW i, NEW r, Forwarded(t, c, i, r)
    PROVE  /\ pc' = [pc EXCEPT ![t] = c]
           /\ pc'[t] = c /\ index'[t] = i /\ result'[t] = r
           /\ \A u \in Threads \ {t} :
                  pc'[u] = pc[u] /\ index'[u] = index[u] /\ result'[u] = result[u]
           /\ UNCHANGED <<isStatic, imageStates, acquiredSwapchains, corrupted, reports, unrecorded>>
BY DEF TypeOK, Forwarded, layerVars

LEMMA ReturnFacts ==
    ASSUME TypeOK, NEW t \in Threads, Return(t)
    PROVE  /\ pc' = [pc EXCEPT ![t] = "idle"]
           /\ pc'[t] = "idle" /\ index'[t] = 0
           /\ \A u \in Threads \ {t} :
                  pc'[u] = pc[u] /\ index'[u] = index[u] /\ result'[u] = result[u]
BY DEF TypeOK, Return

\* A runtime that does not conform makes the call alone.
LEMMA AloneIfNot ==
    ASSUME NEW t \in Threads, NEW c, MayCall(t, c), ~conforming
    PROVE  \A u \in Threads : pc[u] = "idle"
BY DEF MayCall

\* Between calls no hook is about to report anything.
LEMMA NothingDetected ==
    ASSUME \A t \in Threads : pc[t] = "idle"
    PROVE  \A t \in Threads : ~Detected(t)
BY DEF Detected

\* A count is reported if it is wrong, and only then.
LEMMA CountReported ==
    ASSUME NEW n, n = 0 \/ (isStatic /\ n # 1) \/ (imageStates # <<>> /\ Len(imageStates) # n)
    PROVE  CountFailures(n) # {}
BY DEF CountFailures, If

LEMMA CountAccepted ==
    ASSUME NEW n, n # 0, isStatic => n = 1, imageStates # <<>> => Len(imageStates) = n
    PROVE  CountFailures(n) = {}
BY DEF CountFailures, If

\* xrEnumerateSwapchainImages: the runtime, then the hook.
LEMMA EnumerateInvariant ==
    ASSUME Serialised, IInv, TypeInv', NEW t \in Threads, NEW n \in 0..Count + 1,
           EnumerateSwapchainImages(t, n)
    PROVE  IInv'
<1> DEFINE condition == n > 0 /\ (isStatic => n = 1) /\ rtCount \in {0, n}
<1> USE DEF IInv, TypeInv
<1>1. /\ MayCall(t, "enumerate") /\ ~corrupted /\ pc[t] = "idle" /\ (conforming \/ reports = {})
      /\ \A u \in Threads \ {t} : pc[u] # "idle" => conforming
  BY DEF EnumerateSwapchainImages, MayCall
<1>2. /\ conforming => n = IF isStatic THEN 1 ELSE Count
      /\ conforming => condition
      /\ misbehaved' = (misbehaved \/ ~condition)
      /\ rtCount' = IF rtCount = 0 THEN n ELSE rtCount
      /\ UNCHANGED <<conforming, rtHeld, rtWaited, rtUsed>>
  BY Zenon DEF EnumerateSwapchainImages, Announce, Rule
<1>3. /\ pc' = [pc EXCEPT ![t] = "enumerate"] /\ pc'[t] = "enumerate" /\ index'[t] = n
      /\ \A u \in Threads \ {t} :
             pc'[u] = pc[u] /\ index'[u] = index[u] /\ result'[u] = result[u]
      /\ UNCHANGED <<isStatic, imageStates, acquiredSwapchains, corrupted, reports, unrecorded>>
  BY ForwardedFacts DEF EnumerateSwapchainImages
<1>4. NoRace'
  BY <1>1, <1>2, <1>3, Entered DEF Calls
<1>5. CountInv'
  <2> SUFFICES ASSUME ~misbehaved' PROVE CountInv'
    BY DEF CountInv
  <2>1. ~misbehaved /\ condition
    BY <1>2, Zenon
  <2>2. /\ n \in Nat \ {0} /\ (isStatic => n = 1) /\ rtCount \in {0, n} /\ rtCount' = n
    BY <1>2, <2>1
  <2>3. imageStates # <<>> => Len(imageStates) = n
    BY <2>1, <2>2, EmptySeq DEF CountInv, TypeOK
  <2>4. \A u \in Threads : pc[u] = "acquire" => index[u] <= n
    BY <1>1, <1>2, <2>1 DEF CountInv
  <2> QED
    BY <1>1, <1>2, <1>3, <2>1, <2>2, <2>3, <2>4 DEF CountInv
<1>6. OrderlyInv'
  <2> SUFFICES ASSUME ~misbehaved', ~corrupted' PROVE QueueInv' /\ StatesInv' /\ WaitInv'
    BY DEF OrderlyInv
  <2>1. QueueInv /\ StatesInv /\ WaitInv
    BY <1>2, <1>3 DEF OrderlyInv
  <2>2. QueueInv'
    BY <1>1, <1>2, <1>3, <2>1 DEF QueueInv, Listed
  <2>3. StatesInv'
    BY <1>1, <1>2, <1>3, <2>1 DEF StatesInv, Listed, Acquiring
  <2>4. WaitInv'
    BY <1>1, <1>2, <1>3, <2>1
       DEF WaitInv, WaitSettled, WaitUnderway, WaitIgnored, OneCall, OldestWaited, Oldest
  <2> QED  BY <2>2, <2>3, <2>4
<1>7. VerdictInv'
  <2>1. conforming' => ~misbehaved'
    BY <1>2 DEF VerdictInv
  <2>2. ASSUME misbehaved', ~misbehaved PROVE CountFailures(n) # {}
    <3>1. ~condition /\ ~conforming
      BY <1>2, <2>2
    <3>2. \A u \in Threads : pc[u] = "idle"
      BY <1>1, <3>1, AloneIfNot
    <3>3. rtCount # 0 => imageStates # <<>> /\ Len(imageStates) = rtCount
      BY <2>2, <3>2 DEF CountInv
    <3> QED
      BY <3>1, <3>3, CountReported
  <2>3. misbehaved' /\ unrecorded' = "none" /\ reports' = {} => \E u \in Threads : Detected(u)'
    <3>1. ASSUME misbehaved, unrecorded = "none", reports = {} PROVE FALSE
      BY <1>1, <3>1, AloneIfNot, NothingDetected DEF VerdictInv
    <3>2. CountFailures(n) # {} => Detected(t)'
      BY <1>3 DEF Detected, CountFailures
    <3> QED
      BY <1>3, <2>2, <3>1, <3>2
  <2>4. ~misbehaved' => ~misbehaved
    BY <1>2
  <2> QED
    BY <1>1, <1>2, <1>3, <2>1, <2>3, <2>4 DEF VerdictInv
<1>8. CorruptedInv'
  BY <1>1, <1>3 DEF CorruptedInv
<1> QED
  BY <1>4, <1>5, <1>6, <1>7, <1>8

LEMMA EnumeratedInvariant ==
    ASSUME Serialised, IInv, TypeInv', NEW t \in Threads, ImagesEnumerated(t)
    PROVE  IInv'
<1> USE DEF IInv, TypeInv
<1>1. /\ pc[t] = "enumerate" /\ reports' = reports \cup CountFailures(index[t])
      /\ imageStates' = IF imageStates = <<>> THEN Created(index[t]) ELSE imageStates
      /\ UNCHANGED <<conforming, rtHeld, rtWaited, rtUsed, rtCount, misbehaved, isStatic,
                     acquiredSwapchains, corrupted, unrecorded>>
  BY DEF ImagesEnumerated, Report, runtimeVars
<1>2. /\ pc' = [pc EXCEPT ![t] = "idle"] /\ pc'[t] = "idle"
      /\ \A u \in Threads \ {t} :
             pc'[u] = pc[u] /\ index'[u] = index[u] /\ result'[u] = result[u]
  BY ReturnFacts DEF ImagesEnumerated
<1>3. /\ Len(Created(index[t])) = index[t] /\ DOMAIN Created(index[t]) = 1..index[t]
      /\ \A i \in 1..index[t] : Created(index[t])[i] = "Created"
      /\ Created(index[t]) = <<>> <=> index[t] = 0
  <2>1. index[t] \in Nat
    BY ConstantsAssumption DEF TypeOK
  <2> QED  BY <2>1, CreatedStates
<1>4. NoRace'
  BY <1>1, <1>2, Left
<1>5. CountInv'
  BY <1>1, <1>2, <1>3 DEF CountInv
<1>6. OrderlyInv'
  <2> SUFFICES ASSUME ~misbehaved, ~corrupted PROVE QueueInv' /\ StatesInv' /\ WaitInv'
    BY <1>1 DEF OrderlyInv
  <2>1. QueueInv /\ StatesInv /\ WaitInv
    BY DEF OrderlyInv
  <2>2. CASE imageStates = <<>>
    <3>1. DOMAIN acquiredSwapchains = {}
      <4>1. DOMAIN imageStates = {}
        BY <2>2
      <4> QED
        BY <2>1, <4>1 DEF QueueInv
    <3>2. acquiredSwapchains = <<>>
      BY <3>1, EmptySeq DEF TypeOK
    <3>3. QueueInv'
      BY <1>1, <1>2, <2>1, <3>1 DEF QueueInv, Listed
    <3>4. \A i \in rtUsed : Acquiring(i) /\ Acquiring(i)'
      BY <1>1, <1>2, <2>1, <2>2 DEF StatesInv, Acquiring
    <3>5. StatesInv'
      BY <1>1, <1>3, <2>2, <3>1, <3>4 DEF StatesInv, Listed
    <3>6. WaitInv'
      BY <1>1, <1>2, <2>1, <3>2
         DEF WaitInv, WaitSettled, WaitUnderway, WaitIgnored, OneCall, OldestWaited
    <3> QED  BY <3>3, <3>5, <3>6
  <2>3. CASE imageStates # <<>>
    <3>1. UNCHANGED imageStates
      BY <1>1, <2>3
    <3>2. QueueInv'
      BY <1>1, <1>2, <2>1, <3>1 DEF QueueInv, Listed
    <3>3. StatesInv'
      BY <1>1, <1>2, <2>1, <3>1 DEF StatesInv, Listed, Acquiring
    <3>4. WaitInv'
      BY <1>1, <1>2, <2>1, <3>1
         DEF WaitInv, WaitSettled, WaitUnderway, WaitIgnored, OneCall, OldestWaited,
             Oldest
    <3> QED  BY <3>2, <3>3, <3>4
  <2> QED  BY <2>2, <2>3
<1>7. VerdictInv'
  <2>1. ~misbehaved => reports' = reports
    <3>1. ~misbehaved => index[t] # 0 /\ (isStatic => index[t] = 1)
                         /\ (imageStates # <<>> => Len(imageStates) = index[t])
      BY <1>1 DEF CountInv
    <3> QED
      BY <1>1, <3>1, CountAccepted
  <2>2. ASSUME misbehaved, ~corrupted, unrecorded = "none", reports' = {} PROVE FALSE
    <3>1. reports = {} /\ CountFailures(index[t]) = {} /\ ~conforming
      BY <1>1, <2>2 DEF VerdictInv
    <3>2. \A u \in Threads \ {t} : pc[u] = "idle"
      BY <1>1, <3>1 DEF NoRace
    <3>3. \A u \in Threads : ~Detected(u)
      BY <1>1, <3>1, <3>2 DEF Detected
    <3> QED
      BY <2>2, <3>1, <3>3 DEF VerdictInv
  <2>3. ~conforming => \A u \in Threads : pc'[u] = "idle"
    BY <1>1, <1>2 DEF NoRace
  <2> QED
    BY <1>1, <2>1, <2>2, <2>3 DEF VerdictInv
<1>8. CorruptedInv'
  BY <1>1, <1>2 DEF CorruptedInv
<1> QED
  BY <1>4, <1>5, <1>6, <1>7, <1>8

\* xrAcquireSwapchainImage in the runtime.
LEMMA AcquireInvariant ==
    ASSUME Serialised, IInv, TypeInv', NEW t \in Threads, NEW i \in Images,
           AcquireSwapchainImage(t, i)
    PROVE  IInv'
<1> DEFINE condition == (rtCount # 0 => i <= rtCount) /\ ~InRuntime(i) /\ (isStatic => i \notin rtUsed)
<1> USE DEF IInv, TypeInv
<1>1. /\ MayCall(t, "acquire") /\ ~corrupted /\ pc[t] = "idle" /\ (conforming \/ reports = {})
      /\ \A u \in Threads : pc[u] \in {"idle", "enumerate"}
  <2>1. MayCall(t, "acquire") /\ "acquire" \in Calls
    BY DEF AcquireSwapchainImage, Calls
  <2>2. \A u \in Threads : pc[u] \in (Calls \cup {"idle"}) \ Excluded("acquire")
    BY <2>1, Company
  <2> QED
    BY <2>1, <2>2, SMTT(10) DEF MayCall, Excluded, Calls
<1>2. /\ conforming => i <= IF isStatic THEN 1 ELSE Count
      /\ conforming => condition
      /\ misbehaved' = (misbehaved \/ ~condition)
      /\ rtHeld' = Append(rtHeld, i) /\ rtUsed' = rtUsed \cup {i}
      /\ UNCHANGED <<conforming, rtWaited, rtCount>>
  BY Zenon DEF AcquireSwapchainImage, Rule
<1>3. /\ pc' = [pc EXCEPT ![t] = "acquire"] /\ pc'[t] = "acquire" /\ index'[t] = i
      /\ \A u \in Threads \ {t} :
             pc'[u] = pc[u] /\ index'[u] = index[u] /\ result'[u] = result[u]
      /\ UNCHANGED <<isStatic, imageStates, acquiredSwapchains, corrupted, reports, unrecorded>>
  BY ForwardedFacts DEF AcquireSwapchainImage
<1>4. NoRace'
  BY <1>1, <1>2, <1>3, Entered DEF Calls
<1>5. CountInv'
  BY <1>1, <1>2, <1>3 DEF CountInv
<1>6. ~misbehaved => rtHeld = acquiredSwapchains /\ QueueInv /\ StatesInv /\ WaitInv
  BY <1>1 DEF OrderlyInv, QueueInv
<1>7. OrderlyInv'
  <2> SUFFICES ASSUME ~misbehaved', ~corrupted' PROVE QueueInv' /\ StatesInv' /\ WaitInv'
    BY DEF OrderlyInv
  <2>1. /\ ~misbehaved /\ QueueInv /\ StatesInv /\ WaitInv /\ rtHeld = acquiredSwapchains
        /\ ~Listed(i) /\ (isStatic => i \notin rtUsed)
    BY <1>2, <1>6 DEF InRuntime, Listed
  <2>2. QueueInv'
    BY <1>1, <1>2, <1>3, <2>1 DEF QueueInv, Listed
  <2>3. \A j \in Images : ~Acquiring(j) /\ (Acquiring(j)' <=> j = i)
    BY <1>1, <1>3 DEF Acquiring
  <2>4. DOMAIN imageStates \subseteq Nat
    BY DEF TypeOK
  <2>5. StatesInv'
    <3>1. \A n \in DOMAIN acquiredSwapchains :
              imageStates[acquiredSwapchains[n]] \in
                  IF n = 1 THEN {"Acquired", "Waited"} ELSE {"Acquired"}
      BY <2>1 DEF StatesInv
    <3>2. \A j \in DOMAIN imageStates : ~Listed(j) =>
              /\ imageStates[j] \in {"Created", "Released"}
              /\ j \notin rtUsed => imageStates[j] = "Created"
              /\ j \in rtUsed => imageStates[j] = "Released"
      BY <1>1, <2>1 DEF StatesInv, Acquiring
    <3>3. \A j : Listed(j)' <=> Listed(j)
      BY <1>3 DEF Listed
    <3>4. \A j : Acquiring(j)' <=> j = i
      BY <1>1, <1>3 DEF Acquiring
    <3>5. \A j \in rtUsed : j \in DOMAIN imageStates
      BY <1>1, <2>1 DEF StatesInv, Acquiring
    <3> QED
      BY <1>2, <1>3, <2>1, <3>1, <3>2, <3>3, <3>4, <3>5 DEF StatesInv
  <2>6. WaitInv'
    BY <1>1, <1>2, <1>3, <2>1
       DEF WaitInv, WaitSettled, WaitUnderway, WaitIgnored, OneCall, OldestWaited, Oldest
  <2> QED  BY <2>2, <2>5, <2>6
<1>8. VerdictInv'
  <2>1. conforming' => ~misbehaved'
    BY <1>2 DEF VerdictInv
  <2>2. ASSUME misbehaved', ~misbehaved PROVE Detected(t)'
    <3>1. ~condition /\ ~conforming
      BY <1>2, <2>2
    <3>2. \A u \in Threads : pc[u] = "idle"
      BY <1>1, <3>1, AloneIfNot
    <3>3. rtCount # 0 => imageStates # <<>> /\ Len(imageStates) = rtCount
      BY <2>2, <3>2 DEF CountInv
    <3>4. CASE rtCount # 0 /\ ~(i <= rtCount)
      <4>1. i > Len(imageStates)
        BY <3>3, <3>4 DEF Images, TypeOK
      <4> QED
        BY <1>3, <3>3, <3>4, <4>1 DEF Detected
    <3>5. CASE Listed(i)
      <4>1. i \in DOMAIN imageStates /\ imageStates[i] \in {"Acquired", "Waited"}
        BY <1>6, <2>2, <3>5 DEF QueueInv, StatesInv, Listed
      <4>2. imageStates # <<>> /\ AcquireFailures(imageStates[i]) # {}
        BY <4>1 DEF AcquireFailures, If
      <4> QED
        BY <1>3, <4>2 DEF Detected, AcquireFailures
    <3>6. CASE isStatic /\ i \in rtUsed /\ ~Listed(i)
      <4>1. i \in DOMAIN imageStates /\ imageStates[i] = "Released"
        BY <1>6, <2>2, <3>2, <3>6 DEF StatesInv, Acquiring
      <4>2. imageStates # <<>> /\ AcquireFailures(imageStates[i]) # {}
        BY <3>6, <4>1 DEF AcquireFailures, If
      <4> QED
        BY <1>3, <4>2 DEF Detected, AcquireFailures
    <3>7. InRuntime(i) => Listed(i)
      BY <1>6, <2>2 DEF InRuntime, Listed
    <3> QED
      BY <3>1, <3>4, <3>5, <3>6, <3>7
  <2>3. misbehaved' /\ unrecorded' = "none" /\ reports' = {} => \E u \in Threads : Detected(u)'
    <3>1. ASSUME misbehaved, unrecorded = "none", reports = {} PROVE FALSE
      BY <1>1, <3>1, AloneIfNot, NothingDetected DEF VerdictInv
    <3> QED
      BY <1>3, <2>2, <3>1
  <2>4. ~misbehaved' => ~misbehaved
    BY <1>2
  <2> QED
    BY <1>1, <1>2, <1>3, <2>1, <2>3, <2>4 DEF VerdictInv
<1>9. CorruptedInv'
  BY <1>1, <1>3 DEF CorruptedInv
<1> QED
  BY <1>4, <1>5, <1>7, <1>8, <1>9

\* xrWaitSwapchainImage in the runtime.
LEMMA WaitInvariant ==
    ASSUME Serialised, IInv, TypeInv', NEW t \in Threads, WaitSwapchainImage(t)
    PROVE  IInv'
<1> USE DEF IInv, TypeInv
<1>1. /\ MayCall(t, "wait") /\ ~corrupted /\ pc[t] = "idle" /\ (conforming \/ reports = {})
      /\ \A u \in Threads : pc[u] \in {"idle", "enumerate", "wait"}
  <2>1. MayCall(t, "wait") /\ "wait" \in Calls
    BY DEF WaitSwapchainImage, Calls
  <2>2. \A u \in Threads : pc[u] \in (Calls \cup {"idle"}) \ Excluded("wait")
    BY <2>1, Company
  <2> QED
    BY <2>1, <2>2, SMTT(10) DEF MayCall, Excluded, Calls
<1>2. PICK r \in Success \cup {"TIMEOUT_EXPIRED"} :
          /\ Forwarded(t, "wait", 0, r)
          /\ \/ r \in Success /\ Rule(rtHeld # <<>> /\ ~rtWaited) /\ rtWaited' = TRUE
             \/ r = "TIMEOUT_EXPIRED" /\ UNCHANGED <<conforming, rtWaited, misbehaved>>
  BY DEF WaitSwapchainImage
<1>3. UNCHANGED <<conforming, rtHeld, rtUsed, rtCount>> /\ (conforming => misbehaved' = misbehaved)
  BY <1>2, Zenon DEF WaitSwapchainImage, Rule, TypeOK
<1>4. /\ pc' = [pc EXCEPT ![t] = "wait"] /\ pc'[t] = "wait" /\ result'[t] = r
      /\ \A u \in Threads \ {t} :
             pc'[u] = pc[u] /\ index'[u] = index[u] /\ result'[u] = result[u]
      /\ UNCHANGED <<isStatic, imageStates, acquiredSwapchains, corrupted, reports, unrecorded>>
  BY <1>2, ForwardedFacts
<1>5. r \in Success =>
          /\ misbehaved' = (misbehaved \/ ~(rtHeld # <<>> /\ ~rtWaited))
          /\ rtWaited'
  BY <1>2, Zenon DEF Rule, Success
<1>6. r \notin Success => UNCHANGED <<rtWaited, misbehaved>>
  BY <1>2
<1>7. NoRace'
  BY <1>1, <1>3, <1>4, Entered DEF Calls
<1>8. misbehaved => misbehaved'
  BY <1>5, <1>6
<1>9. CountInv'
  BY <1>1, <1>3, <1>4, <1>8 DEF CountInv
<1>10. ~misbehaved =>
          /\ rtHeld = acquiredSwapchains /\ QueueInv /\ StatesInv /\ WaitInv
          /\ rtWaited => OldestWaited \/ \E u \in Threads : pc[u] = "wait"
          /\ ~rtWaited => ~OldestWaited
  BY <1>1, SMTT(10)
     DEF OrderlyInv, QueueInv, WaitInv, WaitSettled, WaitUnderway, WaitIgnored, OneCall
<1>11. OrderlyInv'
  <2> SUFFICES ASSUME ~misbehaved', ~corrupted' PROVE QueueInv' /\ StatesInv' /\ WaitInv'
    BY DEF OrderlyInv
  <2>1. /\ ~misbehaved /\ QueueInv /\ StatesInv /\ WaitInv /\ rtHeld = acquiredSwapchains
    BY <1>8, <1>10
  <2>2. QueueInv'
    BY <1>1, <1>3, <1>4, <2>1 DEF QueueInv, Listed
  <2>3. StatesInv'
    BY <1>1, <1>3, <1>4, <2>1 DEF StatesInv, Listed, Acquiring
  <2>4. OldestWaited' <=> OldestWaited
    BY <1>4 DEF OldestWaited, Oldest
  <2>5. CASE r \in Success
    <3>1. rtHeld # <<>> /\ ~rtWaited /\ rtWaited'
      BY <1>5, <2>5
    <3>2. \A u \in Threads : ~(pc[u] = "wait" /\ result[u] \in Success)
      BY <2>1, <3>1 DEF WaitInv, WaitSettled, WaitUnderway, WaitIgnored, OneCall
    <3>3. ~OldestWaited
      BY <1>10, <2>1, <3>1
    <3>4. acquiredSwapchains # <<>> /\ (unrecorded = "held" => imageStates[Oldest] # "Waited")
      BY <2>1, <3>1 DEF WaitInv, WaitSettled, WaitUnderway, WaitIgnored, OneCall
    <3>5. /\ \A u \in Threads : pc'[u] # "release"
          /\ \A u \in Threads : pc'[u] = "wait" /\ result'[u] \in Success => u = t
      BY <1>1, <1>4, <3>2
    <3>6. WaitIgnored'
      BY <1>4, <3>4 DEF WaitIgnored, Oldest
    <3>7. WaitSettled'
      BY <1>4, <2>5 DEF WaitSettled
    <3>8. WaitUnderway'
      BY <1>4, <2>4, <3>1, <3>3, <3>4, <3>5 DEF WaitUnderway
    <3>9. OneCall'
      BY <3>5 DEF OneCall
    <3> QED
      BY <2>2, <2>3, <3>6, <3>7, <3>8, <3>9 DEF WaitInv
  <2>6. CASE r \notin Success
    <3>1. UNCHANGED rtWaited
      BY <1>6, <2>6
    <3>2. /\ \A u \in Threads : pc[u] # "release" /\ pc'[u] # "release"
          /\ \A u \in Threads : (pc'[u] = "wait" /\ result'[u] \in Success) <=>
                                (pc[u] = "wait" /\ result[u] \in Success)
      BY <1>1, <1>4, <2>6
    <3>3. unrecorded = "held" => acquiredSwapchains # <<>> /\ imageStates[Oldest] # "Waited"
      BY <2>1 DEF WaitInv, WaitSettled, WaitUnderway, WaitIgnored, OneCall
    <3>4. rtWaited <=> OldestWaited \/ \E u \in Threads : pc[u] = "wait" /\ result[u] \in Success
      BY <2>1, <3>2 DEF WaitInv, WaitSettled, WaitUnderway, WaitIgnored, OneCall
    <3>5. \A u \in Threads : pc[u] = "wait" /\ result[u] \in Success =>
              rtWaited /\ acquiredSwapchains # <<>> /\ ~OldestWaited
      BY <2>1 DEF WaitInv, WaitSettled, WaitUnderway, WaitIgnored, OneCall
    <3>6. \A u, v \in Threads : u # v /\ pc[u] = "wait" /\ pc[v] = "wait" =>
              ~(result[u] \in Success /\ result[v] \in Success)
      BY <2>1 DEF WaitInv, WaitSettled, WaitUnderway, WaitIgnored, OneCall
    <3>7. WaitIgnored'
      BY <1>4, <3>3 DEF WaitIgnored, Oldest
    <3>8. WaitSettled'
      BY <2>4, <3>1, <3>2, <3>4 DEF WaitSettled
    <3>9. WaitUnderway'
      BY <1>4, <2>4, <3>1, <3>2, <3>5 DEF WaitUnderway
    <3>10. OneCall'
      BY <3>2, <3>6 DEF OneCall
    <3> QED
      BY <2>2, <2>3, <3>7, <3>8, <3>9, <3>10 DEF WaitInv
  <2> QED  BY <2>2, <2>3, <2>5, <2>6
<1>12. VerdictInv'
  <2>1. conforming' => ~misbehaved'
    BY <1>3 DEF VerdictInv
  <2>2. ASSUME misbehaved', ~misbehaved, unrecorded = "none" PROVE Detected(t)'
    <3>1. r \in Success /\ ~(rtHeld # <<>> /\ ~rtWaited) /\ ~conforming
      BY <1>3, <1>5, <1>6, <2>2
    <3>2. \A u \in Threads : pc[u] = "idle"
      BY <1>1, <3>1, AloneIfNot
    <3>3. acquiredSwapchains = <<>> \/ imageStates[Oldest] # "Acquired"
      BY <1>10, <2>2, <3>1, <3>2 DEF OldestWaited
    <3> QED
      BY <1>4, <3>1, <3>3 DEF Detected, Oldest
  <2>3. misbehaved' /\ unrecorded' = "none" /\ reports' = {} => \E u \in Threads : Detected(u)'
    <3>1. ASSUME misbehaved, unrecorded = "none", reports = {} PROVE FALSE
      BY <1>1, <3>1, AloneIfNot, NothingDetected DEF VerdictInv
    <3> QED
      BY <1>4, <2>2, <3>1
  <2> QED
    BY <1>1, <1>3, <1>4, <1>8, <2>1, <2>3 DEF VerdictInv
<1>13. CorruptedInv'
  BY <1>1, <1>4 DEF CorruptedInv
<1> QED
  BY <1>7, <1>9, <1>11, <1>12, <1>13

\* xrReleaseSwapchainImage in the runtime.
LEMMA ReleaseInvariant ==
    ASSUME Serialised, IInv, TypeInv', NEW t \in Threads, ReleaseSwapchainImage(t)
    PROVE  IInv'
<1> USE DEF IInv, TypeInv
<1>1. /\ MayCall(t, "release") /\ ~corrupted /\ pc[t] = "idle" /\ (conforming \/ reports = {})
      /\ \A u \in Threads : pc[u] \in {"idle", "enumerate", "release"}
  <2>1. MayCall(t, "release") /\ "release" \in Calls
    BY DEF ReleaseSwapchainImage, Calls
  <2>2. \A u \in Threads : pc[u] \in (Calls \cup {"idle"}) \ Excluded("release")
    BY <2>1, Company
  <2> QED
    BY <2>1, <2>2, SMTT(10) DEF MayCall, Excluded, Calls
<1>2. PICK r \in Success : Forwarded(t, "release", 0, r)
  BY DEF ReleaseSwapchainImage
<1>3. /\ conforming => rtWaited
      /\ misbehaved' = (misbehaved \/ ~rtWaited) /\ ~rtWaited'
      /\ rtHeld' = IF rtHeld = <<>> THEN <<>> ELSE Tail(rtHeld)
      /\ UNCHANGED <<conforming, rtUsed, rtCount>>
  BY Zenon DEF ReleaseSwapchainImage, Rule
<1>4. /\ pc' = [pc EXCEPT ![t] = "release"] /\ pc'[t] = "release"
      /\ \A u \in Threads \ {t} :
             pc'[u] = pc[u] /\ index'[u] = index[u] /\ result'[u] = result[u]
      /\ UNCHANGED <<isStatic, imageStates, acquiredSwapchains, corrupted, reports, unrecorded>>
  BY <1>2, ForwardedFacts
<1>5. NoRace'
  BY <1>1, <1>3, <1>4, Entered DEF Calls
<1>6. CountInv'
  BY <1>1, <1>3, <1>4 DEF CountInv
<1>7. ~misbehaved =>
          /\ QueueInv /\ StatesInv /\ WaitInv
          /\ rtWaited => OldestWaited /\ \A u \in Threads : pc[u] # "release"
  BY <1>1, SMTT(10)
     DEF OrderlyInv, QueueInv, WaitInv, WaitSettled, WaitUnderway, WaitIgnored, OneCall
<1>8. OrderlyInv'
  <2> SUFFICES ASSUME ~misbehaved', ~corrupted' PROVE QueueInv' /\ StatesInv' /\ WaitInv'
    BY DEF OrderlyInv
  <2>1. /\ ~misbehaved /\ QueueInv /\ StatesInv /\ WaitInv /\ OldestWaited /\ rtWaited
        /\ \A u \in Threads : pc[u] \in {"idle", "enumerate"}
    BY <1>1, <1>3, <1>7
  <2>2. rtHeld = acquiredSwapchains /\ acquiredSwapchains # <<>>
    BY <2>1 DEF QueueInv, OldestWaited
  <2>3. QueueInv'
    BY <1>3, <1>4, <2>1, <2>2 DEF QueueInv, Listed
  <2>4. StatesInv'
    BY <1>3, <1>4, <2>1 DEF StatesInv, Listed, Acquiring
  <2>5. WaitInv'
    BY <1>3, <1>4, <2>1
       DEF WaitInv, WaitSettled, WaitUnderway, WaitIgnored, OneCall, OldestWaited, Oldest
  <2> QED  BY <2>3, <2>4, <2>5
<1>9. VerdictInv'
  <2>1. conforming' => ~misbehaved'
    BY <1>3 DEF VerdictInv
  <2>2. ASSUME misbehaved', ~misbehaved PROVE Detected(t)'
    <3>1. ~rtWaited /\ ~conforming
      BY <1>3, <2>2
    <3>2. \A u \in Threads : pc[u] = "idle"
      BY <1>1, <3>1, AloneIfNot
    <3>3. ~OldestWaited
      BY <1>7, <2>2, <3>1, <3>2
         DEF WaitInv, WaitSettled, WaitUnderway, WaitIgnored, OneCall
    <3> QED
      BY <1>4, <3>3 DEF Detected, OldestWaited, Oldest
  <2>3. misbehaved' /\ unrecorded' = "none" /\ reports' = {} => \E u \in Threads : Detected(u)'
    <3>1. ASSUME misbehaved, unrecorded = "none", reports = {} PROVE FALSE
      BY <1>1, <3>1, AloneIfNot, NothingDetected DEF VerdictInv
    <3> QED
      BY <1>4, <2>2, <3>1
  <2>4. misbehaved => misbehaved'
    BY <1>3
  <2> QED
    BY <1>1, <1>3, <1>4, <2>1, <2>3, <2>4 DEF VerdictInv
<1>10. CorruptedInv'
  BY <1>1, <1>4 DEF CorruptedInv
<1> QED
  BY <1>5, <1>6, <1>8, <1>9, <1>10

-----------------------------------------------------------------------------
(* The hook of xrAcquireSwapchainImage.                                    *)

\* While the hook of an acquire is outstanding nothing but enumerations go on
\* beside it, and the layer's vector has not been left.
LEMMA AcquireAlone ==
    ASSUME IInv, NEW t \in Threads, pc[t] = "acquire"
    PROVE  /\ ~corrupted
           /\ \A u \in Threads \ {t} : pc[u] \in {"idle", "enumerate"}
           /\ ~conforming => \A u \in Threads \ {t} : pc[u] = "idle"
<1> USE DEF IInv, TypeInv
<1>1. ~corrupted
  BY DEF CorruptedInv
<1>2. \A u \in Threads \ {t} : pc[u] \notin Excluded("acquire")
  <2>1. \A u \in Threads \ {t} : pc[u] \notin Excluded(pc[t])
    BY DEF NoRace
  <2> QED
    BY <2>1, Zenon
<1>3. \A u \in Threads \ {t} : pc[u] \in {"idle", "enumerate"}
  <2>1. Excluded("acquire") = {"acquire", "wait", "release"}
    BY Zenon DEF Excluded
  <2>2. \A u \in Threads \ {t} : pc[u] \notin {"acquire", "wait", "release"}
    BY <1>2, <2>1, Zenon
  <2> QED
    BY <2>2 DEF TypeOK, Calls
<1> QED
  BY <1>1, <1>3 DEF NoRace

\* What the hook of an acquire does to the image states it found or set up.
LEMMA RecordFacts ==
    ASSUME TypeOK, NEW t \in Threads, NEW states \in Seq(ImageStates), NEW failures,
           RecordAcquired(t, states, failures)
    PROVE  /\ pc' = [pc EXCEPT ![t] = "idle"] /\ pc'[t] = "idle"
           /\ \A u \in Threads \ {t} :
                  pc'[u] = pc[u] /\ index'[u] = index[u] /\ result'[u] = result[u]
           /\ UNCHANGED <<isStatic, unrecorded>>
           /\ Len(imageStates') = Len(states)
           /\ failures \subseteq reports' /\ reports \subseteq reports'
           /\ index[t] > Len(states) =>
                  /\ corrupted' /\ imageStates' = states /\ reports' = reports \cup failures
                  /\ UNCHANGED acquiredSwapchains
           /\ ~(index[t] > Len(states)) =>
                  /\ imageStates' = [states EXCEPT ![index[t]] = "Acquired"]
                  /\ reports' = reports \cup (failures \cup AcquireFailures(states[index[t]]))
                  /\ acquiredSwapchains' = Append(acquiredSwapchains, index[t])
                  /\ UNCHANGED corrupted
<1>1. Return(t) /\ UNCHANGED <<isStatic, unrecorded>>
  BY DEF RecordAcquired
<1>2. ASSUME index[t] > Len(states)
      PROVE  /\ corrupted' /\ imageStates' = states /\ reports' = reports \cup failures
             /\ UNCHANGED acquiredSwapchains
  BY <1>2, Zenon DEF RecordAcquired, Report
<1>3. ASSUME ~(index[t] > Len(states))
      PROVE  /\ imageStates' = [states EXCEPT ![index[t]] = "Acquired"]
             /\ reports' = reports \cup (failures \cup AcquireFailures(states[index[t]]))
             /\ acquiredSwapchains' = Append(acquiredSwapchains, index[t])
             /\ UNCHANGED corrupted
  BY <1>3, Zenon DEF RecordAcquired, Report, Push
<1>4. Len(imageStates') = Len(states)
  <2>1. "Acquired" \in ImageStates
    BY DEF ImageStates
  <2> QED
    BY <1>2, <1>3, <2>1, StateSet
<1>5. failures \subseteq reports' /\ reports \subseteq reports'
  BY <1>2, <1>3
<1> QED
  BY <1>1, <1>2, <1>3, <1>4, <1>5, ReturnFacts

\* An acquire recorded within the vector makes the queues and states agree again.
LEMMA RecordOrderly ==
    ASSUME IInv, NEW t \in Threads, pc[t] = "acquire", ~misbehaved,
           NEW states \in Seq(ImageStates), NEW failures, RecordAcquired(t, states, failures),
           index[t] <= Len(states), UNCHANGED <<rtHeld, rtWaited, rtUsed>>,
           \/ states = imageStates
           \/ imageStates = <<>> /\ \A j \in DOMAIN states : states[j] = "Created"
    PROVE  /\ QueueInv' /\ StatesInv' /\ WaitInv'
           /\ AcquireFailures(states[index[t]]) = {}
<1> USE DEF IInv, TypeInv
<1> DEFINE i == index[t]
<1>1. /\ i \in Images /\ i \in 1..Len(states) /\ DOMAIN states = 1..Len(states)
      /\ DOMAIN imageStates = 1..Len(imageStates)
      /\ acquiredSwapchains \in Seq(Images) /\ imageStates \in Seq(ImageStates)
  BY ConstantsAssumption, LenProperties DEF CallInv, TypeOK, Images
<1>2. /\ QueueInv /\ StatesInv /\ WaitInv
      /\ \A u \in Threads \ {t} : pc[u] \in {"idle", "enumerate"}
  BY AcquireAlone DEF OrderlyInv
<1>3. /\ ~Listed(i) /\ i \in rtUsed /\ rtHeld = Append(acquiredSwapchains, i)
  BY <1>2 DEF QueueInv
<1>4. /\ \A u \in Threads : pc'[u] \in {"idle", "enumerate"}
      /\ UNCHANGED <<isStatic, unrecorded>>
      /\ imageStates' = [states EXCEPT ![i] = "Acquired"]
      /\ acquiredSwapchains' = Append(acquiredSwapchains, i)
  <2>1. ~(i > Len(states))
    BY <1>1
  <2>2. /\ pc'[t] = "idle" /\ \A u \in Threads \ {t} : pc'[u] = pc[u]
        /\ UNCHANGED <<isStatic, unrecorded>>
        /\ imageStates' = [states EXCEPT ![i] = "Acquired"]
        /\ acquiredSwapchains' = Append(acquiredSwapchains, i)
    BY <2>1, RecordFacts
  <2> QED
    BY <1>2, <2>2
<1>5. /\ DOMAIN imageStates' = DOMAIN states
      /\ \A j \in DOMAIN states : imageStates'[j] = IF j = i THEN "Acquired" ELSE states[j]
  BY <1>1, <1>4, StateSet DEF ImageStates
<1>6. /\ Len(acquiredSwapchains') = Len(acquiredSwapchains) + 1
      /\ DOMAIN acquiredSwapchains' = 1..Len(acquiredSwapchains) + 1
      /\ DOMAIN acquiredSwapchains = 1..Len(acquiredSwapchains)
      /\ \A n \in DOMAIN acquiredSwapchains : acquiredSwapchains'[n] = acquiredSwapchains[n]
      /\ acquiredSwapchains'[Len(acquiredSwapchains) + 1] = i
      /\ Len(acquiredSwapchains) \in Nat
  BY <1>1, <1>4, AppendProperties, LenProperties
<1>7. imageStates = <<>> => acquiredSwapchains = <<>> /\ DOMAIN imageStates = {}
  BY <1>1, <1>2, EmptySeq DEF QueueInv
<1>8. /\ \A n \in DOMAIN acquiredSwapchains :
             /\ acquiredSwapchains[n] \in DOMAIN states /\ acquiredSwapchains[n] # i
             /\ states[acquiredSwapchains[n]] = imageStates[acquiredSwapchains[n]]
  BY <1>2, <1>3, <1>7 DEF QueueInv, Listed
<1>9. \A j : Acquiring(j) <=> j = i
  BY <1>2 DEF Acquiring
<1>10. \A j : ~Acquiring(j)'
  BY <1>4 DEF Acquiring
<1>11. \A j : Listed(j)' <=> Listed(j) \/ j = i
  BY <1>6 DEF Listed
<1>12. \A j \in DOMAIN states : ~Listed(j) =>
           /\ states[j] \in {"Created", "Released"}
           /\ j \notin rtUsed \/ (j = i /\ isStatic) => states[j] = "Created"
           /\ j \in rtUsed /\ j # i => states[j] = "Released"
  BY <1>2, <1>7, <1>9 DEF StatesInv
<1>13. QueueInv'
  <2>1. rtHeld' = acquiredSwapchains'
    BY <1>3, <1>4
  <2>2. \A m, n \in DOMAIN acquiredSwapchains' :
            acquiredSwapchains'[m] = acquiredSwapchains'[n] => m = n
    BY <1>2, <1>6, <1>8 DEF QueueInv
  <2>3. \A n \in DOMAIN acquiredSwapchains' :
            acquiredSwapchains'[n] \in DOMAIN imageStates' \cap rtUsed'
    <3>1. \A n \in DOMAIN acquiredSwapchains : acquiredSwapchains[n] \in rtUsed
      BY <1>2 DEF QueueInv
    <3>2. rtUsed' = rtUsed
      OBVIOUS
    <3> QED
      BY <1>1, <1>3, <1>5, <1>6, <1>8, <3>1, <3>2
  <2> QED
    BY <1>4, <2>1, <2>2, <2>3 DEF QueueInv
<1>14. StatesInv'
  <2>1. \A n \in DOMAIN acquiredSwapchains' :
            imageStates'[acquiredSwapchains'[n]] \in
                IF n = 1 THEN {"Acquired", "Waited"} ELSE {"Acquired"}
    BY <1>1, <1>2, <1>5, <1>6, <1>8 DEF StatesInv
  <2>2. \A j \in rtUsed : j \in DOMAIN states
    BY <1>1, <1>2, <1>7, <1>9 DEF StatesInv
  <2> QED
    BY <1>4, <1>5, <1>10, <1>11, <1>12, <2>1, <2>2 DEF StatesInv
<1>15. WaitInv'
  <2>1. rtWaited <=> OldestWaited
    BY <1>2 DEF WaitInv, WaitSettled
  <2>2. CASE acquiredSwapchains = <<>>
    <3>1. ~OldestWaited /\ unrecorded # "held"
      BY <1>2, <2>2 DEF OldestWaited, WaitInv, WaitIgnored
    <3>2. acquiredSwapchains' # <<>> /\ Head(acquiredSwapchains') = i
      BY <1>1, <1>4, <1>6, <2>2
    <3>3. imageStates'[i] = "Acquired"
      BY <1>1, <1>5
    <3> QED
      BY <1>4, <2>1, <3>1, <3>2, <3>3
         DEF WaitInv, WaitSettled, WaitUnderway, WaitIgnored, OneCall, OldestWaited, Oldest
  <2>3. CASE acquiredSwapchains # <<>>
    <3>1. 1 \in DOMAIN acquiredSwapchains /\ Head(acquiredSwapchains) = acquiredSwapchains[1]
      BY <1>1, <1>6, <2>3, EmptySeq
    <3>2. /\ acquiredSwapchains' # <<>> /\ Head(acquiredSwapchains') = Head(acquiredSwapchains)
      BY <1>1, <1>4, <1>6, <3>1
    <3>3. imageStates'[Oldest'] = imageStates[Oldest]
      BY <1>5, <1>8, <3>1, <3>2 DEF Oldest
    <3> QED
      BY <1>2, <1>4, <2>1, <2>3, <3>2, <3>3
         DEF WaitInv, WaitSettled, WaitUnderway, WaitIgnored, OneCall, OldestWaited
  <2> QED  BY <2>2, <2>3
<1>16. AcquireFailures(states[i]) = {}
  <2>1. states[i] \in {"Created", "Released"} /\ (isStatic => states[i] = "Created")
    BY <1>1, <1>3, <1>12
  <2> QED
    BY <2>1 DEF AcquireFailures, If
<1> QED
  BY <1>13, <1>14, <1>15, <1>16

\* The hook of xrAcquireSwapchainImage, with the images already enumerated.
LEMMA AcquiredInvariant ==
    ASSUME Serialised, IInv, TypeInv', NEW t \in Threads, ImageAcquired(t)
    PROVE  IInv'
<1> USE DEF IInv, TypeInv
<1> DEFINE failures == If(index[t] > Len(imageStates), "outOfBounds")
<1>1. /\ pc[t] = "acquire" /\ imageStates # <<>>
      /\ RecordAcquired(t, imageStates, failures)
      /\ UNCHANGED <<conforming, rtHeld, rtWaited, rtUsed, rtCount, misbehaved>>
  BY DEF ImageAcquired, runtimeVars
<1>2. /\ ~corrupted
      /\ \A u \in Threads \ {t} : pc[u] \in {"idle", "enumerate"}
      /\ ~conforming => \A u \in Threads \ {t} : pc[u] = "idle"
  BY <1>1, AcquireAlone
<1>3. /\ index[t] \in Nat /\ Len(imageStates) \in Nat \ {0} /\ imageStates \in Seq(ImageStates)
  BY <1>1, ConstantsAssumption, EmptySeq DEF CallInv, TypeOK, Images
<1> HIDE DEF failures
<1>4. /\ pc' = [pc EXCEPT ![t] = "idle"] /\ pc'[t] = "idle"
      /\ \A u \in Threads \ {t} :
             pc'[u] = pc[u] /\ index'[u] = index[u] /\ result'[u] = result[u]
      /\ UNCHANGED <<isStatic, unrecorded>>
      /\ Len(imageStates') = Len(imageStates)
      /\ failures \subseteq reports' /\ reports \subseteq reports'
      /\ index[t] > Len(imageStates) => corrupted'
      /\ ~(index[t] > Len(imageStates)) =>
             reports' = reports \cup (failures \cup AcquireFailures(imageStates[index[t]]))
  BY <1>1, <1>3, RecordFacts
<1>5. ~misbehaved => index[t] <= Len(imageStates)
  BY <1>1, <1>3 DEF CountInv
<1>6. ~misbehaved => QueueInv' /\ StatesInv' /\ WaitInv' /\ AcquireFailures(imageStates[index[t]]) = {}
  BY <1>1, <1>3, <1>5, RecordOrderly
<1>7. NoRace'
  BY <1>1, <1>4, Left
<1>8. CountInv'
  <2>1. imageStates' # <<>>
    BY <1>3, <1>4
  <2> QED
    BY <1>1, <1>4, <2>1 DEF CountInv
<1>9. OrderlyInv'
  BY <1>1, <1>6 DEF OrderlyInv
<1>10. VerdictInv'
  <2>1. ASSUME ~misbehaved PROVE reports' = reports
    <3>1. ~(index[t] > Len(imageStates))
      BY <1>3, <1>5, <2>1
    <3>2. failures = {}
      BY <3>1, Zenon DEF failures, If
    <3> QED
      BY <1>4, <1>6, <2>1, <3>1, <3>2
  <2>2. ASSUME misbehaved, ~corrupted', unrecorded = "none", reports' = {} PROVE FALSE
    <3>1. reports = {} /\ ~conforming
      BY <1>4, <2>2 DEF VerdictInv
    <3>2. PICK u \in Threads : Detected(u)
      BY <1>2, <2>2, <3>1 DEF VerdictInv
    <3>3. u = t
      BY <1>2, <3>1, <3>2 DEF Detected
    <3>4. AcquireFailures(imageStates[index[t]]) # {}
      BY <1>1, <1>4, <2>2, <3>2, <3>3 DEF Detected
    <3> QED
      BY <1>4, <2>2, <3>4
  <2>3. ~conforming => \A u \in Threads : pc'[u] = "idle"
    BY <1>2, <1>4
  <2> QED
    BY <1>1, <1>4, <2>1, <2>2, <2>3 DEF VerdictInv
<1>11. CorruptedInv'
  <2>1. ASSUME corrupted' PROVE misbehaved
    <3>1. index[t] > Len(imageStates)
      BY <1>1, <1>2, <1>3, <2>1, RecordFacts
    <3> QED
      BY <1>3, <1>5, <3>1
  <2> QED
    BY <1>1, <1>2, <1>4, <2>1 DEF CorruptedInv, VerdictInv
<1> QED
  BY <1>7, <1>8, <1>9, <1>10, <1>11

\* The same, with the images enumerated by the hook.
LEMMA FirstAcquiredInvariant ==
    ASSUME Serialised, IInv, TypeInv', NEW t \in Threads, NEW n \in 0..Count + 1,
           FirstImageAcquired(t, n)
    PROVE  IInv'
<1> USE DEF IInv, TypeInv
<1> DEFINE condition == n > 0 /\ (isStatic => n = 1) /\ rtCount \in {0, n} /\ index[t] <= n
<1> HIDE DEF condition
<1>1. /\ pc[t] = "acquire" /\ imageStates = <<>>
      /\ RecordAcquired(t, Created(n), CountFailures(n))
      /\ conforming => n = IF isStatic THEN 1 ELSE Count
      /\ conforming => condition
      /\ misbehaved' = (misbehaved \/ ~condition)
      /\ rtCount' = IF rtCount = 0 THEN n ELSE rtCount
      /\ UNCHANGED <<conforming, rtHeld, rtWaited, rtUsed>>
  BY Zenon DEF FirstImageAcquired, Announce, Rule, condition
<1>2. /\ ~corrupted
      /\ \A u \in Threads \ {t} : pc[u] \in {"idle", "enumerate"}
      /\ ~conforming => \A u \in Threads \ {t} : pc[u] = "idle"
  BY <1>1, AcquireAlone
<1>3. /\ n \in Nat /\ index[t] \in Nat \ {0}
      /\ Created(n) \in Seq(ImageStates) /\ Len(Created(n)) = n
      /\ DOMAIN Created(n) = 1..n /\ \A i \in 1..n : Created(n)[i] = "Created"
  <2>1. n \in Nat /\ index[t] \in Nat \ {0}
    BY <1>1, ConstantsAssumption DEF CallInv, Images
  <2> QED
    BY <2>1, CreatedStates
<1>4. /\ pc' = [pc EXCEPT ![t] = "idle"] /\ pc'[t] = "idle"
      /\ \A u \in Threads \ {t} :
             pc'[u] = pc[u] /\ index'[u] = index[u] /\ result'[u] = result[u]
      /\ UNCHANGED <<isStatic, unrecorded>>
      /\ Len(imageStates') = n
      /\ CountFailures(n) \subseteq reports' /\ reports \subseteq reports'
      /\ index[t] > n => corrupted'
      /\ ~(index[t] > n) =>
             /\ reports' = reports \cup (CountFailures(n) \cup AcquireFailures(Created(n)[index[t]]))
             /\ UNCHANGED corrupted
  BY <1>1, <1>3, RecordFacts
<1>5. ASSUME ~misbehaved'
      PROVE  /\ ~misbehaved /\ n \in Nat \ {0} /\ (isStatic => n = 1)
             /\ rtCount \in {0, n} /\ rtCount' = n /\ index[t] <= n
  <2>1. ~misbehaved /\ condition /\ rtCount' = IF rtCount = 0 THEN n ELSE rtCount
    BY <1>1, <1>5, Zenon
  <2> QED
    BY <1>3, <2>1 DEF condition
<1>6. ~misbehaved' =>
          QueueInv' /\ StatesInv' /\ WaitInv' /\ AcquireFailures(Created(n)[index[t]]) = {}
  BY <1>1, <1>3, <1>5, RecordOrderly
<1>7. NoRace'
  BY <1>1, <1>4, Left
<1>8. CountInv'
  <2> SUFFICES ASSUME ~misbehaved' PROVE CountInv'
    BY DEF CountInv
  <2>1. \A u \in Threads \ {t} : pc[u] = "enumerate" => index[u] = n
    BY <1>5 DEF CountInv
  <2>2. imageStates' # <<>>
    BY <1>4, <1>5
  <2> QED
    BY <1>1, <1>2, <1>4, <1>5, <2>1, <2>2 DEF CountInv
<1>9. OrderlyInv'
  BY <1>6 DEF OrderlyInv
<1>10. VerdictInv'
  <2>1. ASSUME ~misbehaved' PROVE reports' = reports
    <3>1. CountFailures(n) = {}
      BY <1>1, <1>5, <2>1, CountAccepted
    <3>2. ~(index[t] > n)
      BY <1>3, <1>5, <2>1
    <3> QED
      BY <1>4, <1>6, <2>1, <3>1, <3>2
  <2>2. ASSUME misbehaved', ~corrupted', unrecorded = "none", reports' = {} PROVE FALSE
    <3>0. conforming => ~misbehaved'
      BY <1>1, Zenon DEF VerdictInv
    <3>1. reports = {} /\ CountFailures(n) = {} /\ index[t] <= n /\ ~conforming
      BY <1>3, <1>4, <2>2, <3>0
    <3>2. \A u \in Threads \ {t} : pc[u] = "idle"
      BY <1>2, <3>1
    <3>3. n # 0 /\ (isStatic => n = 1)
      BY <3>1, CountReported
    <3>4. ~misbehaved
      <4>1. \A u \in Threads : ~Detected(u)
        BY <1>1, <3>2 DEF Detected
      <4> QED
        BY <1>2, <2>2, <3>1, <4>1 DEF VerdictInv
    <3>5. rtCount = 0
      BY <1>1, <3>2, <3>4 DEF CountInv
    <3>6. condition
      BY <1>3, <3>1, <3>3, <3>5 DEF condition
    <3> QED
      BY <1>1, <2>2, <3>4, <3>6, Zenon
  <2>3. ~conforming => \A u \in Threads : pc'[u] = "idle"
    BY <1>2, <1>4
  <2>4. conforming => ~misbehaved'
    BY <1>1 DEF VerdictInv
  <2>5. ~misbehaved' => ~misbehaved
    BY <1>1
  <2> QED
    BY <1>1, <1>4, <2>1, <2>2, <2>3, <2>4, <2>5 DEF VerdictInv
<1>11. CorruptedInv'
  <2>1. ASSUME corrupted' PROVE misbehaved' /\ ~conforming
    <3>1. index[t] > n
      BY <1>2, <1>3, <1>4, <2>1
    <3>2. ~condition
      BY <1>3, <3>1 DEF condition
    <3> QED
      BY <1>1, <3>2, Zenon
  <2> QED
    BY <1>1, <1>2, <1>4, <2>1 DEF CorruptedInv
<1> QED
  BY <1>7, <1>8, <1>9, <1>10, <1>11

\* The same, with that enumeration failing.
LEMMA UnenumeratedInvariant ==
    ASSUME Serialised, IInv, TypeInv', NEW t \in Threads, FirstImageAcquiredUnenumerated(t)
    PROVE  IInv'
<1> USE DEF IInv, TypeInv
<1>1. /\ pc[t] = "acquire" /\ imageStates = <<>>
      /\ RecordAcquired(t, <<>>, {"enumerateFailed"})
      /\ UNCHANGED <<conforming, rtHeld, rtWaited, rtUsed, rtCount, misbehaved>>
  BY DEF FirstImageAcquiredUnenumerated, runtimeVars
<1>2. /\ ~corrupted
      /\ \A u \in Threads \ {t} : pc[u] \in {"idle", "enumerate"}
      /\ ~conforming => \A u \in Threads \ {t} : pc[u] = "idle"
  BY <1>1, AcquireAlone
<1>3. index[t] > Len(<<>>) /\ <<>> \in Seq(ImageStates)
  BY <1>1, EmptySeq, ConstantsAssumption DEF CallInv, Images
<1>4. /\ pc' = [pc EXCEPT ![t] = "idle"] /\ pc'[t] = "idle"
      /\ \A u \in Threads \ {t} :
             pc'[u] = pc[u] /\ index'[u] = index[u] /\ result'[u] = result[u]
      /\ UNCHANGED <<isStatic, unrecorded, acquiredSwapchains>>
      /\ corrupted' /\ imageStates' = <<>> /\ reports' = reports \cup {"enumerateFailed"}
  BY <1>1, <1>3, RecordFacts
<1>5. NoRace'
  BY <1>1, <1>4, Left
<1>6. CountInv'
  BY <1>1, <1>4 DEF CountInv
<1>7. OrderlyInv'
  BY <1>4 DEF OrderlyInv
<1>8. VerdictInv'
  <2>1. ~conforming => \A u \in Threads : pc'[u] = "idle"
    BY <1>2, <1>4
  <2> QED
    BY <1>1, <1>4, <2>1 DEF VerdictInv
<1>9. CorruptedInv'
  <2>1. conforming => acquiredSwapchains = <<>>
    <3>1. ASSUME conforming PROVE QueueInv
      BY <1>2, <3>1 DEF VerdictInv, OrderlyInv
    <3>2. DOMAIN imageStates = {}
      BY <1>1
    <3>3. conforming => DOMAIN acquiredSwapchains = {}
      BY <3>1, <3>2 DEF QueueInv
    <3> QED
      BY <3>3, EmptySeq DEF TypeOK
  <2> QED
    BY <1>1, <1>2, <1>4, <2>1 DEF CorruptedInv
<1> QED
  BY <1>5, <1>6, <1>7, <1>8, <1>9

-----------------------------------------------------------------------------
(* The hooks of xrWaitSwapchainImage and xrReleaseSwapchainImage.          *)

\* While the hook of a wait or a release is outstanding, the calls that change the
\* queue are not in progress beside it, nor is another of its kind that succeeded.
LEMMA WaitAlone ==
    ASSUME IInv, NEW t \in Threads, pc[t] = "wait"
    PROVE  /\ ~corrupted /\ result[t] \in Success \cup {"TIMEOUT_EXPIRED"}
           /\ \A u \in Threads \ {t} : pc[u] \notin {"acquire", "release"}
           /\ ~conforming => \A u \in Threads \ {t} : pc[u] = "idle"
           /\ ~misbehaved /\ result[t] \in Success =>
                  \A u \in Threads \ {t} : ~(pc[u] = "wait" /\ result[u] \in Success)
<1> USE DEF IInv, TypeInv
<1>1. ~corrupted /\ result[t] \in Success \cup {"TIMEOUT_EXPIRED"}
  BY DEF CorruptedInv, CallInv
<1>2. Excluded("wait") = {"acquire", "release"}
  BY Zenon DEF Excluded
<1>3. \A u \in Threads \ {t} : pc[u] \notin Excluded(pc[t])
  BY DEF NoRace
<1>4. \A u \in Threads \ {t} : pc[u] \notin {"acquire", "release"}
  BY <1>2, <1>3, Zenon
<1>5. ~conforming => \A u \in Threads \ {t} : pc[u] = "idle"
  BY DEF NoRace
<1>6. ~misbehaved /\ result[t] \in Success =>
          \A u \in Threads \ {t} : ~(pc[u] = "wait" /\ result[u] \in Success)
  BY <1>1 DEF OrderlyInv, WaitInv, OneCall
<1> QED
  BY <1>1, <1>4, <1>5, <1>6

LEMMA ReleaseAlone ==
    ASSUME IInv, NEW t \in Threads, pc[t] = "release"
    PROVE  /\ ~corrupted
           /\ \A u \in Threads \ {t} : pc[u] \notin {"acquire", "wait"}
           /\ ~conforming => \A u \in Threads \ {t} : pc[u] = "idle"
           /\ ~misbehaved => \A u \in Threads \ {t} : pc[u] \in {"idle", "enumerate"}
<1> USE DEF IInv, TypeInv
<1>1. ~corrupted
  BY DEF CorruptedInv
<1>2. Excluded("release") = {"acquire", "wait"}
  BY Zenon DEF Excluded
<1>3. \A u \in Threads \ {t} : pc[u] \notin Excluded(pc[t])
  BY DEF NoRace
<1>4. \A u \in Threads \ {t} : pc[u] \notin {"acquire", "wait"}
  BY <1>2, <1>3, Zenon
<1>5. ~conforming => \A u \in Threads \ {t} : pc[u] = "idle"
  BY DEF NoRace
<1>6. ~misbehaved => \A u \in Threads \ {t} : pc[u] # "release"
  BY <1>1 DEF OrderlyInv, WaitInv, OneCall
<1>7. \A u \in Threads : pc[u] \in {"idle", "enumerate", "acquire", "wait", "release"}
  BY DEF TypeOK, Calls
<1> QED
  BY <1>1, <1>4, <1>5, <1>6, <1>7

\* The hook of xrWaitSwapchainImage.
LEMMA WaitedInvariant ==
    ASSUME Serialised, IInv, TypeInv', NEW t \in Threads, ImageWaited(t)
    PROVE  IInv'
<1> USE DEF IInv, TypeInv
<1>1. /\ pc[t] = "wait"
      /\ unrecorded' = IF result[t] = "LOSS_PENDING" THEN "held" ELSE unrecorded
      /\ result[t] # "SUCCESS" => reports' = reports /\ imageStates' = imageStates
      /\ result[t] = "SUCCESS" /\ acquiredSwapchains = <<>> =>
             reports' = reports \cup {"waitNone"} /\ imageStates' = imageStates
      /\ result[t] = "SUCCESS" /\ acquiredSwapchains # <<>> =>
             /\ reports' = reports \cup If(imageStates[Oldest] # "Acquired", "waitWrongState")
             /\ imageStates' = [imageStates EXCEPT ![Oldest] = "Waited"]
      /\ UNCHANGED <<conforming, rtHeld, rtWaited, rtUsed, rtCount, misbehaved, isStatic,
                     acquiredSwapchains, corrupted>>
  BY DEF ImageWaited, Report, runtimeVars
<1>2. /\ pc' = [pc EXCEPT ![t] = "idle"] /\ pc'[t] = "idle"
      /\ \A u \in Threads \ {t} :
             pc'[u] = pc[u] /\ index'[u] = index[u] /\ result'[u] = result[u]
  BY ReturnFacts DEF ImageWaited
<1>3. /\ ~corrupted /\ result[t] \in Success \cup {"TIMEOUT_EXPIRED"}
      /\ \A u \in Threads \ {t} : pc[u] \notin {"acquire", "release"}
      /\ ~conforming => \A u \in Threads \ {t} : pc[u] = "idle"
  BY <1>1, WaitAlone
<1>4. /\ Len(imageStates') = Len(imageStates) /\ DOMAIN imageStates' = DOMAIN imageStates
      /\ imageStates' = <<>> <=> imageStates = <<>>
      /\ result[t] = "SUCCESS" /\ acquiredSwapchains # <<>> =>
             \A j \in DOMAIN imageStates :
                 imageStates'[j] = IF j = Oldest THEN "Waited" ELSE imageStates[j]
  <2>1. imageStates \in Seq(ImageStates) /\ imageStates' \in Seq(ImageStates) /\ "Waited" \in ImageStates
    BY DEF TypeOK, ImageStates
  <2>2. /\ Len(imageStates') = Len(imageStates)
        /\ result[t] = "SUCCESS" /\ acquiredSwapchains # <<>> =>
             \A j \in DOMAIN imageStates :
                 imageStates'[j] = IF j = Oldest THEN "Waited" ELSE imageStates[j]
    BY <1>1, <2>1, StateSet, LenProperties
  <2> QED
    BY <2>1, <2>2, LenProperties, EmptySeq
<1>5. NoRace'
  BY <1>1, <1>2, Left
<1>6. CountInv'
  BY <1>1, <1>2, <1>4 DEF CountInv
<1>7. OrderlyInv'
  <2> SUFFICES ASSUME ~misbehaved PROVE QueueInv' /\ StatesInv' /\ WaitInv'
    BY <1>1 DEF OrderlyInv
  <2>1. QueueInv /\ StatesInv /\ WaitInv
    BY <1>3 DEF OrderlyInv
  <2>2. QueueInv'
    BY <1>1, <1>2, <1>3, <1>4, <2>1 DEF QueueInv, Listed
  <2>3. CASE result[t] = "TIMEOUT_EXPIRED"
    <3>1. UNCHANGED <<imageStates, unrecorded>> /\ result[t] \notin Success
      BY <1>1, <2>3 DEF Success
    <3>2. StatesInv'
      BY <1>1, <1>2, <2>1, <3>1 DEF StatesInv, Listed, Acquiring
    <3>3. WaitInv'
      BY <1>1, <1>2, <2>1, <3>1
         DEF WaitInv, WaitSettled, WaitUnderway, WaitIgnored, OneCall, OldestWaited, Oldest
    <3> QED  BY <2>2, <3>2, <3>3
  <2>4. CASE result[t] \in Success
    <3>1. rtWaited /\ acquiredSwapchains # <<>> /\ ~OldestWaited
      BY <1>1, <2>1, <2>4 DEF WaitInv, WaitUnderway
    <3>2. \A u \in Threads : pc'[u] # "release" /\ ~(pc'[u] = "wait" /\ result'[u] \in Success)
      BY <1>1, <1>2, <1>3, <2>1, <2>4 DEF WaitInv, OneCall
    <3>3. /\ 1 \in DOMAIN acquiredSwapchains /\ Oldest = acquiredSwapchains[1]
          /\ Oldest \in DOMAIN imageStates
      BY <2>1, <3>1, EmptySeq, HeadTailProperties, LenProperties
         DEF QueueInv, Oldest, TypeOK
    <3>4. imageStates[Oldest] = "Acquired" /\ unrecorded # "held"
      BY <2>1, <3>1, <3>3 DEF StatesInv, OldestWaited
    <3>5. OldestWaited' /\ WaitIgnored'
      <4>1. Oldest' = Oldest
        BY <1>1 DEF Oldest
      <4>2. CASE result[t] = "LOSS_PENDING"
        BY <1>1, <3>1, <3>4, <4>1, <4>2 DEF OldestWaited, WaitIgnored
      <4>3. CASE result[t] = "SUCCESS"
        BY <1>1, <1>4, <3>1, <3>3, <3>4, <4>1, <4>3 DEF OldestWaited, WaitIgnored
      <4> QED  BY <2>4, <4>2, <4>3 DEF Success
    <3>6. WaitInv'
      BY <1>1, <3>1, <3>2, <3>5 DEF WaitInv, WaitSettled, WaitUnderway, OneCall
    <3>7. StatesInv'
      <4>1. \A j \in DOMAIN imageStates : j # Oldest => imageStates'[j] = imageStates[j]
        BY <1>1, <1>4, <2>4 DEF Success
      <4>2. imageStates'[Oldest] \in {"Acquired", "Waited"}
        BY <1>1, <1>4, <2>4, <3>1, <3>3, <3>4 DEF Success
      <4>3. /\ Listed(Oldest)
            /\ \A n \in DOMAIN acquiredSwapchains : n # 1 => acquiredSwapchains[n] # Oldest
        BY <2>1, <3>3 DEF QueueInv, Listed
      <4>4. \A j : (Listed(j)' <=> Listed(j)) /\ (Acquiring(j)' <=> Acquiring(j))
        BY <1>1, <1>2 DEF Listed, Acquiring
      <4>5. \A n \in DOMAIN acquiredSwapchains : acquiredSwapchains[n] \in DOMAIN imageStates
        BY <2>1 DEF QueueInv
      <4>6. \A n \in DOMAIN acquiredSwapchains' :
                imageStates'[acquiredSwapchains'[n]] \in
                    IF n = 1 THEN {"Acquired", "Waited"} ELSE {"Acquired"}
        BY <1>1, <2>1, <3>3, <4>1, <4>2, <4>3, <4>5 DEF StatesInv
      <4> QED
        BY <1>1, <1>4, <2>1, <4>1, <4>3, <4>4, <4>6 DEF StatesInv
    <3> QED  BY <2>2, <3>6, <3>7
  <2> QED  BY <1>3, <2>3, <2>4
<1>8. VerdictInv'
  <2>1. ASSUME ~misbehaved PROVE reports' = reports
    <3>1. CASE result[t] = "SUCCESS"
      <4>1. acquiredSwapchains # <<>> /\ ~OldestWaited /\ QueueInv /\ StatesInv
        BY <1>1, <1>3, <2>1, <3>1 DEF OrderlyInv, WaitInv, WaitUnderway, Success
      <4>2. imageStates[Oldest] = "Acquired"
        BY <4>1, EmptySeq, HeadTailProperties, LenProperties
           DEF StatesInv, OldestWaited, Oldest, TypeOK
      <4> QED
        BY <1>1, <3>1, <4>1, <4>2 DEF If
    <3> QED  BY <1>1, <3>1
  <2>2. ASSUME misbehaved, unrecorded' = "none", reports' = {} PROVE FALSE
    <3>1. unrecorded = "none" /\ result[t] # "LOSS_PENDING"
      BY <1>1, <2>2
    <3>2. reports = {} /\ ~conforming
      BY <1>1, <2>2 DEF VerdictInv
    <3>3. PICK u \in Threads : Detected(u)
      BY <1>3, <2>2, <3>1, <3>2 DEF VerdictInv
    <3>4. Detected(t)
      BY <1>3, <3>2, <3>3 DEF Detected
    <3>5. result[t] = "SUCCESS" /\ (acquiredSwapchains = <<>> \/ imageStates[Oldest] # "Acquired")
      BY <1>1, <3>1, <3>4 DEF Detected, Success
    <3> QED
      BY <1>1, <2>2, <3>5 DEF If
  <2>3. ~conforming => \A u \in Threads : pc'[u] = "idle"
    BY <1>2, <1>3
  <2>4. unrecorded # "none" => unrecorded' # "none"
    BY <1>1
  <2> QED
    BY <1>1, <1>3, <2>1, <2>2, <2>3, <2>4 DEF VerdictInv, If
<1>9. CorruptedInv'
  BY <1>1, <1>3 DEF CorruptedInv
<1> QED
  BY <1>5, <1>6, <1>7, <1>8, <1>9

\* The hook of xrReleaseSwapchainImage.
LEMMA ReleasedInvariant ==
    ASSUME Serialised, IInv, TypeInv', NEW t \in Threads, ImageReleased(t)
    PROVE  IInv'
<1> USE DEF IInv, TypeInv
<1>1. /\ pc[t] = "release"
      /\ unrecorded' = IF unrecorded = "held" THEN "released" ELSE unrecorded
      /\ acquiredSwapchains = <<>> =>
             /\ reports' = reports \cup {"releaseNone"}
             /\ UNCHANGED <<imageStates, acquiredSwapchains>>
      /\ acquiredSwapchains # <<>> =>
             /\ reports' = reports \cup If(imageStates[Oldest] # "Waited", "releaseWrongState")
             /\ imageStates' = [imageStates EXCEPT ![Oldest] = "Released"]
             /\ acquiredSwapchains' = Tail(acquiredSwapchains)
      /\ UNCHANGED <<conforming, rtHeld, rtWaited, rtUsed, rtCount, misbehaved, isStatic, corrupted>>
  BY DEF ImageReleased, Report, Pop, runtimeVars
<1>2. /\ pc' = [pc EXCEPT ![t] = "idle"] /\ pc'[t] = "idle"
      /\ \A u \in Threads \ {t} :
             pc'[u] = pc[u] /\ index'[u] = index[u] /\ result'[u] = result[u]
  BY ReturnFacts DEF ImageReleased
<1>3. /\ ~corrupted
      /\ \A u \in Threads \ {t} : pc[u] \notin {"acquire", "wait"}
      /\ ~conforming => \A u \in Threads \ {t} : pc[u] = "idle"
  BY <1>1, ReleaseAlone
<1>4. /\ Len(imageStates') = Len(imageStates) /\ DOMAIN imageStates' = DOMAIN imageStates
      /\ imageStates' = <<>> <=> imageStates = <<>>
      /\ acquiredSwapchains # <<>> =>
             \A j \in DOMAIN imageStates :
                 imageStates'[j] = IF j = Oldest THEN "Released" ELSE imageStates[j]
  <2>1. imageStates \in Seq(ImageStates) /\ imageStates' \in Seq(ImageStates) /\ "Released" \in ImageStates
    BY DEF TypeOK, ImageStates
  <2>2. /\ Len(imageStates') = Len(imageStates)
        /\ acquiredSwapchains # <<>> =>
             \A j \in DOMAIN imageStates :
                 imageStates'[j] = IF j = Oldest THEN "Released" ELSE imageStates[j]
    BY <1>1, <2>1, StateSet, LenProperties
  <2> QED
    BY <2>1, <2>2, LenProperties, EmptySeq
<1>5. NoRace'
  BY <1>1, <1>2, Left
<1>6. CountInv'
  BY <1>1, <1>2, <1>4 DEF CountInv
<1>7. OrderlyInv'
  <2> SUFFICES ASSUME ~misbehaved PROVE QueueInv' /\ StatesInv' /\ WaitInv'
    BY <1>1 DEF OrderlyInv
  <2>1. QueueInv /\ StatesInv /\ WaitInv
    BY <1>3 DEF OrderlyInv
  <2>2. acquiredSwapchains # <<>> /\ rtHeld = Tail(acquiredSwapchains) /\ ~rtWaited
    BY <1>1, <2>1 DEF QueueInv, WaitInv, WaitUnderway
  <2>3. \A u \in Threads : pc'[u] \in {"idle", "enumerate"}
    BY <1>1, <1>2, <1>3, <2>1 DEF WaitInv, OneCall, TypeOK, Calls
  <2>4. /\ acquiredSwapchains' = Tail(acquiredSwapchains)
        /\ DOMAIN acquiredSwapchains = 1..Len(acquiredSwapchains)
        /\ Len(acquiredSwapchains) \in Nat \ {0}
        /\ Oldest = acquiredSwapchains[1]
        /\ DOMAIN acquiredSwapchains' = 1..Len(acquiredSwapchains) - 1
        /\ \A n \in DOMAIN acquiredSwapchains' : acquiredSwapchains'[n] = acquiredSwapchains[n + 1]
    BY <1>1, <2>2, EmptySeq, HeadTailProperties, LenProperties DEF Oldest, TypeOK
  <2>5. /\ \A n \in DOMAIN acquiredSwapchains' :
               n + 1 \in DOMAIN acquiredSwapchains /\ acquiredSwapchains[n + 1] # Oldest
        /\ Oldest \in DOMAIN imageStates /\ Oldest \in rtUsed
    BY <2>1, <2>4 DEF QueueInv
  <2>6. QueueInv'
    <3>1. \A m, n \in DOMAIN acquiredSwapchains' :
              acquiredSwapchains'[m] = acquiredSwapchains'[n] => m = n
      BY <2>1, <2>4, <2>5 DEF QueueInv
    <3>2. \A n \in DOMAIN acquiredSwapchains' :
              acquiredSwapchains'[n] \in DOMAIN imageStates' \cap rtUsed'
      <4>1. \A n \in DOMAIN acquiredSwapchains : acquiredSwapchains[n] \in DOMAIN imageStates \cap rtUsed
        BY <2>1 DEF QueueInv
      <4> QED
        BY <1>1, <1>4, <2>4, <2>5, <4>1
    <3> QED
      BY <1>1, <2>2, <2>3, <2>4, <3>1, <3>2 DEF QueueInv
  <2>7. \A j : Listed(j)' <=> Listed(j) /\ j # Oldest
    <3>1. \A j : Listed(j)' => Listed(j) /\ j # Oldest
      BY <2>4, <2>5 DEF Listed
    <3>2. ASSUME NEW j, Listed(j), j # Oldest PROVE Listed(j)'
      <4>1. PICK n \in DOMAIN acquiredSwapchains : acquiredSwapchains[n] = j
        BY <3>2 DEF Listed
      <4>2. n - 1 \in DOMAIN acquiredSwapchains' /\ acquiredSwapchains'[n - 1] = j
        BY <2>4, <3>2, <4>1
      <4> QED
        BY <4>2 DEF Listed
    <3> QED  BY <3>1, <3>2
  <2>8. (\A j : ~Acquiring(j)) /\ \A j : ~Acquiring(j)'
    BY <1>1, <1>3, <2>3 DEF Acquiring
  <2>9. \A n \in DOMAIN acquiredSwapchains' : imageStates'[acquiredSwapchains'[n]] = "Acquired"
    <3>1. \A n \in DOMAIN acquiredSwapchains : n # 1 => imageStates[acquiredSwapchains[n]] = "Acquired"
      BY <2>1 DEF StatesInv
    <3>2. \A n \in DOMAIN acquiredSwapchains : acquiredSwapchains[n] \in DOMAIN imageStates
      BY <2>1 DEF QueueInv
    <3> QED
      BY <1>4, <2>2, <2>4, <2>5, <3>1, <3>2
  <2>10. StatesInv'
    <3>1. \A j \in DOMAIN imageStates : ~Listed(j)' =>
              /\ imageStates'[j] \in {"Created", "Released"}
              /\ j \notin rtUsed => imageStates'[j] = "Created"
              /\ j \in rtUsed => imageStates'[j] = "Released"
      BY <1>4, <2>1, <2>2, <2>5, <2>7, <2>8 DEF StatesInv
    <3>2. \A j \in rtUsed : j \in DOMAIN imageStates
      BY <2>1, <2>8 DEF StatesInv
    <3> QED
      BY <1>1, <1>4, <2>8, <2>9, <3>1, <3>2 DEF StatesInv
  <2>11. WaitInv'
    <3>1. unrecorded' # "held"
      BY <1>1
    <3>2. ~OldestWaited'
      <4>1. acquiredSwapchains' # <<>> =>
                1 \in DOMAIN acquiredSwapchains' /\ Oldest' = acquiredSwapchains'[1]
        BY EmptySeq, HeadTailProperties, LenProperties DEF Oldest, TypeOK
      <4> QED
        BY <2>9, <3>1, <4>1 DEF OldestWaited
    <3> QED
      BY <1>1, <2>2, <2>3, <3>1, <3>2
         DEF WaitInv, WaitSettled, WaitUnderway, WaitIgnored, OneCall
  <2> QED  BY <2>6, <2>10, <2>11
<1>8. VerdictInv'
  <2>1. unrecorded # "none" <=> unrecorded' # "none"
    BY <1>1
  <2>2. ASSUME ~misbehaved PROVE reports' \subseteq reports \cup If(unrecorded' # "none", "releaseWrongState")
    <3>1. OldestWaited
      BY <1>1, <1>3, <2>2 DEF OrderlyInv, WaitInv, WaitUnderway
    <3> QED
      BY <1>1, <3>1 DEF OldestWaited, If
  <2>3. ASSUME misbehaved, unrecorded' = "none", reports' = {} PROVE FALSE
    <3>1. unrecorded = "none" /\ reports = {} /\ ~conforming
      BY <1>1, <2>1, <2>3 DEF VerdictInv
    <3>2. PICK u \in Threads : Detected(u)
      BY <1>3, <2>3, <3>1 DEF VerdictInv
    <3>3. Detected(t)
      BY <1>3, <3>1, <3>2 DEF Detected
    <3>4. acquiredSwapchains = <<>> \/ imageStates[Oldest] # "Waited"
      BY <1>1, <3>3 DEF Detected
    <3> QED
      BY <1>1, <2>3, <3>4 DEF If
  <2>4. ~conforming => \A u \in Threads : pc'[u] = "idle"
    BY <1>2, <1>3
  <2> QED
    BY <1>1, <1>3, <2>1, <2>2, <2>3, <2>4 DEF VerdictInv, If
<1>9. CorruptedInv'
  BY <1>1, <1>3 DEF CorruptedInv
<1> QED
  BY <1>5, <1>6, <1>7, <1>8, <1>9

-----------------------------------------------------------------------------
(* The theorems.                                                           *)

LEMMA InitTypes == Init => TypeInv
<1> SUFFICES ASSUME Init PROVE TypeInv
  OBVIOUS
<1>1. conforming \in BOOLEAN /\ isStatic \in BOOLEAN /\ rtWaited \in BOOLEAN
      /\ misbehaved \in BOOLEAN /\ corrupted \in BOOLEAN
  BY ConstantsAssumption, Zenon DEF Init
<1>2. TypeOK
  BY <1>1, ConstantsAssumption, EmptySeq DEF Init, TypeOK
<1>3. CallInv
  BY DEF Init, CallInv
<1> QED  BY <1>2, <1>3 DEF TypeInv

LEMMA InitInvariant == Init => IInv
<1> SUFFICES ASSUME Init PROVE IInv
  OBVIOUS
<1>1. TypeInv
  BY InitTypes
<1>2. \A t \in Threads : pc[t] = "idle"
  BY DEF Init
<1>3. NoRace
  BY <1>2, SMTT(10) DEF NoRace, Excluded
<1>4. CountInv
  BY <1>2 DEF Init, CountInv
<1>5. QueueInv /\ StatesInv /\ WaitInv
  <2>1. DOMAIN acquiredSwapchains = {} /\ DOMAIN imageStates = {}
    BY EmptySeq DEF Init
  <2>2. QueueInv
    BY <1>2, <2>1 DEF Init, QueueInv
  <2>3. StatesInv
    BY <2>1 DEF Init, StatesInv
  <2>4. WaitInv
    BY <1>2
       DEF Init, WaitInv, WaitSettled, WaitUnderway, WaitIgnored, OneCall, OldestWaited
  <2> QED  BY <2>2, <2>3, <2>4
<1>6. VerdictInv
  BY DEF Init, VerdictInv
<1>7. CorruptedInv
  BY DEF Init, CorruptedInv
<1> QED
  BY <1>1, <1>3, <1>4, <1>5, <1>6, <1>7 DEF IInv, OrderlyInv

\* Steps that change nothing.
LEMMA StutterTypes ==
    ASSUME TypeInv, UNCHANGED vars
    PROVE  TypeInv'
BY DEF TypeInv, TypeOK, CallInv, vars

LEMMA StutterInvariant ==
    ASSUME IInv, UNCHANGED vars
    PROVE  IInv'
<1>1. TypeInv'
  BY StutterTypes DEF IInv
<1>2. NoRace'
  <2>1. pc' = pc /\ conforming' = conforming
    BY DEF vars
  <2> QED
    BY <2>1, Zenon DEF IInv, NoRace
<1>3. CountInv'
  BY DEF IInv, CountInv, vars
<1>4. OrderlyInv'
  BY DEF IInv, OrderlyInv, QueueInv, StatesInv, WaitInv, WaitSettled, WaitUnderway,
         WaitIgnored,
         OneCall, OldestWaited, Oldest, Listed, Acquiring, vars
<1>5. VerdictInv'
  <2>1. /\ pc' = pc /\ index' = index /\ result' = result /\ imageStates' = imageStates
        /\ acquiredSwapchains' = acquiredSwapchains /\ isStatic' = isStatic
    BY DEF vars
  <2>2. \A t \in Threads : Detected(t)' <=> Detected(t)
    BY <2>1, Zenon DEF Detected, CountFailures, AcquireFailures, Oldest
  <2> QED
    BY <2>2 DEF IInv, VerdictInv, vars
<1>6. CorruptedInv'
  BY DEF IInv, CorruptedInv, vars
<1> QED
  BY <1>1, <1>2, <1>3, <1>4, <1>5, <1>6 DEF IInv

\* Every step keeps the invariant.
LEMMA InvariantStep ==
    ASSUME Serialised, IInv, [Next]_vars
    PROVE  IInv'
<1>1. TypeInv'
  BY TypeStep, StutterTypes DEF IInv
<1>2. ASSUME Next PROVE IInv'
  BY <1>1, <1>2, EnumerateInvariant, EnumeratedInvariant, AcquireInvariant,
     AcquiredInvariant,
     FirstAcquiredInvariant, UnenumeratedInvariant, WaitInvariant, WaitedInvariant,
     ReleaseInvariant, ReleasedInvariant
     DEF Next
<1> QED
  BY <1>2, StutterInvariant

\* Every variable has its type, whatever calls overlap.
THEOREM TypeCorrect == Spec => []TypeOK
<1>1. Init => TypeInv
  BY InitTypes
<1>2. TypeInv /\ [Next]_vars => TypeInv'
  BY TypeStep, StutterTypes
<1>3. TypeInv => TypeOK
  BY DEF TypeInv
<1> QED
  BY <1>1, <1>2, <1>3, PTL DEF Spec

\* The inductive invariant holds throughout.
LEMMA Invariant ==
    ASSUME Serialised
    PROVE  Spec => []IInv
<1>1. IInv /\ [Next]_vars => IInv'
  BY InvariantStep
<1> QED
  BY <1>1, InitInvariant, PTL DEF Spec

LEMMA VerdictHolds == IInv => VerdictExact
<1> SUFFICES ASSUME IInv PROVE VerdictExact
  OBVIOUS
<1>1. NoFalseError
  BY DEF IInv, VerdictInv, NoFalseError
<1>2. NothingMissed
  BY NothingDetected DEF IInv, VerdictInv, NothingMissed, Quiet
<1>3. OutOfBoundsExplained
  BY DEF IInv, CorruptedInv, OutOfBoundsExplained
<1> QED
  BY <1>1, <1>2, <1>3 DEF VerdictExact

\* Without races the verdict of Swapchain.cpp is exact: a runtime that keeps the
\* rules is reported for nothing it has not done, one that breaks a rule is reported
\* when the call returns, and the vector is left only for a reason.
THEOREM VerdictIsExact ==
    ASSUME Serialised
    PROVE  Spec => []VerdictExact
BY Invariant, VerdictHolds, PTL

LEMMA RecordHolds == IInv => RecordAgrees
<1> SUFFICES ASSUME IInv, Quiet, conforming, ~corrupted
             PROVE  /\ acquiredSwapchains = rtHeld
                    /\ \A i \in DOMAIN imageStates :
                          LET recorded == rtWaited /\ i = Head(rtHeld) /\ unrecorded # "held"
                          IN  imageStates[i] = CASE InRuntime(i) /\ recorded -> "Waited"
                                                 [] InRuntime(i) /\ ~recorded -> "Acquired"
                                                 [] ~InRuntime(i) /\ i \in rtUsed -> "Released"
                                                 [] OTHER -> "Created"
  BY DEF RecordAgrees
<1>1. QueueInv /\ StatesInv /\ WaitInv /\ TypeOK /\ \A t \in Threads : pc[t] = "idle"
  BY DEF IInv, OrderlyInv, VerdictInv, TypeInv, Quiet
<1>2. acquiredSwapchains = rtHeld /\ (rtWaited <=> OldestWaited)
  BY <1>1 DEF QueueInv, WaitInv, WaitSettled
<1>3. ASSUME NEW i \in DOMAIN imageStates
      PROVE  LET recorded == rtWaited /\ i = Head(rtHeld) /\ unrecorded # "held"
             IN  imageStates[i] = CASE InRuntime(i) /\ recorded -> "Waited"
                                    [] InRuntime(i) /\ ~recorded -> "Acquired"
                                    [] ~InRuntime(i) /\ i \in rtUsed -> "Released"
                                    [] OTHER -> "Created"
  <2> DEFINE recorded == rtWaited /\ i = Head(rtHeld) /\ unrecorded # "held"
  <2>1. InRuntime(i) <=> Listed(i)
    BY <1>2 DEF InRuntime, Listed
  <2>2. ASSUME Listed(i), recorded PROVE imageStates[i] = "Waited"
    BY <1>2, <2>2 DEF OldestWaited, Oldest
  <2>3. ASSUME Listed(i), ~recorded PROVE imageStates[i] = "Acquired"
    <3>1. PICK n \in DOMAIN acquiredSwapchains : acquiredSwapchains[n] = i
      BY <2>3 DEF Listed
    <3>2. CASE n # 1
      BY <1>1, <3>1, <3>2 DEF StatesInv
    <3>3. CASE n = 1
      <4>1. acquiredSwapchains # <<>> /\ Oldest = i
        BY <1>1, <3>1, <3>3, EmptySeq, HeadTailProperties DEF Oldest, TypeOK
      <4>2. imageStates[i] \in {"Acquired", "Waited"}
        BY <1>1, <3>1, <3>3 DEF StatesInv
      <4>3. imageStates[i] # "Waited"
        BY <1>1, <1>2, <2>3, <4>1 DEF OldestWaited, WaitInv, WaitIgnored, Oldest
      <4> QED  BY <4>2, <4>3
    <3> QED  BY <3>2, <3>3
  <2>4. ~Listed(i) => imageStates[i] = IF i \in rtUsed THEN "Released" ELSE "Created"
    BY <1>1 DEF StatesInv, Acquiring
  <2> HIDE DEF recorded
  <2>5. imageStates[i] = CASE InRuntime(i) /\ recorded -> "Waited"
                           [] InRuntime(i) /\ ~recorded -> "Acquired"
                           [] ~InRuntime(i) /\ i \in rtUsed -> "Released"
                           [] OTHER -> "Created"
    BY <2>1, <2>2, <2>3, <2>4, Zenon
  <2> QED
    BY <2>5, Zenon DEF recorded
<1> QED
  BY <1>2, <1>3

\* Without races the layer's queue is a conforming runtime's between calls, and the
\* state of each image says where that image stands.
THEOREM RecordIsExact ==
    ASSUME Serialised
    PROVE  Spec => []RecordAgrees
BY Invariant, RecordHolds, PTL

-----------------------------------------------------------------------------
(* The layer implements the abstract swapchain.                            *)

\* The variables of the abstract swapchain that the record stands for.
Held == IF conforming THEN acquiredSwapchains ELSE <<>>
WaitedOn ==
    /\ conforming /\ acquiredSwapchains # <<>>
    /\ imageStates[Oldest] = "Waited" \/ unrecorded = "held"

LEMMA AbstractInit == Init => Swapchain!Init
BY Zenon DEF Init, Swapchain!Init

\* The hook of an acquire is an acquire, unless a failed enumeration has ended it.
LEMMA AbstractAcquire ==
    ASSUME IInv, IInv', conforming, NEW t \in Threads,
           ImageAcquired(t) \/ FirstImageAcquiredUnenumerated(t)
           \/ \E n \in 0..Count + 1 : FirstImageAcquired(t, n)
    PROVE  Swapchain!Next \/ UNCHANGED <<Held, WaitedOn>>
<1>1. /\ pc[t] = "acquire" /\ Return(t)
      /\ UNCHANGED <<conforming, rtHeld, rtWaited, unrecorded>>
      /\ \/ corrupted' /\ UNCHANGED acquiredSwapchains
         \/ ~corrupted' /\ acquiredSwapchains' = Append(acquiredSwapchains, index[t])
  <2>1. pc[t] = "acquire" /\ UNCHANGED <<conforming, rtHeld, rtWaited>>
    BY DEF ImageAcquired, FirstImageAcquired, FirstImageAcquiredUnenumerated, Announce,
           Rule,
           runtimeVars
  <2>2. ~corrupted
    BY <2>1, AcquireAlone
  <2>3. ASSUME NEW states, NEW failures, RecordAcquired(t, states, failures)
        PROVE  /\ Return(t) /\ UNCHANGED unrecorded
               /\ \/ corrupted' /\ UNCHANGED acquiredSwapchains
                  \/ ~corrupted' /\ acquiredSwapchains' = Append(acquiredSwapchains, index[t])
    BY <2>2, <2>3, Zenon DEF RecordAcquired, Push
  <2> QED
    BY <2>1, <2>3, Zenon
       DEF ImageAcquired, FirstImageAcquired, FirstImageAcquiredUnenumerated
<1>2. CASE corrupted'
  <2>1. acquiredSwapchains' = <<>> /\ acquiredSwapchains = <<>>
    BY <1>1, <1>2 DEF IInv, CorruptedInv
  <2> QED
    BY <1>1, <2>1, Zenon DEF Held, WaitedOn
<1>3. CASE ~corrupted'
  <2>1. ~corrupted /\ ~misbehaved /\ ~misbehaved'
    BY <1>1, AcquireAlone DEF IInv, VerdictInv
  <2>2. \A u \in Threads : pc'[u] \in {"idle", "enumerate"}
    BY <1>1, AcquireAlone, ReturnFacts DEF IInv, TypeInv
  <2>3. (OldestWaited <=> rtWaited) /\ (OldestWaited' <=> rtWaited')
    <3>1. \A u \in Threads : pc[u] # "release" /\ pc[u] # "wait"
      BY <1>1, AcquireAlone
    <3>2. WaitSettled /\ WaitSettled'
      BY <1>3, <2>1 DEF IInv, OrderlyInv, WaitInv
    <3> QED
      BY <2>2, <3>1, <3>2 DEF WaitSettled
  <2>4. /\ \A n \in DOMAIN acquiredSwapchains : acquiredSwapchains[n] # index[t]
        /\ index[t] \in Images
    BY <1>1, <2>1 DEF IInv, OrderlyInv, QueueInv, Listed, TypeInv, CallInv
  <2>5. /\ Held = acquiredSwapchains /\ Held' = Append(acquiredSwapchains, index[t])
        /\ WaitedOn' = WaitedOn
    BY <1>1, <1>3, <2>3, Zenon DEF Held, WaitedOn, OldestWaited
  <2>6. Swapchain!Acquire(index[t])
    BY <2>4, <2>5, Zenon DEF Swapchain!Acquire, Held, WaitedOn
  <2> QED
    BY <2>4, <2>6 DEF Swapchain!Next
<1> QED  BY <1>2, <1>3

\* The hook of a wait that succeeded is a wait; one that timed out is nothing.
LEMMA AbstractWait ==
    ASSUME IInv, IInv', conforming, NEW t \in Threads, ImageWaited(t)
    PROVE  Swapchain!Next \/ UNCHANGED <<Held, WaitedOn>>
<1>1. /\ pc[t] = "wait" /\ Return(t)
      /\ UNCHANGED <<conforming, misbehaved, rtHeld, rtWaited, acquiredSwapchains, corrupted>>
      /\ result[t] = "TIMEOUT_EXPIRED" => UNCHANGED <<imageStates, unrecorded>>
  BY DEF ImageWaited, runtimeVars
<1>2. ~corrupted /\ ~misbehaved /\ result[t] \in Success \cup {"TIMEOUT_EXPIRED"}
  BY <1>1, WaitAlone DEF IInv, VerdictInv
<1>3. CASE result[t] = "TIMEOUT_EXPIRED"
  BY <1>1, <1>3, Zenon DEF Held, WaitedOn, Oldest
<1>4. CASE result[t] \in Success
  <2>1. rtWaited /\ acquiredSwapchains # <<>> /\ ~OldestWaited
    BY <1>1, <1>2, <1>4 DEF IInv, OrderlyInv, WaitInv, WaitUnderway
  <2>2. \A u \in Threads : pc'[u] # "release" /\ ~(pc'[u] = "wait" /\ result'[u] \in Success)
    BY <1>1, <1>2, <1>4, WaitAlone, ReturnFacts DEF IInv, TypeInv
  <2>3. WaitSettled'
    BY <1>1, <1>2 DEF IInv, OrderlyInv, WaitInv
  <2>4. OldestWaited'
    BY <1>1, <2>1, <2>2, <2>3 DEF WaitSettled
  <2>5. Held = acquiredSwapchains /\ Held' = acquiredSwapchains /\ ~WaitedOn /\ WaitedOn' = TRUE
    BY <1>1, <2>1, <2>4, Zenon DEF Held, WaitedOn, OldestWaited
  <2>6. Swapchain!Wait
    BY <2>1, <2>5, Zenon DEF Swapchain!Wait, Held, WaitedOn
  <2> QED
    BY <2>6 DEF Swapchain!Next
<1> QED  BY <1>2, <1>3, <1>4

\* The hook of a release is a release.
LEMMA AbstractRelease ==
    ASSUME IInv, IInv', conforming, NEW t \in Threads, ImageReleased(t)
    PROVE  Swapchain!Next
<1>1. /\ pc[t] = "release" /\ Return(t)
      /\ UNCHANGED <<conforming, misbehaved, rtHeld, rtWaited, corrupted>>
      /\ acquiredSwapchains # <<>> => acquiredSwapchains' = Tail(acquiredSwapchains)
  BY DEF ImageReleased, Pop, runtimeVars
<1>2. ~corrupted /\ ~misbehaved
  BY <1>1, ReleaseAlone DEF IInv, VerdictInv
<1>3. ~rtWaited /\ OldestWaited /\ acquiredSwapchains # <<>>
  BY <1>1, <1>2 DEF IInv, OrderlyInv, WaitInv, WaitUnderway, OldestWaited
<1>4. \A u \in Threads : pc'[u] \in {"idle", "enumerate"}
  BY <1>1, <1>2, ReleaseAlone, ReturnFacts DEF IInv, TypeInv
<1>5. WaitSettled'
  BY <1>1, <1>2 DEF IInv, OrderlyInv, WaitInv
<1>6. ~OldestWaited'
  BY <1>1, <1>3, <1>4, <1>5 DEF WaitSettled
<1>7. /\ Held = acquiredSwapchains /\ Held' = Tail(acquiredSwapchains)
      /\ WaitedOn /\ WaitedOn' = FALSE
  BY <1>1, <1>3, <1>6, Zenon DEF Held, WaitedOn, OldestWaited
<1>8. Swapchain!Release
  BY <1>7, Zenon DEF Swapchain!Release, Held, WaitedOn
<1> QED
  BY <1>8 DEF Swapchain!Next

\* A step of a conforming runtime and the layer's record of it is a step of the
\* abstract swapchain, or leaves it as it is.
LEMMA AbstractStep ==
    ASSUME IInv, IInv', [Next]_vars
    PROVE  [Swapchain!Next]_<<Held, WaitedOn>>
<1>1. Next => conforming' = conforming
  BY DEF Next, EnumerateSwapchainImages, FirstImageAcquired, Announce, Rule,
         AcquireSwapchainImage, ImagesEnumerated, ImageAcquired, runtimeVars,
         FirstImageAcquiredUnenumerated, WaitSwapchainImage, ImageWaited,
         ReleaseSwapchainImage, ImageReleased
<1>2. Next /\ ~conforming => UNCHANGED <<Held, WaitedOn>>
  BY <1>1 DEF Held, WaitedOn
<1>3. UNCHANGED vars => UNCHANGED <<Held, WaitedOn>>
  BY DEF Held, WaitedOn, Oldest, vars
<1>4. ASSUME NEW t \in Threads,
             \/ \E n \in 0..Count + 1 : EnumerateSwapchainImages(t, n)
             \/ \E i \in Images : AcquireSwapchainImage(t, i)
             \/ WaitSwapchainImage(t) \/ ReleaseSwapchainImage(t)
      PROVE  UNCHANGED layerVars
  BY <1>4, Zenon DEF EnumerateSwapchainImages, AcquireSwapchainImage, WaitSwapchainImage,
     ReleaseSwapchainImage, Forwarded
<1>5. Next /\ UNCHANGED layerVars => UNCHANGED <<Held, WaitedOn>>
  BY <1>1 DEF layerVars, Held, WaitedOn, Oldest
<1>6. ASSUME NEW t \in Threads, ImagesEnumerated(t), conforming, Next
      PROVE  UNCHANGED <<Held, WaitedOn>>
  <2>1. /\ UNCHANGED <<acquiredSwapchains, unrecorded, conforming>>
        /\ imageStates # <<>> => UNCHANGED imageStates
    BY <1>6 DEF ImagesEnumerated, runtimeVars
  <2>2. imageStates = <<>> => acquiredSwapchains = <<>>
    <3>1. CASE corrupted
      BY <1>6, <3>1 DEF IInv, CorruptedInv
    <3>2. CASE ~corrupted
      <4>1. QueueInv
        BY <1>6, <3>2 DEF IInv, VerdictInv, OrderlyInv
      <4>2. imageStates = <<>> => DOMAIN imageStates = {}
        OBVIOUS
      <4>3. imageStates = <<>> => DOMAIN acquiredSwapchains = {}
        BY <4>1, <4>2 DEF QueueInv
      <4> QED
        BY <4>3, EmptySeq DEF IInv, TypeInv, TypeOK
    <3> QED  BY <3>1, <3>2
  <2> QED
    BY <2>1, <2>2, Zenon DEF Held, WaitedOn, Oldest
<1>7. Next /\ conforming => Swapchain!Next \/ UNCHANGED <<Held, WaitedOn>>
  BY <1>4, <1>5, <1>6, AbstractAcquire, AbstractWait, AbstractRelease, Zenon DEF Next
<1> QED
  BY <1>2, <1>3, <1>7, Zenon

\* Under an application without races, the layer's record of a conforming runtime's
\* swapchain is a swapchain: images are acquired, waited on and released in order.
THEOREM SwapchainImplemented ==
    ASSUME Serialised
    PROVE  Spec => ImplementsSwapchain
<1>1. IInv /\ IInv' /\ [Next]_vars => [Swapchain!Next]_<<Held, WaitedOn>>
  BY AbstractStep
<1>2. IInv /\ IInv' /\ [Next]_vars =>
          [Swapchain!Next]_<<IF conforming THEN acquiredSwapchains ELSE <<>>,
                            /\ conforming /\ acquiredSwapchains # <<>>
                            /\ imageStates[Oldest] = "Waited" \/ unrecorded = "held">>
  BY <1>1 DEF Held, WaitedOn
<1> QED
  BY Invariant, AbstractInit, <1>2, PTL DEF Spec, ImplementsSwapchain, Swapchain!Spec
=============================================================================
