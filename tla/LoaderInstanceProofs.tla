------------------------- MODULE LoaderInstanceProofs -------------------------
(***************************************************************************)
(* Proofs about LoaderInstance, for any threads, instances, messengers,     *)
(* manifest files and requests: nothing of the loader is used after it is   *)
(* gone, between calls it knows just what is alive, layers and their open   *)
(* libraries belong to an instance, the chain has what the environment and  *)
(* the application ask for, and an extension that is reported is accepted.  *)
(* They rest on who owns a messenger at each step of a call, which no lock  *)
(* protects, and on what the loops over directories, names and files        *)
(* compute, by induction over the sequences.  The last part is about the    *)
(* labels and messages of DebugLabels, another part of the loader, which     *)
(* shares no variable with the first.                                        *)
(***************************************************************************)
EXTENDS LoaderInstance, DebugLabels, Integers, FiniteSetTheorems, SequenceTheorems,
        WellFoundedInduction, TLAPS

\* The steps of the calls that hold the global loader mutex, and of those that do not.
Holding == {"create", "layers", "chain", "unwind", "messenger", "failed", "destroy",
            "destroyed", "enumerate", "properties"}
Using == {"addRecorder", "track", "removeRecorder", "forget", "release"}

At(step) == \E t \in Threads : pc[t] = step
UsedAt(steps) == {m \in Messengers : \E t \in Threads : pc[t] \in steps /\ messenger[t] = m}
Tracked == {m \in Messengers : messengerOf[m] # Null}

\* The types of what the proof is about: all but the layers and the Booleans.
TypeInv ==
    /\ rtInstances \subseteq Instances /\ rtMessengers \subseteq Messengers
    /\ app \in Instances \cup {Null} /\ appMessengers \subseteq Messengers
    /\ loaderMutex \in Threads \cup {Null}
    /\ current \in Instances \cup {Null}
    /\ defaultMessenger \in Messengers \cup {Null}
    /\ dispatchTables \subseteq Instances
    /\ messengerOf \in [Messengers -> Instances \cup {Null}]
    /\ recorders \subseteq Messengers
    /\ recordersByInstance \in [Instances -> SUBSET Messengers]
    /\ pc \in [Threads -> {"idle"} \cup Holding \cup Using]
    /\ new \in [Threads -> Instances \cup {Null}]
    /\ messenger \in [Threads -> Messengers \cup {Null}]

MutexInv == \A t \in Threads : pc[t] \in Holding <=> loaderMutex = t

\* Which instance there is at each step of a call.
CallInv ==
    \A t \in Threads :
        /\ pc[t] \in {"layers", "chain", "unwind", "failed"} => current = Null
        /\ pc[t] \in {"messenger", "destroy", "destroyed"} =>
              new[t] = current /\ current # Null /\ app = Null
        /\ pc[t] = "messenger" => defaultMessenger = Null
        /\ pc[t] = "unwind" => new[t] \in rtInstances /\ dispatchTables = {new[t]}
        /\ pc[t] \in {"layers", "chain", "unwind", "properties"} => runtimeLoaded
        /\ pc[t] \in {"failed", "destroyed"} /\ ~layerFailed => dispatchTables = {}
        /\ pc[t] \in {"addRecorder", "track"} => new[t] = app
        /\ pc[t] \in Using => app # Null

\* The loader's instance, its runtime and its dispatch table.
InstanceInv ==
    /\ app # Null => current = app
    /\ appMessengers # {} => app # Null
    /\ defaultMessenger # Null => current # Null
    /\ current # Null => runtimeLoaded
    /\ current # Null /\ ~At("destroyed") => dispatchTables = {current} /\ current \in rtInstances
    /\ current = Null /\ ~At("unwind") /\ ~At("failed") => dispatchTables = {}
    /\ ~layerFailed => rtInstances = dispatchTables

\* A messenger belongs to the application, to the instance, or to one call in progress.
OwnerInv ==
    /\ \A t \in Threads : pc[t] \in Using =>
          /\ messenger[t] \in rtMessengers /\ messenger[t] \notin appMessengers
          /\ messenger[t] # defaultMessenger
          /\ \A u \in Threads \ {t} : pc[u] \in Using => messenger[t] # messenger[u]
    /\ defaultMessenger \notin appMessengers
    /\ appMessengers \subseteq recorders

\* The runtime interface tracks the messengers that are not just being made or freed.
TrackedInv ==
    /\ \A m \in Tracked : messengerOf[m] = current
    /\ ~At("destroy") /\ ~At("destroyed") =>
          Tracked = appMessengers \cup ({defaultMessenger} \ {Null})
                        \cup UsedAt({"removeRecorder", "forget"})
    /\ At("destroy") /\ defaultMessenger \in rtMessengers => defaultMessenger \in Tracked

\* The logger records for the messengers that are alive and not just being made or freed.
RecorderInv ==
    /\ recorders \cap UsedAt({"addRecorder", "forget", "release"}) = {}
    /\ rtMessengers = recorders \cup UsedAt({"addRecorder", "forget", "release"})

\* Of each instance the logger knows its messengers.
ByInstanceInv ==
    /\ recorders = UNION {recordersByInstance[i] : i \in Instances}
    /\ \A i, j \in Instances : i # j => recordersByInstance[i] \cap recordersByInstance[j] = {}
    /\ \A i \in Instances \ rtInstances : recordersByInstance[i] = {}
    /\ ~layerFailed => \A i \in Instances \ {current} : recordersByInstance[i] = {}
    /\ \A t \in Threads : pc[t] = "unwind" => recordersByInstance[new[t]] = {}
    /\ current # Null /\ ~At("destroyed") =>
          recordersByInstance[current] = (Tracked \ UsedAt({"forget"})) \cup UsedAt({"track"})

IInv ==
    /\ TypeInv /\ MutexInv /\ CallInv /\ InstanceInv /\ OwnerInv /\ TrackedInv
    /\ RecorderInv /\ ByInstanceInv /\ NoNullDeref

-----------------------------------------------------------------------------
(* Who is alone, and what is loaded.                                       *)

\* One thread at a time holds the global loader mutex.
LEMMA Alone ==
    ASSUME TypeInv, MutexInv, NEW t \in Threads, pc[t] \in Holding, NEW u \in Threads, u # t
    PROVE  pc[u] \notin Holding
BY ConstantsAssumption DEF MutexInv

\* A call through a table that is there does no harm.
LEMMA Dispatched ==
    ASSUME NoNullDeref, NEW i, Dispatch(i), runtimeLoaded, i \in dispatchTables
    PROVE  NoNullDeref'
BY Zenon DEF Dispatch, NoNullDeref

\* A call into a runtime that is loaded does no harm.
LEMMA RuntimeUsed ==
    ASSUME NoNullDeref, runtimeLoaded, nullDeref' = (nullDeref \/ ~runtimeLoaded)
    PROVE  NoNullDeref'
BY Zenon DEF NoNullDeref

\* An active instance can be called, until it has been destroyed.
LEMMA Dispatchable ==
    ASSUME IInv, current # Null, ~At("destroyed")
    PROVE  runtimeLoaded /\ current \in dispatchTables
BY DEF IInv, InstanceInv

\* What the application has is the active instance, and that can be called.
LEMMA Lent ==
    ASSUME IInv, app # Null
    PROVE  runtimeLoaded /\ app = current /\ app \in dispatchTables /\ ~At("destroyed")
BY DEF IInv, InstanceInv, CallInv, At

-----------------------------------------------------------------------------
(* Creating an instance.                                                   *)

\* xrCreateInstance takes the global loader mutex.
LEMMA EnterCreateInvariant ==
    ASSUME IInv, UNCHANGED layerFailed, NEW t \in Threads, EnterCreate(t)
    PROVE  IInv'
<1>1. TypeInv'
  BY DEF IInv, TypeInv, Holding, EnterCreate, Enter, rtVars, appVars, activeVars,
         runtimeVars, loggerVars, Goto
<1>2. MutexInv'
  BY ConstantsAssumption DEF IInv, TypeInv, Holding, MutexInv, EnterCreate, Enter, Goto
<1>3. CallInv'
  BY DEF IInv, Using, CallInv, EnterCreate, Enter, rtVars, appVars, activeVars,
         runtimeVars, Goto
<1>4. InstanceInv'
  BY DEF IInv, InstanceInv, At, EnterCreate, Enter, rtVars, appVars, activeVars,
         runtimeVars, Goto
<1>5. OwnerInv'
  BY DEF IInv, Using, OwnerInv, EnterCreate, Enter, rtVars, appVars, activeVars,
         loggerVars, Goto
<1>6. TrackedInv'
  BY DEF IInv, TrackedInv, Tracked, At, UsedAt, EnterCreate, Enter, rtVars, appVars,
         activeVars, runtimeVars, Goto
<1>7. RecorderInv'
  BY DEF IInv, RecorderInv, UsedAt, EnterCreate, Enter, rtVars, loggerVars, Goto
<1>8. ByInstanceInv'
  BY DEF IInv, ByInstanceInv, At, Tracked, UsedAt, EnterCreate, Enter, rtVars,
         activeVars, runtimeVars, loggerVars, Goto
<1>9. NoNullDeref'
  BY DEF IInv, NoNullDeref, EnterCreate
<1> QED
  BY <1>1, <1>2, <1>3, <1>4, <1>5, <1>6, <1>7, <1>8, <1>9 DEF IInv

\* A creation rejected while there is an instance, or for its arguments, changes nothing of it.
LEMMA CreateRejectedInvariant ==
    ASSUME IInv, UNCHANGED layerFailed, NEW t \in Threads, CreateRejected(t)
    PROVE  IInv'
<1>1. TypeInv'
  BY DEF IInv, TypeInv, CreateRejected, Return, rtVars, appVars, activeVars, runtimeVars,
         loggerVars, Goto
<1>2. MutexInv'
  BY ConstantsAssumption
     DEF IInv, TypeInv, Holding, MutexInv, CreateRejected, Return, Goto
<1>3. CallInv'
  BY DEF IInv, Using, CallInv, CreateRejected, Return, appVars, activeVars, runtimeVars,
         Goto
<1>4. InstanceInv'
  BY DEF IInv, InstanceInv, At, CreateRejected, Return, rtVars, appVars, activeVars,
         runtimeVars, Goto
<1>5. OwnerInv'
  BY DEF IInv, Using, OwnerInv, CreateRejected, Return, rtVars, appVars, activeVars,
         loggerVars, Goto
<1>6. TrackedInv'
  BY DEF IInv, TrackedInv, Tracked, At, UsedAt, CreateRejected, Return, rtVars, appVars,
         activeVars, runtimeVars, Goto
<1>7. RecorderInv'
  BY DEF IInv, RecorderInv, UsedAt, CreateRejected, Return, rtVars, loggerVars, Goto
<1>8. ByInstanceInv'
  BY DEF IInv, ByInstanceInv, At, Tracked, UsedAt, CreateRejected, Return, rtVars,
         activeVars, runtimeVars, loggerVars, Goto
<1>9. NoNullDeref'
  BY DEF IInv, NoNullDeref, CreateRejected
<1> QED
  BY <1>1, <1>2, <1>3, <1>4, <1>5, <1>6, <1>7, <1>8, <1>9 DEF IInv

\* LoadRuntime, without an instance.
LEMMA CreateLoadsRuntimeInvariant ==
    ASSUME IInv, UNCHANGED layerFailed, NEW t \in Threads, CreateLoadsRuntime(t)
    PROVE  IInv'
<1>1. TypeInv'
  BY DEF IInv, TypeInv, Holding, CreateLoadsRuntime, LoadRuntime, Goto, rtVars, appVars,
         activeVars, loggerVars
<1>2. MutexInv'
  BY DEF IInv, Holding, MutexInv, CreateLoadsRuntime, Goto
<1>3. CallInv'
  BY DEF IInv, Using, CallInv, CreateLoadsRuntime, LoadRuntime, Goto, rtVars, appVars,
         activeVars
<1>4. InstanceInv'
  BY DEF IInv, InstanceInv, At, CreateLoadsRuntime, LoadRuntime, Goto, rtVars, appVars,
         activeVars
<1>5. OwnerInv'
  BY DEF IInv, Using, OwnerInv, CreateLoadsRuntime, Goto, rtVars, appVars, activeVars,
         loggerVars
<1>6. TrackedInv'
  BY DEF IInv, TrackedInv, Tracked, At, UsedAt, CreateLoadsRuntime, LoadRuntime, Goto,
         rtVars, appVars, activeVars
<1>7. RecorderInv'
  BY DEF IInv, RecorderInv, UsedAt, CreateLoadsRuntime, Goto, rtVars, loggerVars
<1>8. ByInstanceInv'
  BY DEF IInv, ByInstanceInv, CreateLoadsRuntime, Goto, rtVars, activeVars, loggerVars
<1>9. NoNullDeref'
  BY DEF IInv, NoNullDeref, CreateLoadsRuntime
<1> QED
  BY <1>1, <1>2, <1>3, <1>4, <1>5, <1>6, <1>7, <1>8, <1>9 DEF IInv

\* No runtime can be loaded, or the create info is invalid.
LEMMA CreateFailsInvariant ==
    ASSUME IInv, UNCHANGED layerFailed, NEW t \in Threads, CreateFails(t)
    PROVE  IInv'
<1>1. TypeInv'
  BY DEF IInv, TypeInv, Holding, CreateFails, Goto, rtVars, appVars, activeVars,
         runtimeVars, loggerVars
<1>2. MutexInv'
  BY DEF IInv, Holding, MutexInv, CreateFails, Goto
<1>3. CallInv'
  BY DEF IInv, MutexInv, CallInv, InstanceInv, Holding, Using, At, CreateFails, Goto,
         activeVars, runtimeVars
<1>4. InstanceInv'
  BY DEF IInv, InstanceInv, At, CreateFails, Goto, rtVars, appVars, activeVars,
         runtimeVars
<1>5. OwnerInv'
  BY DEF IInv, Using, OwnerInv, CreateFails, Goto, rtVars, appVars, activeVars, loggerVars
<1>6. TrackedInv'
  BY DEF IInv, TrackedInv, Tracked, At, UsedAt, CreateFails, Goto, rtVars, appVars,
         activeVars, runtimeVars
<1>7. RecorderInv'
  BY DEF IInv, RecorderInv, UsedAt, CreateFails, Goto, rtVars, loggerVars
<1>8. ByInstanceInv'
  BY DEF IInv, ByInstanceInv, At, Tracked, UsedAt, CreateFails, Goto, rtVars, activeVars,
         runtimeVars, loggerVars
<1>9. NoNullDeref'
  BY DEF IInv, NoNullDeref, CreateFails
<1> QED
  BY <1>1, <1>2, <1>3, <1>4, <1>5, <1>6, <1>7, <1>8, <1>9 DEF IInv

\* The API layers are loaded: nothing of the instance depends on which.
LEMMA LoadApiLayersInvariant ==
    ASSUME IInv, UNCHANGED layerFailed, NEW t \in Threads, LoadApiLayers(t)
    PROVE  IInv'
<1>1. /\ pc[t] = "layers"
      /\ \/ pc' = [pc EXCEPT ![t] = "failed"] \/ pc' = [pc EXCEPT ![t] = "chain"]
      /\ UNCHANGED <<rtVars, appVars, activeVars, runtimeVars, loggerVars, loaderMutex, new,
                     messenger, nullDeref>>
  BY Zenon DEF LoadApiLayers, Goto
<1>2. /\ UNCHANGED <<rtInstances, rtMessengers, app, appMessengers, current, defaultMessenger,
                     runtimeLoaded, dispatchTables, messengerOf, recorders, recordersByInstance,
                     loaderMutex, new, messenger, nullDeref>>
  BY <1>1 DEF rtVars, appVars, activeVars, runtimeVars, loggerVars
<1>3. TypeInv' /\ MutexInv' /\ NoNullDeref'
  BY <1>1, <1>2 DEF IInv, TypeInv, MutexInv, NoNullDeref, Holding
<1>4. CallInv'
  BY <1>1, <1>2, SMTT(10)
     DEF IInv, TypeInv, MutexInv, CallInv, InstanceInv, Holding, Using, At
<1>5. InstanceInv'
  BY <1>1, <1>2, SMTT(10) DEF IInv, TypeInv, CallInv, InstanceInv, At
<1>6. OwnerInv'
  BY <1>1, <1>2, SMTT(10) DEF IInv, TypeInv, OwnerInv, Using
<1>7. Tracked' = Tracked
  BY <1>2 DEF Tracked
<1>8. TrackedInv'
  BY <1>1, <1>2, <1>7, SMTT(10) DEF IInv, TypeInv, TrackedInv, UsedAt, At
<1>9. RecorderInv'
  BY <1>1, <1>2, SMTT(10) DEF IInv, TypeInv, RecorderInv, UsedAt
<1>10. ByInstanceInv'
  BY <1>1, <1>2, <1>7, SMTT(10) DEF IInv, TypeInv, ByInstanceInv, UsedAt, At
<1> QED  BY <1>3, <1>4, <1>5, <1>6, <1>8, <1>9, <1>10 DEF IInv

\* A creation that fails in the chain of the layers.
LEMMA ChainFailsInvariant ==
    ASSUME IInv, UNCHANGED layerFailed, NEW t \in Threads, ChainFails(t)
    PROVE  IInv'
<1>1. TypeInv'
  BY DEF IInv, TypeInv, Holding, ChainFails, Goto, rtVars, appVars, activeVars,
         runtimeVars, loggerVars
<1>2. MutexInv'
  BY DEF IInv, Holding, MutexInv, ChainFails, Goto
<1>3. CallInv'
  BY DEF IInv, MutexInv, CallInv, InstanceInv, Holding, Using, At, ChainFails, Goto,
         activeVars, runtimeVars
<1>4. InstanceInv'
  BY DEF IInv, InstanceInv, At, ChainFails, Goto, rtVars, appVars, activeVars, runtimeVars
<1>5. OwnerInv'
  BY DEF IInv, Using, OwnerInv, ChainFails, Goto, rtVars, appVars, activeVars, loggerVars
<1>6. TrackedInv'
  BY DEF IInv, TrackedInv, Tracked, At, UsedAt, ChainFails, Goto, rtVars, appVars,
         activeVars, runtimeVars
<1>7. RecorderInv'
  BY DEF IInv, RecorderInv, UsedAt, ChainFails, Goto, rtVars, loggerVars
<1>8. ByInstanceInv'
  BY DEF IInv, ByInstanceInv, At, Tracked, UsedAt, ChainFails, Goto, rtVars, activeVars,
         runtimeVars, loggerVars
<1>9. NoNullDeref'
  BY DEF IInv, NoNullDeref, ChainFails
<1> QED
  BY <1>1, <1>2, <1>3, <1>4, <1>5, <1>6, <1>7, <1>8, <1>9 DEF IInv

\* The runtime creates the instance and the loader its dispatch table.
LEMMA TermCreateInstanceInvariant ==
    ASSUME IInv, UNCHANGED layerFailed, NEW t \in Threads, NEW i \in Instances,
           TermCreateInstance(t, i)
    PROVE  IInv'
<1>1. TypeInv'
  BY DEF IInv, TypeInv, Holding, TermCreateInstance, AddDispatchTable, Goto, appVars,
         activeVars, loggerVars
<1>2. MutexInv'
  BY DEF IInv, Holding, MutexInv, TermCreateInstance, Goto
<1>3. CallInv'
  BY DEF IInv, TypeInv, MutexInv, CallInv, InstanceInv, Using, At, TermCreateInstance,
         AddDispatchTable, Goto, activeVars
<1>4. InstanceInv'
  BY DEF IInv, TypeInv, CallInv, InstanceInv, At, TermCreateInstance, AddDispatchTable,
         Goto, appVars, activeVars
<1>5. OwnerInv'
  BY DEF IInv, Using, OwnerInv, TermCreateInstance, Goto, appVars, activeVars, loggerVars
<1>6. TrackedInv'
  BY DEF IInv, TrackedInv, Tracked, At, UsedAt, TermCreateInstance, Goto, appVars,
         activeVars
<1>7. RecorderInv'
  BY DEF IInv, RecorderInv, UsedAt, TermCreateInstance, Goto, loggerVars
<1>8. ByInstanceInv'
  BY DEF IInv, TypeInv, ByInstanceInv, At, Tracked, UsedAt, TermCreateInstance, Goto,
         activeVars, loggerVars
<1>9. NoNullDeref'
  BY DEF IInv, NoNullDeref, TermCreateInstance
<1> QED
  BY <1>1, <1>2, <1>3, <1>4, <1>5, <1>6, <1>7, <1>8, <1>9 DEF IInv

\* The instance becomes the active one.
LEMMA SetActiveInvariant ==
    ASSUME IInv, UNCHANGED layerFailed, NEW t \in Threads, SetActive(t)
    PROVE  IInv'
<1>1. TypeInv'
  BY DEF IInv, TypeInv, Holding, SetActive, Return, Goto, rtVars, runtimeVars, loggerVars
<1>2. MutexInv'
  BY ConstantsAssumption DEF IInv, TypeInv, Holding, MutexInv, SetActive, Return, Goto
<1>3. CallInv'
  BY ConstantsAssumption
     DEF IInv, TypeInv, MutexInv, CallInv, InstanceInv, Using, SetActive, Return, Goto
<1>4. InstanceInv'
  BY ConstantsAssumption
     DEF IInv, TypeInv, CallInv, InstanceInv, SetActive, rtVars, runtimeVars
<1>5. OwnerInv'
  BY DEF IInv, TypeInv, Using, OwnerInv, SetActive, Return, Goto, rtVars, loggerVars
<1>6. TrackedInv'
  BY DEF IInv, TypeInv, CallInv, TrackedInv, Tracked, At, UsedAt, SetActive, Return,
         Goto, runtimeVars
<1>7. RecorderInv'
  BY DEF IInv, TypeInv, RecorderInv, UsedAt, SetActive, Return, Goto, rtVars, loggerVars
<1>8. ByInstanceInv'
  BY DEF IInv, TypeInv, MutexInv, CallInv, InstanceInv, TrackedInv, ByInstanceInv,
         Tracked, UsedAt, SetActive, Return, Goto, rtVars, runtimeVars, loggerVars
<1>9. NoNullDeref'
  BY DEF IInv, NoNullDeref, SetActive
<1> QED
  BY <1>1, <1>2, <1>3, <1>4, <1>5, <1>6, <1>7, <1>8, <1>9 DEF IInv

\* What a failed creation has left is taken down.
LEMMA CleanUpInvariant ==
    ASSUME IInv, UNCHANGED layerFailed, NEW t \in Threads, CleanUp(t)
    PROVE  IInv'
<1>1. TypeInv'
  BY DEF IInv, TypeInv, CleanUp, RemoveActive, UnloadRuntime, Return, rtVars, appVars,
         loggerVars, Goto
<1>2. MutexInv'
  BY ConstantsAssumption DEF IInv, TypeInv, Holding, MutexInv, CleanUp, Return, Goto
<1>3. CallInv'
  BY DEF IInv, TypeInv, MutexInv, CallInv, Using, CleanUp, Return, appVars, Goto
<1>4. InstanceInv'
  BY DEF IInv, CallInv, InstanceInv, CleanUp, RemoveActive, UnloadRuntime, rtVars, appVars
<1>5. OwnerInv'
  BY ConstantsAssumption
     DEF IInv, TypeInv, Using, OwnerInv, CleanUp, RemoveActive, Return, rtVars, appVars,
         loggerVars, Goto
<1>6. TrackedInv'
  BY DEF IInv, CallInv, TrackedInv, Tracked, At, UsedAt, CleanUp, RemoveActive,
         UnloadRuntime, Return, appVars, Goto
<1>7. RecorderInv'
  BY DEF IInv, RecorderInv, UsedAt, CleanUp, Return, rtVars, loggerVars, Goto
<1>8. ByInstanceInv'
  BY DEF IInv, CallInv, ByInstanceInv, CleanUp, RemoveActive, Return, rtVars, loggerVars,
         Goto
<1>9. NoNullDeref'
  BY DEF IInv, NoNullDeref, CleanUp
<1> QED
  BY <1>1, <1>2, <1>3, <1>4, <1>5, <1>6, <1>7, <1>8, <1>9 DEF IInv

\* The messenger chained to the creation is the instance's own.
LEMMA CreateDefaultMessengerInvariant ==
    ASSUME IInv, UNCHANGED layerFailed, NEW t \in Threads, NEW m \in Messengers,
           CreateDefaultMessenger(t, m)
    PROVE  IInv'
<1>1. TypeInv'
  BY DEF IInv, TypeInv, CallInv, CreateDefaultMessenger, Return, Goto
<1>2. MutexInv'
  BY ConstantsAssumption
     DEF IInv, TypeInv, Holding, MutexInv, CreateDefaultMessenger, Return, Goto
<1>3. CallInv'
  BY DEF IInv, TypeInv, MutexInv, CallInv, CreateDefaultMessenger, Return, Goto
<1>4. InstanceInv'
  BY DEF IInv, MutexInv, CallInv, Holding, InstanceInv, At, CreateDefaultMessenger
<1>5. OwnerInv'
  BY DEF IInv, CallInv, InstanceInv, OwnerInv, Using, CreateDefaultMessenger, Return, Goto
<1>6. TrackedInv'
  BY ConstantsAssumption
     DEF IInv, TypeInv, CallInv, TrackedInv, Tracked, At, UsedAt, CreateDefaultMessenger,
         Return, Goto
<1>7. RecorderInv'
  BY DEF IInv, RecorderInv, UsedAt, CreateDefaultMessenger, Return, Goto
<1>8. ByInstanceInv'
  BY DEF IInv, TypeInv, MutexInv, CallInv, InstanceInv, RecorderInv, ByInstanceInv, At,
         Tracked, UsedAt, CreateDefaultMessenger, Return, Goto
<1>9. NoNullDeref'
  <2>1. current # Null /\ ~At("destroyed")
    BY Alone DEF CreateDefaultMessenger, IInv, CallInv, At, Holding
  <2> QED  BY <2>1, Dispatchable, Dispatched DEF CreateDefaultMessenger, IInv
<1> QED
  BY <1>1, <1>2, <1>3, <1>4, <1>5, <1>6, <1>7, <1>8, <1>9 DEF IInv

\* The chained messenger fails: an early return, with the instance active.
LEMMA DefaultMessengerFailsInvariant ==
    ASSUME IInv, UNCHANGED layerFailed, NEW t \in Threads, DefaultMessengerFails(t)
    PROVE  IInv'
<1>1. TypeInv'
  BY DEF IInv, TypeInv, DefaultMessengerFails, Return, rtVars, appVars, activeVars,
         runtimeVars, loggerVars, Goto
<1>2. MutexInv'
  BY ConstantsAssumption
     DEF IInv, TypeInv, Holding, MutexInv, DefaultMessengerFails, Return, Goto
<1>3. CallInv'
  BY DEF IInv, TypeInv, Using, CallInv, DefaultMessengerFails, Return, appVars,
         activeVars, runtimeVars, Goto
<1>4. InstanceInv'
  BY DEF IInv, InstanceInv, At, DefaultMessengerFails, Return, rtVars, appVars,
         activeVars, runtimeVars, Goto
<1>5. OwnerInv'
  BY DEF IInv, Using, OwnerInv, DefaultMessengerFails, Return, rtVars, appVars,
         activeVars, loggerVars, Goto
<1>6. TrackedInv'
  BY DEF IInv, TrackedInv, Tracked, At, UsedAt, DefaultMessengerFails, Return, rtVars,
         appVars, activeVars, runtimeVars, Goto
<1>7. RecorderInv'
  BY DEF IInv, RecorderInv, UsedAt, DefaultMessengerFails, Return, rtVars, loggerVars,
         Goto
<1>8. ByInstanceInv'
  BY DEF IInv, ByInstanceInv, At, Tracked, UsedAt, DefaultMessengerFails, Return, rtVars,
         activeVars, runtimeVars, loggerVars, Goto
<1>9. NoNullDeref'
  <2>1. current # Null /\ ~At("destroyed")
    BY Alone DEF DefaultMessengerFails, IInv, CallInv, At, Holding
  <2> QED  BY <2>1, Dispatchable, Dispatched DEF DefaultMessengerFails, IInv
<1> QED
  BY <1>1, <1>2, <1>3, <1>4, <1>5, <1>6, <1>7, <1>8, <1>9 DEF IInv

-----------------------------------------------------------------------------
(* Destroying an instance.                                                 *)

\* xrDestroyInstance takes the mutex: no call has one of the instance's messengers in hand.
LEMMA EnterDestroyInvariant ==
    ASSUME IInv, UNCHANGED layerFailed, NEW t \in Threads, EnterDestroy(t)
    PROVE  IInv'
<1>1. TypeInv'
  BY DEF IInv, TypeInv, Holding, EnterDestroy, Enter, rtVars, activeVars, runtimeVars,
         loggerVars, Goto
<1>2. MutexInv'
  BY ConstantsAssumption DEF IInv, TypeInv, Holding, MutexInv, EnterDestroy, Enter, Goto
<1>3. CallInv'
  BY ConstantsAssumption
     DEF IInv, TypeInv, MutexInv, CallInv, InstanceInv, Using, EnterDestroy,
         UsingInstance, Enter, activeVars, Goto
<1>4. InstanceInv'
  BY DEF IInv, InstanceInv, At, EnterDestroy, Enter, rtVars, activeVars, runtimeVars, Goto
<1>5. OwnerInv'
  BY DEF IInv, Using, OwnerInv, EnterDestroy, Enter, rtVars, activeVars, Goto
<1>6. TrackedInv'
  BY ConstantsAssumption
     DEF IInv, TypeInv, CallInv, TrackedInv, Tracked, At, EnterDestroy, Enter, rtVars,
         activeVars, runtimeVars, Goto
<1>7. RecorderInv'
  BY DEF IInv, RecorderInv, UsedAt, EnterDestroy, Enter, rtVars, loggerVars, Goto
<1>8. ByInstanceInv'
  BY DEF IInv, ByInstanceInv, At, Tracked, UsedAt, EnterDestroy, Enter, rtVars,
         activeVars, runtimeVars, loggerVars, Goto
<1>9. NoNullDeref'
  BY DEF IInv, NoNullDeref, EnterDestroy
<1> QED
  BY <1>1, <1>2, <1>3, <1>4, <1>5, <1>6, <1>7, <1>8, <1>9 DEF IInv

\* The instance's own messenger is destroyed first.
LEMMA DestroyDefaultMessengerInvariant ==
    ASSUME IInv, UNCHANGED layerFailed, NEW t \in Threads, DestroyDefaultMessenger(t)
    PROVE  IInv'
<1>1. TypeInv'
  BY DEF IInv, TypeInv, DestroyDefaultMessenger, appVars, activeVars
<1>2. MutexInv'
  BY DEF IInv, MutexInv, DestroyDefaultMessenger
<1>3. CallInv'
  BY DEF IInv, CallInv, DestroyDefaultMessenger, appVars, activeVars
<1>4. InstanceInv'
  BY DEF IInv, InstanceInv, At, DestroyDefaultMessenger, appVars, activeVars
<1>5. OwnerInv'
  BY DEF IInv, OwnerInv, DestroyDefaultMessenger, appVars, activeVars
<1>6. TrackedInv'
  BY DEF IInv, TrackedInv, Tracked, At, DestroyDefaultMessenger, activeVars
<1>7. RecorderInv'
  BY DEF IInv, CallInv, Using, RecorderInv, UsedAt, DestroyDefaultMessenger
<1>8. ByInstanceInv'
  BY DEF IInv, TypeInv, CallInv, Using, ByInstanceInv, At, Tracked, UsedAt,
         DestroyDefaultMessenger, activeVars
<1>9. NoNullDeref'
  <2>1. current # Null /\ ~At("destroyed")
    BY Alone DEF DestroyDefaultMessenger, IInv, CallInv, At, Holding
  <2>2. messengerOf[defaultMessenger] = current
    BY DEF DestroyDefaultMessenger, IInv, TrackedInv, At
  <2> QED  BY <2>1, <2>2, Dispatchable, Dispatched DEF DestroyDefaultMessenger, IInv
<1> QED
  BY <1>1, <1>2, <1>3, <1>4, <1>5, <1>6, <1>7, <1>8, <1>9 DEF IInv

\* The runtime destroys the instance, and its table and recorders go.
LEMMA TermDestroyInstanceInvariant ==
    ASSUME IInv, UNCHANGED layerFailed, NEW t \in Threads, TermDestroyInstance(t)
    PROVE  IInv'
<1>1. TypeInv'
  BY DEF IInv, TypeInv, CallInv, Holding, TermDestroyInstance, RemoveLogRecorders, Goto,
         appVars, activeVars
<1>2. MutexInv'
  BY DEF IInv, Holding, MutexInv, TermDestroyInstance, Goto
<1>3. CallInv'
  BY DEF IInv, CallInv, InstanceInv, Using, At, TermDestroyInstance, Goto, appVars,
         activeVars
<1>4. InstanceInv'
  BY DEF IInv, TypeInv, InstanceInv, At, TermDestroyInstance, Goto, appVars, activeVars
<1>5. OwnerInv'
  BY DEF IInv, CallInv, InstanceInv, OwnerInv, Using, TermDestroyInstance, Goto, appVars
<1>6. TrackedInv'
  BY DEF IInv, TrackedInv, Tracked, At, TermDestroyInstance, Goto, activeVars
<1>7. RecorderInv'
  BY DEF IInv, TypeInv, MutexInv, CallInv, TrackedInv, RecorderInv, ByInstanceInv, At,
         Tracked, UsedAt, TermDestroyInstance, RemoveLogRecorders, Goto
<1>8. ByInstanceInv'
  BY DEF IInv, TypeInv, CallInv, ByInstanceInv, At, TermDestroyInstance,
         RemoveLogRecorders, Goto
<1>9. NoNullDeref'
  <2>1. runtimeLoaded
    BY DEF TermDestroyInstance, IInv, CallInv, InstanceInv
  <2> QED  BY <2>1, RuntimeUsed DEF TermDestroyInstance, IInv
<1> QED
  BY <1>1, <1>2, <1>3, <1>4, <1>5, <1>6, <1>7, <1>8, <1>9 DEF IInv

\* The layers and the runtime are unloaded, and the mutex is released.
LEMMA FinishDestroyInvariant ==
    ASSUME IInv, UNCHANGED layerFailed, NEW t \in Threads, FinishDestroy(t)
    PROVE  IInv'
<1>1. TypeInv'
  BY DEF IInv, TypeInv, FinishDestroy, RemoveActive, UnloadRuntime, Return, rtVars,
         appVars, loggerVars, Goto
<1>2. MutexInv'
  BY ConstantsAssumption DEF IInv, TypeInv, Holding, MutexInv, FinishDestroy, Return, Goto
<1>3. CallInv'
  BY DEF IInv, TypeInv, MutexInv, CallInv, Using, FinishDestroy, Return, Goto
<1>4. InstanceInv'
  BY DEF IInv, CallInv, InstanceInv, FinishDestroy, RemoveActive, UnloadRuntime, rtVars,
         appVars
<1>5. OwnerInv'
  BY ConstantsAssumption
     DEF IInv, TypeInv, Using, OwnerInv, FinishDestroy, RemoveActive, Return, rtVars,
         appVars, loggerVars, Goto
<1>6. TrackedInv'
  BY DEF IInv, MutexInv, CallInv, InstanceInv, Holding, Using, At, TrackedInv, Tracked,
         UsedAt, FinishDestroy, RemoveActive, UnloadRuntime, Return, appVars, Goto
<1>7. RecorderInv'
  BY DEF IInv, RecorderInv, UsedAt, FinishDestroy, Return, rtVars, loggerVars, Goto
<1>8. ByInstanceInv'
  BY DEF IInv, CallInv, InstanceInv, ByInstanceInv, FinishDestroy, RemoveActive, Return,
         rtVars, loggerVars, Goto
<1>9. NoNullDeref'
  BY DEF IInv, NoNullDeref, FinishDestroy
<1> QED
  BY <1>1, <1>2, <1>3, <1>4, <1>5, <1>6, <1>7, <1>8, <1>9 DEF IInv

-----------------------------------------------------------------------------
(* Enumerating extensions.                                                 *)

\* xrEnumerateInstanceExtensionProperties takes the mutex.
LEMMA EnterEnumerateInvariant ==
    ASSUME IInv, UNCHANGED layerFailed, NEW t \in Threads, EnterEnumerate(t)
    PROVE  IInv'
<1>1. TypeInv'
  BY DEF IInv, TypeInv, Holding, EnterEnumerate, Enter, rtVars, appVars, activeVars,
         runtimeVars, loggerVars, Goto
<1>2. MutexInv'
  BY ConstantsAssumption DEF IInv, TypeInv, Holding, MutexInv, EnterEnumerate, Enter, Goto
<1>3. CallInv'
  BY DEF IInv, Using, CallInv, EnterEnumerate, Enter, rtVars, appVars, activeVars,
         runtimeVars, Goto
<1>4. InstanceInv'
  BY DEF IInv, InstanceInv, At, EnterEnumerate, Enter, rtVars, appVars, activeVars,
         runtimeVars, Goto
<1>5. OwnerInv'
  BY DEF IInv, Using, OwnerInv, EnterEnumerate, Enter, rtVars, appVars, activeVars,
         loggerVars, Goto
<1>6. TrackedInv'
  BY DEF IInv, TrackedInv, Tracked, At, UsedAt, EnterEnumerate, Enter, rtVars, appVars,
         activeVars, runtimeVars, Goto
<1>7. RecorderInv'
  BY DEF IInv, RecorderInv, UsedAt, EnterEnumerate, Enter, rtVars, loggerVars, Goto
<1>8. ByInstanceInv'
  BY DEF IInv, ByInstanceInv, At, Tracked, UsedAt, EnterEnumerate, Enter, rtVars,
         activeVars, runtimeVars, loggerVars, Goto
<1>9. NoNullDeref'
  BY DEF IInv, NoNullDeref, EnterEnumerate
<1> QED
  BY <1>1, <1>2, <1>3, <1>4, <1>5, <1>6, <1>7, <1>8, <1>9 DEF IInv

\* LoadRuntime: it stays as it is while an instance is active.
LEMMA EnumerateLoadsRuntimeInvariant ==
    ASSUME IInv, UNCHANGED layerFailed, NEW t \in Threads, EnumerateLoadsRuntime(t)
    PROVE  IInv'
<1>1. TypeInv'
  BY DEF IInv, TypeInv, Holding, EnumerateLoadsRuntime, LoadRuntime, Goto, rtVars,
         appVars, activeVars, loggerVars
<1>2. MutexInv'
  BY DEF IInv, Holding, MutexInv, EnumerateLoadsRuntime, Goto
<1>3. CallInv'
  BY DEF IInv, Using, CallInv, EnumerateLoadsRuntime, LoadRuntime, Goto, rtVars, appVars,
         activeVars
<1>4. InstanceInv'
  BY DEF IInv, InstanceInv, At, EnumerateLoadsRuntime, LoadRuntime, Goto, rtVars,
         appVars, activeVars
<1>5. OwnerInv'
  BY DEF IInv, Using, OwnerInv, EnumerateLoadsRuntime, Goto, rtVars, appVars, activeVars,
         loggerVars
<1>6. TrackedInv'
  BY DEF IInv, TrackedInv, Tracked, At, UsedAt, EnumerateLoadsRuntime, LoadRuntime, Goto,
         rtVars, appVars, activeVars
<1>7. RecorderInv'
  BY DEF IInv, RecorderInv, UsedAt, EnumerateLoadsRuntime, Goto, rtVars, loggerVars
<1>8. ByInstanceInv'
  BY DEF IInv, ByInstanceInv, At, Tracked, UsedAt, EnumerateLoadsRuntime, LoadRuntime,
         Goto, rtVars, activeVars, loggerVars
<1>9. NoNullDeref'
  BY DEF IInv, NoNullDeref, EnumerateLoadsRuntime
<1> QED
  BY <1>1, <1>2, <1>3, <1>4, <1>5, <1>6, <1>7, <1>8, <1>9 DEF IInv

\* Without a runtime there is nothing to read.
LEMMA EnumerateWithoutRuntimeInvariant ==
    ASSUME IInv, UNCHANGED layerFailed, NEW t \in Threads, EnumerateWithoutRuntime(t)
    PROVE  IInv'
<1>1. TypeInv'
  BY DEF IInv, TypeInv, EnumerateWithoutRuntime, Return, rtVars, appVars, activeVars,
         runtimeVars, loggerVars, Goto
<1>2. MutexInv'
  BY ConstantsAssumption
     DEF IInv, TypeInv, Holding, MutexInv, EnumerateWithoutRuntime, Return, Goto
<1>3. CallInv'
  BY DEF IInv, Using, CallInv, EnumerateWithoutRuntime, Return, rtVars, appVars,
         activeVars, runtimeVars, Goto
<1>4. InstanceInv'
  BY DEF IInv, InstanceInv, At, EnumerateWithoutRuntime, Return, rtVars, appVars,
         activeVars, runtimeVars, Goto
<1>5. OwnerInv'
  BY DEF IInv, Using, OwnerInv, EnumerateWithoutRuntime, Return, rtVars, appVars,
         activeVars, loggerVars, Goto
<1>6. TrackedInv'
  BY DEF IInv, TrackedInv, Tracked, At, UsedAt, EnumerateWithoutRuntime, Return, rtVars,
         appVars, activeVars, runtimeVars, Goto
<1>7. RecorderInv'
  BY DEF IInv, RecorderInv, UsedAt, EnumerateWithoutRuntime, Return, rtVars, loggerVars,
         Goto
<1>8. ByInstanceInv'
  BY DEF IInv, ByInstanceInv, At, Tracked, UsedAt, EnumerateWithoutRuntime, Return,
         rtVars, activeVars, runtimeVars, loggerVars, Goto
<1>9. NoNullDeref'
  BY DEF IInv, NoNullDeref, EnumerateWithoutRuntime
<1> QED
  BY <1>1, <1>2, <1>3, <1>4, <1>5, <1>6, <1>7, <1>8, <1>9 DEF IInv

\* The extensions are read, and the runtime stays loaded.
LEMMA EnumeratePropertiesInvariant ==
    ASSUME IInv, UNCHANGED layerFailed, NEW t \in Threads, EnumerateProperties(t)
    PROVE  IInv'
<1>1. TypeInv'
  BY DEF IInv, TypeInv, EnumerateProperties, Return, rtVars, appVars, activeVars,
         runtimeVars, loggerVars, Goto
<1>2. MutexInv'
  BY ConstantsAssumption
     DEF IInv, TypeInv, Holding, MutexInv, EnumerateProperties, Return, Goto
<1>3. CallInv'
  BY DEF IInv, Using, CallInv, EnumerateProperties, Return, rtVars, appVars, activeVars,
         runtimeVars, Goto
<1>4. InstanceInv'
  BY DEF IInv, InstanceInv, At, EnumerateProperties, Return, rtVars, appVars, activeVars,
         runtimeVars, Goto
<1>5. OwnerInv'
  BY DEF IInv, Using, OwnerInv, EnumerateProperties, Return, rtVars, appVars, activeVars,
         loggerVars, Goto
<1>6. TrackedInv'
  BY DEF IInv, TrackedInv, Tracked, At, UsedAt, EnumerateProperties, Return, rtVars,
         appVars, activeVars, runtimeVars, Goto
<1>7. RecorderInv'
  BY DEF IInv, RecorderInv, UsedAt, EnumerateProperties, Return, rtVars, loggerVars, Goto
<1>8. ByInstanceInv'
  BY DEF IInv, ByInstanceInv, At, Tracked, UsedAt, EnumerateProperties, Return, rtVars,
         activeVars, runtimeVars, loggerVars, Goto
<1>9. NoNullDeref'
  <2>1. runtimeLoaded
    BY DEF EnumerateProperties, IInv, CallInv
  <2> QED  BY <2>1, RuntimeUsed DEF EnumerateProperties, IInv
<1> QED
  BY <1>1, <1>2, <1>3, <1>4, <1>5, <1>6, <1>7, <1>8, <1>9 DEF IInv

-----------------------------------------------------------------------------
(* Messengers, outside the mutex.                                          *)

\* The runtime creates a messenger, which the call owns.
LEMMA CreateMessengerInvariant ==
    ASSUME IInv, UNCHANGED layerFailed, NEW t \in Threads, NEW m \in Messengers,
           CreateMessenger(t, m)
    PROVE  IInv'
<1>1. TypeInv'
  BY DEF IInv, TypeInv, Using, CreateMessenger, Goto, appVars, activeVars, runtimeVars,
         loggerVars
<1>2. MutexInv'
  BY DEF IInv, Holding, MutexInv, CreateMessenger, Goto
<1>3. CallInv'
  BY DEF IInv, TypeInv, CallInv, CreateMessenger, Goto, appVars, activeVars, runtimeVars
<1>4. InstanceInv'
  BY DEF IInv, InstanceInv, At, CreateMessenger, Goto, appVars, activeVars, runtimeVars
<1>5. OwnerInv'
  BY ConstantsAssumption
     DEF IInv, TypeInv, CallInv, InstanceInv, OwnerInv, TrackedInv, RecorderInv,
         ByInstanceInv, At, UsedAt, CreateMessenger, Goto, appVars, activeVars, loggerVars
<1>6. TrackedInv'
  BY DEF IInv, CallInv, TrackedInv, Tracked, At, UsedAt, CreateMessenger, Goto, appVars,
         activeVars, runtimeVars
<1>7. RecorderInv'
  BY DEF IInv, TypeInv, RecorderInv, UsedAt, CreateMessenger, Goto, loggerVars
<1>8. ByInstanceInv'
  BY DEF IInv, ByInstanceInv, At, Tracked, UsedAt, CreateMessenger, Goto, activeVars,
         runtimeVars, loggerVars
<1>9. NoNullDeref'
  BY Lent, Dispatched DEF CreateMessenger, IInv
<1> QED
  BY <1>1, <1>2, <1>3, <1>4, <1>5, <1>6, <1>7, <1>8, <1>9 DEF IInv

\* The recorder of a messenger that the call owns.
LEMMA AddLogRecorderInvariant ==
    ASSUME IInv, UNCHANGED layerFailed, NEW t \in Threads, AddLogRecorder(t)
    PROVE  IInv'
<1>1. TypeInv'
  BY DEF IInv, TypeInv, CallInv, OwnerInv, Using, AddLogRecorder, Goto, rtVars, appVars,
         activeVars, runtimeVars
<1>2. MutexInv'
  BY DEF IInv, Holding, MutexInv, AddLogRecorder, Goto
<1>3. CallInv'
  BY DEF IInv, Using, CallInv, AddLogRecorder, Goto, rtVars, appVars, activeVars,
         runtimeVars
<1>4. InstanceInv'
  BY DEF IInv, InstanceInv, At, AddLogRecorder, Goto, rtVars, appVars, activeVars,
         runtimeVars
<1>5. OwnerInv'
  BY DEF IInv, Using, OwnerInv, AddLogRecorder, Goto, rtVars, appVars, activeVars
<1>6. TrackedInv'
  BY DEF IInv, TrackedInv, Tracked, At, UsedAt, AddLogRecorder, Goto, rtVars, appVars,
         activeVars, runtimeVars
<1>7. RecorderInv'
  BY DEF IInv, TypeInv, OwnerInv, Using, RecorderInv, UsedAt, AddLogRecorder, Goto, rtVars
<1>8. ByInstanceInv'
  BY DEF IInv, TypeInv, CallInv, InstanceInv, OwnerInv, RecorderInv, ByInstanceInv,
         Using, At, Tracked, UsedAt, AddLogRecorder, Goto, rtVars, activeVars, runtimeVars
<1>9. NoNullDeref'
  BY DEF IInv, NoNullDeref, AddLogRecorder
<1> QED
  BY <1>1, <1>2, <1>3, <1>4, <1>5, <1>6, <1>7, <1>8, <1>9 DEF IInv

\* The call hands the messenger over to the application.
LEMMA TrackDebugMessengerInvariant ==
    ASSUME IInv, UNCHANGED layerFailed, NEW t \in Threads, TrackDebugMessenger(t)
    PROVE  IInv'
<1>1. TypeInv'
  BY DEF IInv, TypeInv, OwnerInv, Holding, TrackDebugMessenger, Return, rtVars,
         activeVars, loggerVars, Goto
<1>2. MutexInv'
  BY DEF IInv, Holding, MutexInv, TrackDebugMessenger, Return, Goto
<1>3. CallInv'
  BY DEF IInv, TypeInv, Using, CallInv, TrackDebugMessenger, Return, rtVars, activeVars,
         Goto
<1>4. InstanceInv'
  BY DEF IInv, CallInv, Using, InstanceInv, At, TrackDebugMessenger, rtVars, activeVars
<1>5. OwnerInv'
  BY DEF IInv, TypeInv, OwnerInv, RecorderInv, Using, UsedAt, TrackDebugMessenger,
         Return, rtVars, activeVars, loggerVars, Goto
<1>6. TrackedInv'
  BY DEF IInv, TypeInv, CallInv, InstanceInv, OwnerInv, Using, At, TrackedInv, Tracked,
         UsedAt, TrackDebugMessenger, Return, activeVars, Goto
<1>7. RecorderInv'
  BY DEF IInv, RecorderInv, UsedAt, TrackDebugMessenger, Return, rtVars, loggerVars, Goto
<1>8. ByInstanceInv'
  BY DEF IInv, TypeInv, CallInv, OwnerInv, Using, At, ByInstanceInv, Tracked, UsedAt,
         TrackDebugMessenger, Return, rtVars, activeVars, loggerVars, Goto
<1>9. NoNullDeref'
  <2>1. runtimeLoaded
    BY Lent DEF TrackDebugMessenger, IInv, CallInv, Using
  <2> QED  BY <2>1, RuntimeUsed DEF TrackDebugMessenger, IInv
<1> QED
  BY <1>1, <1>2, <1>3, <1>4, <1>5, <1>6, <1>7, <1>8, <1>9 DEF IInv

\* The application gives a messenger up to the call that destroys it.
LEMMA DestroyMessengerInvariant ==
    ASSUME IInv, UNCHANGED layerFailed, NEW t \in Threads, NEW m \in Messengers,
           DestroyMessenger(t, m)
    PROVE  IInv'
<1>1. TypeInv'
  BY DEF IInv, TypeInv, Using, DestroyMessenger, Goto, rtVars, activeVars, runtimeVars,
         loggerVars
<1>2. MutexInv'
  BY DEF IInv, Holding, MutexInv, DestroyMessenger, Goto
<1>3. CallInv'
  BY DEF IInv, CallInv, InstanceInv, DestroyMessenger, Goto, runtimeVars
<1>4. InstanceInv'
  BY DEF IInv, InstanceInv, At, DestroyMessenger, Goto, rtVars, activeVars, runtimeVars
<1>5. OwnerInv'
  BY DEF IInv, TypeInv, OwnerInv, RecorderInv, DestroyMessenger, Goto, rtVars,
         activeVars, loggerVars
<1>6. TrackedInv'
  BY DEF IInv, TypeInv, TrackedInv, Tracked, At, UsedAt, DestroyMessenger, Goto, rtVars,
         activeVars, runtimeVars
<1>7. RecorderInv'
  BY DEF IInv, RecorderInv, UsedAt, DestroyMessenger, Goto, rtVars, loggerVars
<1>8. ByInstanceInv'
  BY DEF IInv, ByInstanceInv, At, Tracked, UsedAt, DestroyMessenger, Goto, rtVars,
         activeVars, runtimeVars, loggerVars
<1>9. NoNullDeref'
  <2>1. app # Null /\ ~At("destroy") /\ ~At("destroyed")
    BY DEF DestroyMessenger, IInv, InstanceInv, CallInv, At
  <2>2. messengerOf[m] = current
    BY <2>1 DEF DestroyMessenger, IInv, TrackedInv
  <2> QED  BY <2>1, <2>2, Lent, Dispatched DEF DestroyMessenger, IInv
<1> QED
  BY <1>1, <1>2, <1>3, <1>4, <1>5, <1>6, <1>7, <1>8, <1>9 DEF IInv

\* The recorder goes first.
LEMMA RemoveLogRecorderInvariant ==
    ASSUME IInv, UNCHANGED layerFailed, NEW t \in Threads, RemoveLogRecorder(t)
    PROVE  IInv'
<1>1. TypeInv'
  BY DEF IInv, TypeInv, Using, RemoveLogRecorder, Goto, rtVars, appVars, activeVars,
         runtimeVars
<1>2. MutexInv'
  BY DEF IInv, Holding, MutexInv, RemoveLogRecorder, Goto
<1>3. CallInv'
  BY DEF IInv, Using, CallInv, RemoveLogRecorder, Goto, rtVars, appVars, activeVars,
         runtimeVars
<1>4. InstanceInv'
  BY DEF IInv, InstanceInv, At, RemoveLogRecorder, Goto, rtVars, appVars, activeVars,
         runtimeVars
<1>5. OwnerInv'
  BY DEF IInv, Using, OwnerInv, RemoveLogRecorder, Goto, rtVars, appVars, activeVars
<1>6. TrackedInv'
  BY DEF IInv, TrackedInv, Tracked, At, UsedAt, RemoveLogRecorder, Goto, rtVars, appVars,
         activeVars, runtimeVars
<1>7. RecorderInv'
  BY DEF IInv, TypeInv, OwnerInv, Using, RecorderInv, UsedAt, RemoveLogRecorder, Goto,
         rtVars
<1>8. ByInstanceInv'
  BY DEF IInv, TypeInv, CallInv, OwnerInv, Using, At, ByInstanceInv, Tracked, UsedAt,
         RemoveLogRecorder, Goto, rtVars, activeVars, runtimeVars
<1>9. NoNullDeref'
  BY DEF IInv, NoNullDeref, RemoveLogRecorder
<1> QED
  BY <1>1, <1>2, <1>3, <1>4, <1>5, <1>6, <1>7, <1>8, <1>9 DEF IInv

\* The runtime interface forgets the messenger.
LEMMA ForgetDebugMessengerInvariant ==
    ASSUME IInv, UNCHANGED layerFailed, NEW t \in Threads, ForgetDebugMessenger(t)
    PROVE  IInv'
<1>1. TypeInv'
  BY DEF IInv, TypeInv, OwnerInv, Using, ForgetDebugMessenger, Goto, rtVars, appVars,
         activeVars, loggerVars
<1>2. MutexInv'
  BY DEF IInv, Holding, MutexInv, ForgetDebugMessenger, Goto
<1>3. CallInv'
  BY DEF IInv, Using, CallInv, ForgetDebugMessenger, Goto, rtVars, appVars, activeVars
<1>4. InstanceInv'
  BY DEF IInv, InstanceInv, At, ForgetDebugMessenger, Goto, rtVars, appVars, activeVars
<1>5. OwnerInv'
  BY DEF IInv, Using, OwnerInv, ForgetDebugMessenger, Goto, rtVars, appVars, activeVars,
         loggerVars
<1>6. TrackedInv'
  BY DEF IInv, TypeInv, CallInv, OwnerInv, Using, At, TrackedInv, Tracked, UsedAt,
         ForgetDebugMessenger, Goto, appVars, activeVars
<1>7. RecorderInv'
  BY DEF IInv, RecorderInv, UsedAt, ForgetDebugMessenger, Goto, rtVars, loggerVars
<1>8. ByInstanceInv'
  BY DEF IInv, TypeInv, ByInstanceInv, At, Tracked, UsedAt, ForgetDebugMessenger, Goto,
         rtVars, activeVars, loggerVars
<1>9. NoNullDeref'
  <2>1. runtimeLoaded
    BY Lent DEF ForgetDebugMessenger, IInv, CallInv, Using
  <2> QED  BY <2>1, RuntimeUsed DEF ForgetDebugMessenger, IInv
<1> QED
  BY <1>1, <1>2, <1>3, <1>4, <1>5, <1>6, <1>7, <1>8, <1>9 DEF IInv

\* The runtime destroys the messenger.
LEMMA ReleaseMessengerInvariant ==
    ASSUME IInv, UNCHANGED layerFailed, NEW t \in Threads, ReleaseMessenger(t)
    PROVE  IInv'
<1>1. TypeInv'
  BY DEF IInv, TypeInv, ReleaseMessenger, Return, appVars, activeVars, runtimeVars,
         loggerVars, Goto
<1>2. MutexInv'
  BY DEF IInv, Holding, MutexInv, ReleaseMessenger, Return, Goto
<1>3. CallInv'
  BY DEF IInv, Using, CallInv, ReleaseMessenger, Return, appVars, activeVars,
         runtimeVars, Goto
<1>4. InstanceInv'
  BY DEF IInv, InstanceInv, At, ReleaseMessenger, Return, appVars, activeVars,
         runtimeVars, Goto
<1>5. OwnerInv'
  BY DEF IInv, TypeInv, Using, OwnerInv, ReleaseMessenger, Return, appVars, activeVars,
         loggerVars, Goto
<1>6. TrackedInv'
  BY DEF IInv, TrackedInv, Tracked, At, UsedAt, ReleaseMessenger, Return, appVars,
         activeVars, runtimeVars, Goto
<1>7. RecorderInv'
  BY DEF IInv, TypeInv, OwnerInv, Using, RecorderInv, UsedAt, ReleaseMessenger, Return,
         loggerVars, Goto
<1>8. ByInstanceInv'
  BY DEF IInv, ByInstanceInv, At, Tracked, UsedAt, ReleaseMessenger, Return, activeVars,
         runtimeVars, loggerVars, Goto
<1>9. NoNullDeref'
  BY DEF IInv, NoNullDeref, ReleaseMessenger
<1> QED
  BY <1>1, <1>2, <1>3, <1>4, <1>5, <1>6, <1>7, <1>8, <1>9 DEF IInv

-----------------------------------------------------------------------------
(* Failures of a layer.                                                    *)

\* A layer fails a creation on its way back.
LEMMA LayerFailsInvariant ==
    ASSUME IInv, layerFailed' = TRUE, NEW t \in Threads, LayerFails(t)
    PROVE  IInv'
<1>1. TypeInv'
  BY DEF IInv, TypeInv, Holding, LayerFails, Goto, rtVars, appVars, activeVars,
         runtimeVars, loggerVars
<1>2. MutexInv'
  BY DEF IInv, Holding, MutexInv, LayerFails, Goto
<1>3. CallInv'
  BY DEF IInv, Using, CallInv, LayerFails, Goto, rtVars, appVars, activeVars, runtimeVars
<1>4. InstanceInv'
  BY DEF IInv, InstanceInv, At, LayerFails, Goto, rtVars, appVars, activeVars, runtimeVars
<1>5. OwnerInv'
  BY DEF IInv, Using, OwnerInv, LayerFails, Goto, rtVars, appVars, activeVars, loggerVars
<1>6. TrackedInv'
  BY DEF IInv, TrackedInv, Tracked, At, UsedAt, LayerFails, Goto, rtVars, appVars,
         activeVars, runtimeVars
<1>7. RecorderInv'
  BY DEF IInv, RecorderInv, UsedAt, LayerFails, Goto, rtVars, loggerVars
<1>8. ByInstanceInv'
  BY DEF IInv, ByInstanceInv, At, Tracked, UsedAt, LayerFails, Goto, rtVars, activeVars,
         runtimeVars, loggerVars
<1>9. NoNullDeref'
  BY DEF IInv, NoNullDeref, LayerFails
<1> QED
  BY <1>1, <1>2, <1>3, <1>4, <1>5, <1>6, <1>7, <1>8, <1>9 DEF IInv

\* A layer fails a destruction on its way down.
LEMMA LayerFailsDestroyInvariant ==
    ASSUME IInv, layerFailed' = TRUE, NEW t \in Threads, LayerFailsDestroy(t)
    PROVE  IInv'
<1>1. TypeInv'
  BY DEF IInv, TypeInv, Holding, LayerFailsDestroy, Goto, rtVars, appVars, activeVars,
         runtimeVars, loggerVars
<1>2. MutexInv'
  BY DEF IInv, Holding, MutexInv, LayerFailsDestroy, Goto
<1>3. CallInv'
  BY DEF IInv, Using, CallInv, LayerFailsDestroy, Goto, appVars, activeVars, runtimeVars
<1>4. InstanceInv'
  BY DEF IInv, TypeInv, InstanceInv, At, LayerFailsDestroy, Goto, appVars, activeVars,
         runtimeVars
<1>5. OwnerInv'
  BY DEF IInv, Using, OwnerInv, LayerFailsDestroy, Goto, rtVars, appVars, activeVars,
         loggerVars
<1>6. TrackedInv'
  BY DEF IInv, TrackedInv, Tracked, At, LayerFailsDestroy, Goto, rtVars, activeVars,
         runtimeVars
<1>7. RecorderInv'
  BY DEF IInv, RecorderInv, UsedAt, LayerFailsDestroy, Goto, rtVars, loggerVars
<1>8. ByInstanceInv'
  BY DEF IInv, TypeInv, ByInstanceInv, At, LayerFailsDestroy, Goto, rtVars, loggerVars
<1>9. NoNullDeref'
  BY DEF IInv, NoNullDeref, LayerFailsDestroy
<1> QED
  BY <1>1, <1>2, <1>3, <1>4, <1>5, <1>6, <1>7, <1>8, <1>9 DEF IInv

-----------------------------------------------------------------------------
(* The specification.                                                      *)

\* The initial states.
LEMMA InitInvariant == Init => IInv
<1> SUFFICES ASSUME Init PROVE IInv
  OBVIOUS
<1>1. TypeInv
  BY DEF Init, TypeInv
<1>2. MutexInv /\ CallInv /\ OwnerInv
  BY ConstantsAssumption DEF Init, MutexInv, CallInv, OwnerInv, Holding, Using
<1>3. Tracked = {} /\ \A steps : "idle" \notin steps => UsedAt(steps) = {}
  BY DEF Init, Tracked, UsedAt
<1>4. InstanceInv
  BY DEF Init, InstanceInv, At
<1>5. TrackedInv /\ RecorderInv
  BY <1>3 DEF Init, TrackedInv, RecorderInv, At
<1>6. ByInstanceInv /\ NoNullDeref
  BY <1>3 DEF Init, ByInstanceInv, NoNullDeref
<1> QED
  BY <1>1, <1>2, <1>4, <1>5, <1>6 DEF IInv

\* The invariant is about the state only.
LEMMA StutterInvariant ==
    ASSUME IInv, UNCHANGED vars
    PROVE  IInv'
<1>1. TypeInv' /\ MutexInv' /\ NoNullDeref'
  BY DEF vars, IInv, TypeInv, MutexInv, NoNullDeref
<1>2. CallInv' /\ InstanceInv' /\ OwnerInv'
  BY DEF vars, IInv, CallInv, InstanceInv, OwnerInv, At
<1>3. TrackedInv' /\ RecorderInv' /\ ByInstanceInv'
  BY DEF vars, IInv, TrackedInv, RecorderInv, ByInstanceInv, At, UsedAt, Tracked
<1> QED  BY <1>1, <1>2, <1>3 DEF IInv

\* Every step keeps the invariant.
LEMMA NextInvariant ==
    ASSUME IInv, [Next]_vars
    PROVE  IInv'
<1>1. CASE UNCHANGED vars
  BY <1>1, StutterInvariant
<1>2. ASSUME UNCHANGED layerFailed, NEW t \in Threads, Create(t)
      PROVE  IInv'
  BY <1>2, EnterCreateInvariant, CreateRejectedInvariant, CreateLoadsRuntimeInvariant,
     CreateFailsInvariant, LoadApiLayersInvariant, ChainFailsInvariant,
     TermCreateInstanceInvariant, SetActiveInvariant, CleanUpInvariant,
     CreateDefaultMessengerInvariant, DefaultMessengerFailsInvariant
     DEF Create
<1>3. ASSUME UNCHANGED layerFailed, NEW t \in Threads, Destroy(t)
      PROVE  IInv'
  BY <1>3, EnterDestroyInvariant, DestroyDefaultMessengerInvariant, TermDestroyInstanceInvariant,
     FinishDestroyInvariant
     DEF Destroy
<1>4. ASSUME UNCHANGED layerFailed, NEW t \in Threads, Enumerate(t)
      PROVE  IInv'
  BY <1>4, EnterEnumerateInvariant, EnumerateLoadsRuntimeInvariant,
     EnumerateWithoutRuntimeInvariant, EnumeratePropertiesInvariant
     DEF Enumerate
<1>5. ASSUME UNCHANGED layerFailed, NEW t \in Threads, Messenger(t)
      PROVE  IInv'
  BY <1>5, CreateMessengerInvariant, AddLogRecorderInvariant, TrackDebugMessengerInvariant,
     DestroyMessengerInvariant, RemoveLogRecorderInvariant, ForgetDebugMessengerInvariant,
     ReleaseMessengerInvariant
     DEF Messenger
<1>6. ASSUME layerFailed' = TRUE, NEW t \in Threads, LayerFailure(t)
      PROVE  IInv'
  BY <1>6, LayerFailsInvariant, LayerFailsDestroyInvariant DEF LayerFailure
<1> QED
  BY <1>1, <1>2, <1>3, <1>4, <1>5, <1>6, Zenon DEF Next

\* The inductive invariant holds throughout.
THEOREM Invariant == Spec => []IInv
<1>1. IInv /\ [Next]_vars => IInv'
  BY NextInvariant
<1> QED
  BY <1>1, InitInvariant, PTL DEF Spec

\* The invariant names what is loaded, and whose the recorders are.
LEMMA UsedIsThere == IInv => NothingUsedGone
BY DEF IInv, TypeInv, CallInv, InstanceInv, RecorderInv, NothingUsedGone,
       RuntimeStaysLoaded,
       RecordersAlive

\* No entry point goes through a runtime or a table that is gone, and no recorder calls a
\* messenger that has been destroyed, whatever calls of loader_core.cpp overlap, are
\* rejected or fail.
THEOREM NothingIsUsedGone == Spec => []NothingUsedGone
<1>1. IInv => NothingUsedGone
  BY UsedIsThere
<1> QED
  BY <1>1, Invariant, PTL

\* Between calls no messenger is in the hands of a call.
LEMMA Between ==
    ASSUME IInv
    PROVE  QuiescentAgreement
<1> SUFFICES ASSUME Quiet PROVE
        /\ app \in {current, Null}
        /\ runtimeLoaded \/ current = Null
        /\ dispatchTables = {current} \ {Null} /\ dispatchTables \subseteq rtInstances
        /\ recorders = rtMessengers
        /\ recorders = UNION {recordersByInstance[i] : i \in Instances}
        /\ {m \in Messengers : messengerOf[m] # Null}
             = appMessengers \cup ({defaultMessenger} \ {Null})
        /\ \A m \in Messengers : messengerOf[m] # Null => messengerOf[m] = current
        /\ ~layerFailed =>
               /\ rtInstances = dispatchTables
               /\ recorders = {m \in Messengers : messengerOf[m] # Null}
  BY DEF QuiescentAgreement
<1>1. \A step : step # "idle" => ~At(step)
  BY DEF Quiet, At
<1>2. \A steps : "idle" \notin steps => UsedAt(steps) = {}
  BY DEF Quiet, UsedAt
<1>3. /\ app \in {current, Null} /\ (runtimeLoaded \/ current = Null)
      /\ dispatchTables = {current} \ {Null} /\ dispatchTables \subseteq rtInstances
      /\ ~layerFailed => rtInstances = dispatchTables
  BY <1>1 DEF IInv, InstanceInv
<1>4. recorders = rtMessengers
  BY <1>2 DEF IInv, RecorderInv
<1>5. /\ Tracked = appMessengers \cup ({defaultMessenger} \ {Null})
      /\ \A m \in Tracked : messengerOf[m] = current
  BY <1>1, <1>2 DEF IInv, TrackedInv
<1>6. recorders = UNION {recordersByInstance[i] : i \in Instances}
  BY DEF IInv, ByInstanceInv
<1>7. ASSUME ~layerFailed PROVE recorders = Tracked
  <2>1. \A i \in Instances : i # current => recordersByInstance[i] = {}
    BY <1>7 DEF IInv, ByInstanceInv
  <2>2. CASE current = Null
    <3>1. recorders = {}
      BY <1>6, <2>1, <2>2, ConstantsAssumption
    <3> QED  BY <1>5, <2>2, <3>1 DEF Tracked
  <2>3. CASE current # Null
    <3>1. recordersByInstance[current] = Tracked
      BY <1>1, <1>2, <2>3 DEF IInv, ByInstanceInv
    <3>2. current \in Instances
      BY <2>3 DEF IInv, TypeInv
    <3>3. \A m : m \in recorders <=> m \in recordersByInstance[current]
      BY <1>6, <2>1, <3>2
    <3> QED  BY <3>1, <3>3
  <2> QED  BY <2>2, <2>3
<1> QED
  BY <1>3, <1>4, <1>5, <1>6, <1>7 DEF Tracked

\* Between calls the loader knows just what is alive: the tables are those of the active
\* instance, the recorders those of the runtime's messengers, and as long as no layer has
\* failed a call half-way nothing is left over.
THEOREM Agreement == Spec => []QuiescentAgreement
<1>1. IInv => QuiescentAgreement
  BY Between
<1> QED
  BY <1>1, Invariant, PTL

-----------------------------------------------------------------------------
(* Sequences.  The induction is over the members of a set, so that the       *)
(* provers can use it.                                                      *)

\* A set with 0 that is closed under successor holds every natural number.
LEMMA Induction ==
    ASSUME NEW T, 0 \in T, \A n \in Nat : n \in T => n + 1 \in T
    PROVE  Nat \subseteq T
<1>1. SUFFICES ASSUME Nat \ T # {} PROVE FALSE
  OBVIOUS
<1>2. PICK x \in Nat \ T : \A y \in Nat \ T : <<y, x>> \notin OpToRel(<, Nat)
  BY <1>1, NatLessThanWellFounded, WFMin, Zenon
<1>3. x # 0 /\ x - 1 \in Nat /\ x - 1 + 1 = x /\ x - 1 < x
  OBVIOUS
<1>4. x - 1 \notin T
  BY <1>3
<1>5. <<x - 1, x>> \in OpToRel(<, Nat)
  BY <1>3, Zenon DEF OpToRel
<1> QED
  BY <1>2, <1>3, <1>4, <1>5, Zenon

\* What FlattenSeq computes, step by step.
LEMMA FlattenSteps ==
    ASSUME NEW seqs, NEW n \in Nat, Len(seqs) = n, n # 0
    PROVE  \E flatten :
              /\ FlattenSeq(seqs) = flatten[n]
              /\ flatten[1] = seqs[1]
              /\ \A i, j \in 1..n : i = j + 1 => flatten[i] = flatten[j] \o seqs[i]
<1> DEFINE Step(f, i) == f[i - 1] \o seqs[i]
           Defined(k) == \E f : f = [i \in 1..k |-> IF i = 1 THEN seqs[i] ELSE Step(f, i)]
           T == {k \in Nat : Defined(k)}
           flatten == CHOOSE f : f = [i \in 1..n |-> IF i = 1 THEN seqs[i] ELSE Step(f, i)]
<1>1. FlattenSeq(seqs) = flatten[n]
  BY Zenon DEF FlattenSeq
<1>2. \A f, g, i : f[i - 1] = g[i - 1] => Step(f, i) = Step(g, i)
  BY Zenon
<1> HIDE DEF Step, T
<1>3. Nat \subseteq T
  <2>1. 0 \in T
    <3>1. [i \in 1..0 |-> 0]
            = [i \in 1..0 |-> IF i = 1 THEN seqs[i] ELSE Step([j \in 1..0 |-> 0], i)]
      OBVIOUS
    <3> QED  BY <3>1, Zenon DEF T
  <2>2. ASSUME NEW k \in Nat, k \in T PROVE k + 1 \in T
    <3>1. PICK f : f = [i \in 1..k |-> IF i = 1 THEN seqs[i] ELSE Step(f, i)]
      BY <2>2 DEF T
    <3> DEFINE g == [i \in 1..(k + 1) |-> IF i = 1 THEN seqs[i] ELSE Step(f, i)]
    <3>2. ASSUME NEW i \in 1..(k + 1), i # 1 PROVE Step(f, i) = Step(g, i)
      <4>1. i - 1 \in 1..k
        BY <3>2
      <4>2. f[i - 1] = g[i - 1]
        BY <3>1, <4>1
      <4> QED  BY <1>2, <4>2
    <3>3. g = [i \in 1..(k + 1) |-> IF i = 1 THEN seqs[i] ELSE Step(g, i)]
      BY <3>2
    <3> HIDE DEF g
    <3>4. Defined(k + 1)
      BY <3>3
    <3> QED  BY <3>4 DEF T
  <2> QED  BY <2>1, <2>2, Induction
<1>4. flatten = [i \in 1..n |-> IF i = 1 THEN seqs[i] ELSE Step(flatten, i)]
  BY <1>3, Zenon DEF T
<1> HIDE DEF flatten
<1>5. flatten[1] = seqs[1] /\ \A i \in 1..n : i # 1 => flatten[i] = Step(flatten, i)
  BY <1>4
<1>6. ASSUME NEW i \in 1..n, NEW j \in 1..n, i = j + 1
      PROVE  flatten[i] = flatten[j] \o seqs[i]
  <2>1. i # 1 /\ i - 1 = j
    BY <1>6
  <2>2. flatten[i] = flatten[i - 1] \o seqs[i]
    BY <1>5, <2>1, Zenon DEF Step
  <2> QED  BY <2>1, <2>2
<1> QED
  BY <1>1, <1>5, <1>6

\* The elements of a concatenation.
LEMMA ToSetConcat ==
    ASSUME NEW S, NEW s \in Seq(S), NEW t \in Seq(S)
    PROVE  s \o t \in Seq(S) /\ ToSet(s \o t) = ToSet(s) \cup ToSet(t)
<1> DEFINE u == s \o t
<1>1. u \in Seq(S) /\ DOMAIN u = 1..(Len(s) + Len(t)) /\ Len(s) \in Nat /\ Len(t) \in Nat
  OBVIOUS
<1>2. DOMAIN s = 1..Len(s) /\ DOMAIN t = 1..Len(t)
  OBVIOUS
<1>3. \A i \in DOMAIN s : u[i] = s[i]
  OBVIOUS
<1>4. \A i \in DOMAIN t : u[i + Len(s)] = t[i]
  OBVIOUS
<1> HIDE DEF u
<1>5. \A i \in DOMAIN s : i \in DOMAIN u
  BY <1>1, <1>2
<1>6. \A i \in DOMAIN t : i + Len(s) \in DOMAIN u
  BY <1>1, <1>2
<1>7. \A i \in DOMAIN u : i \in DOMAIN s \/ \E j \in DOMAIN t : i = j + Len(s)
  <2> SUFFICES ASSUME NEW i \in DOMAIN u, i \notin DOMAIN s
               PROVE  \E j \in DOMAIN t : i = j + Len(s)
    OBVIOUS
  <2>1. i - Len(s) \in DOMAIN t /\ i = (i - Len(s)) + Len(s)
    BY <1>1, <1>2
  <2> QED  BY <2>1
<1>8. ToSet(u) \subseteq ToSet(s) \cup ToSet(t)
  BY <1>3, <1>4, <1>7 DEF ToSet
<1>9. ToSet(s) \subseteq ToSet(u) /\ ToSet(t) \subseteq ToSet(u)
  BY <1>3, <1>4, <1>5, <1>6 DEF ToSet
<1> QED
  BY <1>1, <1>8, <1>9 DEF u

\* An element more.
LEMMA AppendElements ==
    ASSUME NEW S, NEW s \in Seq(S), NEW x \in S
    PROVE  Append(s, x) \in Seq(S) /\ ToSet(Append(s, x)) = ToSet(s) \cup {x}
<1> DEFINE u == Append(s, x)
           n == Len(s)
<1>1. n \in Nat /\ DOMAIN s = 1..n
  OBVIOUS
<1>2. /\ u \in Seq(S) /\ DOMAIN u = 1..n \cup {n + 1} /\ u[n + 1] = x
      /\ \A i \in 1..n : u[i] = s[i]
  OBVIOUS
<1> HIDE DEF u, n
<1>3. ToSet(u) = ToSet(s) \cup {x}
  BY <1>1, <1>2 DEF ToSet
<1> QED
  BY <1>2, <1>3 DEF u

\* FlattenSeq has the elements of the sequences, and no others.
LEMMA FlattenElements ==
    ASSUME NEW S, NEW seqs \in Seq(Seq(S))
    PROVE  /\ FlattenSeq(seqs) \in Seq(S)
           /\ ToSet(FlattenSeq(seqs)) = UNION {ToSet(seqs[i]) : i \in DOMAIN seqs}
<1>1. CASE Len(seqs) = 0
  BY <1>1 DEF FlattenSeq, ToSet
<1>2. CASE Len(seqs) # 0
  <2> DEFINE n == Len(seqs)
  <2>1. n \in Nat /\ DOMAIN seqs = 1..n
    OBVIOUS
  <2> HIDE DEF n
  <2>2. PICK flatten : /\ FlattenSeq(seqs) = flatten[n]
                       /\ flatten[1] = seqs[1]
                       /\ \A i, j \in 1..n : i = j + 1 => flatten[i] = flatten[j] \o seqs[i]
    BY <1>2, <2>1, FlattenSteps, Zenon DEF n
  <2> DEFINE Elements(k) == UNION {ToSet(seqs[i]) : i \in 1..k}
             Right(k) == flatten[k] \in Seq(S) /\ ToSet(flatten[k]) = Elements(k)
             T == {k \in Nat : k \in 1..n => Right(k)}
  <2>3. Elements(1) = ToSet(seqs[1])
    OBVIOUS
  <2>4. \A k \in Nat : Elements(k + 1) = Elements(k) \cup ToSet(seqs[k + 1])
    <3> SUFFICES ASSUME NEW k \in Nat
                 PROVE  Elements(k + 1) = Elements(k) \cup ToSet(seqs[k + 1])
      OBVIOUS
    <3>1. 1..(k + 1) = 1..k \cup {k + 1}
      OBVIOUS
    <3> QED  BY <3>1
  <2> HIDE DEF Elements
  <2>5. ASSUME NEW k \in Nat, k \in 1..n => Right(k), k + 1 \in 1..n
        PROVE  Right(k + 1)
    <3>1. seqs[k + 1] \in Seq(S)
      BY <2>1, <2>5
    <3>2. CASE k = 0
      <4>1. k + 1 = 1
        BY <3>2
      <4> QED  BY <2>2, <2>3, <3>1, <4>1
    <3>3. CASE k # 0
      <4>1. k \in 1..n
        BY <2>1, <2>5, <3>3
      <4>3. flatten[k + 1] = flatten[k] \o seqs[k + 1]
        BY <2>2, <2>5, <4>1, Zenon
      <4>4. /\ flatten[k + 1] \in Seq(S)
            /\ ToSet(flatten[k + 1]) = ToSet(flatten[k]) \cup ToSet(seqs[k + 1])
        BY <2>5, <3>1, <4>1, <4>3, ToSetConcat
      <4> QED  BY <2>4, <2>5, <4>1, <4>4
    <3> QED  BY <3>2, <3>3
  <2> HIDE DEF Right
  <2>6. Nat \subseteq T
    <3>1. 0 \in T /\ \A k \in Nat : k \in T => k + 1 \in T
      BY <2>5
    <3> HIDE DEF T
    <3> QED  BY <3>1, Induction
  <2>7. n \in Nat /\ n \in 1..n
    BY <1>2, <2>1 DEF n
  <2>8. Right(n)
    BY <2>6, <2>7
  <2> QED
    BY <2>1, <2>2, <2>8 DEF Right, Elements
<1> QED
  BY <1>1, <1>2

\* A function on the places of a sequence is a sequence.
LEMMA SeqOfType ==
    ASSUME NEW P, NEW path \in Seq(P), NEW V, NEW seq, DOMAIN seq = DOMAIN path,
           seq = [i \in DOMAIN seq |-> seq[i]], \A i \in DOMAIN path : seq[i] \in V
    PROVE  seq \in Seq(V)
<1>1. Len(path) \in Nat /\ DOMAIN path = 1..Len(path)
  OBVIOUS
<1>2. seq \in [1..Len(path) -> V]
  BY <1>1
<1> QED
  BY <1>1, <1>2, SeqDef

\* The entries that are kept are those in a set.
LEMMA KeptElements ==
    ASSUME NEW S, NEW s \in Seq(S), NEW keep, NEW parts \in [DOMAIN s -> Seq(S)],
           \A i \in DOMAIN s : ToSet(parts[i]) = {s[i]} \cap keep
    PROVE  /\ FlattenSeq(parts) \in Seq(S)
           /\ \A x : x \in ToSet(FlattenSeq(parts)) <=> x \in ToSet(s) /\ x \in keep
<1>1. parts \in Seq(Seq(S)) /\ DOMAIN parts = DOMAIN s
  <2>1. Len(s) \in Nat /\ DOMAIN s = 1..Len(s)
    OBVIOUS
  <2> QED  BY <2>1, SeqDef
<1>3. UNION {ToSet(parts[i]) : i \in DOMAIN parts} = ToSet(s) \cap keep
  BY <1>1 DEF ToSet
<1> QED
  BY ONLY <1>1, <1>3, FlattenElements

\* The largest place.
LEMMA LastIsMax ==
    ASSUME NEW k \in Nat, NEW s \in SUBSET (1..k), k \in s
    PROVE  Max(s) = k
<1>1. \A y \in s : k >= y
  OBVIOUS
<1>2. Max(s) \in s /\ \A y \in s : Max(s) >= y
  BY <1>1, Zenon DEF Max
<1>3. Max(s) \in 1..k /\ Max(s) >= k
  BY <1>2
<1> QED  BY <1>3

\* How often a file is in a list.
Times(f, list) == Cardinality({i \in DOMAIN list : list[i] = f})

\* Nothing is in the empty list.
LEMMA NoTimes == \A f : Times(f, <<>>) = 0
<1>1. \A f : {i \in DOMAIN <<>> : <<>>[i] = f} = {}
  OBVIOUS
<1> QED
  BY <1>1, FS_EmptySet DEF Times

\* How often is a number.
LEMMA TimesType ==
    ASSUME NEW list \in Seq(Manifests), NEW f
    PROVE  IsFiniteSet({i \in DOMAIN list : list[i] = f}) /\ Times(f, list) \in Nat
<1> DEFINE places == {i \in DOMAIN list : list[i] = f}
<1>1. Len(list) \in Nat /\ places \subseteq 1..Len(list) /\ IsFiniteSet(1..Len(list))
  BY FS_Interval
<1> HIDE DEF places
<1> QED
  BY <1>1, FS_Subset, FS_CardinalityType DEF Times, places

\* A list with one file more.
LEMMA TimesAfterAppend ==
    ASSUME NEW list \in Seq(Manifests), NEW g \in Manifests, NEW f
    PROVE  /\ Times(f, list) \in Nat
           /\ Times(f, Append(list, g)) = Times(f, list) + (IF f = g THEN 1 ELSE 0)
<1> DEFINE n == Len(list)
           longer == Append(list, g)
           before == {i \in DOMAIN list : list[i] = f}
           after == {i \in DOMAIN longer : longer[i] = f}
<1>1. n \in Nat /\ DOMAIN list = 1..n
  OBVIOUS
<1>2. /\ DOMAIN longer = 1..n \cup {n + 1} /\ longer[n + 1] = g
      /\ \A i \in 1..n : longer[i] = list[i]
  OBVIOUS
<1> HIDE DEF n, longer
<1>3. n + 1 \notin 1..n
  BY <1>1
<1>4. IsFiniteSet(before) /\ Cardinality(before) \in Nat /\ n + 1 \notin before
  BY <1>1, <1>3, TimesType DEF Times
<1>5. after = before \cup (IF f = g THEN {n + 1} ELSE {})
  BY <1>1, <1>2
<1> HIDE DEF before, after
<1>6. Cardinality(before \cup {n + 1}) = Cardinality(before) + 1
  BY <1>4, FS_AddElement
<1>7. Cardinality(after) = Cardinality(before) + (IF f = g THEN 1 ELSE 0)
  <2>1. CASE f = g
    BY <1>5, <1>6, <2>1
  <2>2. CASE f # g
    <3>1. after = before
      BY <1>5, <2>2
    <3> QED  BY <1>4, <2>2, <3>1
  <2> QED  BY <2>1, <2>2
<1> QED
  BY <1>4, <1>7 DEF Times, before, after, longer

\* How often a file is in a concatenation.
LEMMA TimesConcat ==
    ASSUME NEW s \in Seq(Manifests), NEW t \in Seq(Manifests), NEW f
    PROVE  Times(f, s \o t) = Times(f, s) + Times(f, t)
<1> DEFINE n == Len(s)
           u == s \o t
           left == {i \in DOMAIN s : s[i] = f}
           right == {i \in DOMAIN t : t[i] = f}
           moved == {i \in (n + 1)..(n + Len(t)) : u[i] = f}
           places == {i \in DOMAIN u : u[i] = f}
<1>1. n \in Nat /\ Len(t) \in Nat /\ DOMAIN s = 1..n /\ DOMAIN t = 1..Len(t)
  OBVIOUS
<1>2. /\ DOMAIN u = 1..(n + Len(t))
      /\ \A i \in 1..n : u[i] = s[i]
      /\ \A i \in 1..Len(t) : u[i + n] = t[i]
  OBVIOUS
<1> HIDE DEF n, u
<1>3. IsFiniteSet(left) /\ IsFiniteSet(right) /\ Cardinality(left) \in Nat /\ Cardinality(right) \in Nat
  BY TimesType, FS_CardinalityType
<1>4. places = left \cup moved /\ left \cap moved = {}
  <2>1. \A i : i \in 1..(n + Len(t)) <=> i \in 1..n \/ i \in (n + 1)..(n + Len(t))
    BY <1>1
  <2>2. \A i \in (n + 1)..(n + Len(t)) : i \notin 1..n
    BY <1>1
  <2> QED  BY <1>1, <1>2, <2>1, <2>2
<1>5. IsFiniteSet(moved) /\ Cardinality(moved) = Cardinality(right)
  <2> DEFINE shift == [i \in right |-> i + n]
  <2>1. \A i \in right : i + n \in moved
    BY <1>1, <1>2
  <2>2. \A j \in moved : j - n \in right /\ (j - n) + n = j
    <3> SUFFICES ASSUME NEW j \in moved PROVE j - n \in right /\ (j - n) + n = j
      OBVIOUS
    <3>1. j - n \in 1..Len(t) /\ (j - n) + n = j
      BY <1>1
    <3> QED  BY <1>1, <1>2, <3>1
  <2>3. \A i, j \in right : i + n = j + n => i = j
    BY <1>1
  <2> HIDE DEF right, moved
  <2>4. shift \in Bijection(right, moved)
    BY <2>1, <2>2, <2>3 DEF Bijection, Injection, Surjection, IsInjective
  <2>5. ExistsBijection(right, moved)
    BY <2>4 DEF ExistsBijection
  <2> QED  BY <1>3, <2>5, FS_Bijection
<1> HIDE DEF left, right, moved, places
<1>6. Cardinality(places) = Cardinality(left) + Cardinality(right)
  <2>1. Cardinality({}) = 0
    BY FS_EmptySet
  <2>2. Cardinality(left \cup moved)
           = Cardinality(left) + Cardinality(moved) - Cardinality(left \cap moved)
    BY <1>3, <1>5, FS_Union
  <2>3. Cardinality(left \cap moved) = 0 /\ Cardinality(places) = Cardinality(left \cup moved)
    BY <1>4, <2>1
  <2> QED  BY ONLY <1>3, <1>5, <2>2, <2>3
<1> QED
  BY <1>6 DEF Times, left, right, places, u

\* A list of one file.
LEMMA TimesOne ==
    ASSUME NEW g \in Manifests, NEW f
    PROVE  Times(f, <<g>>) = IF f = g THEN 1 ELSE 0
<1> DEFINE places == {i \in DOMAIN <<g>> : <<g>>[i] = f}
<1>1. DOMAIN <<g>> = {1} /\ <<g>>[1] = g
  OBVIOUS
<1>2. places = IF f = g THEN {1} ELSE {}
  BY <1>1
<1> HIDE DEF places
<1> QED
  BY <1>2, FS_Singleton, FS_EmptySet DEF Times, places

\* What is in a list is there at least once.
LEMMA TimesMember ==
    ASSUME NEW s \in Seq(Manifests), NEW f
    PROVE  /\ Times(f, s) \in Nat
           /\ Times(f, s) # 0 <=> f \in ToSet(s)
<1> DEFINE places == {i \in DOMAIN s : s[i] = f}
<1>1. IsFiniteSet(places) /\ Times(f, s) \in Nat
  BY TimesType
<1>2. places # {} <=> f \in ToSet(s)
  BY DEF ToSet
<1> HIDE DEF places
<1>3. Cardinality(places) = 0 <=> places = {}
  BY <1>1, FS_EmptySet
<1> QED
  BY <1>1, <1>2, <1>3 DEF Times, places

\* How many of the first places are in a set.
LEMMA CountStep ==
    ASSUME NEW where, NEW k \in Nat
    PROVE  /\ Cardinality((1..0) \cap where) = 0 /\ Cardinality((1..k) \cap where) \in Nat
           /\ Cardinality((1..(k + 1)) \cap where)
                 = Cardinality((1..k) \cap where) + (IF k + 1 \in where THEN 1 ELSE 0)
<1> DEFINE old == (1..k) \cap where
<1>1. IsFiniteSet(old)
  <2>1. old \subseteq 1..k /\ IsFiniteSet(1..k)
    BY FS_Interval
  <2> HIDE DEF old
  <2> QED  BY <2>1, FS_Subset
<1>2. k + 1 \notin old
  OBVIOUS
<1>3. (1..(k + 1)) \cap where = IF k + 1 \in where THEN old \cup {k + 1} ELSE old
  OBVIOUS
<1>4. (1..0) \cap where = {}
  OBVIOUS
<1> HIDE DEF old
<1>5. Cardinality(old \cup {k + 1}) = Cardinality(old) + 1 /\ Cardinality(old) \in Nat
  BY <1>1, <1>2, FS_AddElement, FS_CardinalityType
<1>6. Cardinality((1..k) \cap where) = Cardinality(old)
  BY DEF old
<1>7. Cardinality((1..(k + 1)) \cap where)
         = Cardinality(IF k + 1 \in where THEN old \cup {k + 1} ELSE old)
  BY <1>3
<1> DEFINE now == Cardinality((1..(k + 1)) \cap where)
           before == Cardinality((1..k) \cap where)
<1>8. now = before + (IF k + 1 \in where THEN 1 ELSE 0) /\ before \in Nat
  <2> HIDE DEF now, before
  <2> QED  BY <1>5, <1>6, <1>7 DEF now, before
<1> QED
  BY <1>4, <1>8, FS_EmptySet

\* How often a file is in sequences that have it once or not at all.
LEMMA FlattenTimes ==
    ASSUME NEW seqs \in Seq(Seq(Manifests)), NEW f, NEW where,
           \A i \in DOMAIN seqs : Times(f, seqs[i]) = IF i \in where THEN 1 ELSE 0
    PROVE  Times(f, FlattenSeq(seqs)) = Cardinality(DOMAIN seqs \cap where)
<1>1. CASE Len(seqs) = 0
  <2>1. FlattenSeq(seqs) = <<>> /\ DOMAIN seqs \cap where = {}
    BY <1>1 DEF FlattenSeq
  <2> QED  BY <2>1, NoTimes, FS_EmptySet
<1>2. CASE Len(seqs) # 0
  <2> DEFINE n == Len(seqs)
  <2>1. n \in Nat /\ DOMAIN seqs = 1..n
    OBVIOUS
  <2> HIDE DEF n
  <2>2. PICK flatten : /\ FlattenSeq(seqs) = flatten[n]
                       /\ flatten[1] = seqs[1]
                       /\ \A i, j \in 1..n : i = j + 1 => flatten[i] = flatten[j] \o seqs[i]
    BY <1>2, <2>1, FlattenSteps, Zenon DEF n
  <2> DEFINE Count(k) == Cardinality((1..k) \cap where)
             Right(k) == flatten[k] \in Seq(Manifests) /\ Times(f, flatten[k]) = Count(k)
             T == {k \in Nat : k \in 1..n => Right(k)}
  <2>3. ASSUME NEW k \in Nat
        PROVE  Count(k) \in Nat /\ Count(k + 1) = Count(k) + (IF k + 1 \in where THEN 1 ELSE 0)
    BY CountStep
  <2>4. Count(0) = 0 /\ 0 + 1 = 1
    <3>1. (1..0) \cap where = {}
      OBVIOUS
    <3> QED  BY <3>1, FS_EmptySet
  <2> HIDE DEF Count
  <2>5. ASSUME NEW k \in Nat, k \in 1..n => Right(k), k + 1 \in 1..n
        PROVE  Right(k + 1)
    <3>1. seqs[k + 1] \in Seq(Manifests)
      BY <2>1, <2>5
    <3>2. CASE k = 0
      <4>1. k + 1 = 1
        BY <3>2
      <4>2. Times(f, seqs[1]) = IF 1 \in where THEN 1 ELSE 0
        BY <2>1, <2>5, <4>1
      <4>3. Count(1) = IF 1 \in where THEN 1 ELSE 0
        <5>1. Count(0 + 1) = Count(0) + (IF 0 + 1 \in where THEN 1 ELSE 0)
          BY <2>3
        <5> QED  BY <2>4, <5>1
      <4>4. flatten[k + 1] = seqs[1] /\ Count(k + 1) = Count(1) /\ seqs[1] = seqs[k + 1]
        BY <2>2, <4>1
      <4> QED  BY <3>1, <4>2, <4>3, <4>4
    <3>3. CASE k # 0
      <4>1. k \in 1..n
        BY <2>1, <2>5, <3>3
      <4>2. flatten[k + 1] = flatten[k] \o seqs[k + 1]
        BY <2>2, <2>5, <4>1, Zenon
      <4>3. flatten[k] \in Seq(Manifests) /\ Times(f, flatten[k]) = Count(k)
        BY <2>5, <4>1
      <4>4. Times(f, flatten[k + 1]) = Times(f, flatten[k]) + Times(f, seqs[k + 1])
        BY <3>1, <4>2, <4>3, TimesConcat
      <4>5. flatten[k + 1] \in Seq(Manifests)
        BY <3>1, <4>2, <4>3
      <4>6. Times(f, seqs[k + 1]) = IF k + 1 \in where THEN 1 ELSE 0
        BY <2>1, <2>5
      <4> QED  BY <2>3, <4>3, <4>4, <4>5, <4>6
    <3> QED  BY <3>2, <3>3
  <2> HIDE DEF Right
  <2>6. Nat \subseteq T
    <3>1. 0 \in T /\ \A k \in Nat : k \in T => k + 1 \in T
      BY <2>5
    <3> HIDE DEF T
    <3> QED  BY <3>1, Induction
  <2>7. n \in Nat /\ n \in 1..n
    BY <1>2, <2>1 DEF n
  <2>8. Right(n)
    BY <2>6, <2>7
  <2> QED
    BY <2>1, <2>2, <2>8 DEF Right, Count
<1> QED
  BY <1>1, <1>2

\* How often a file is among those of a list that are kept.
LEMMA KeptTimes ==
    ASSUME NEW s \in Seq(Manifests), NEW keep, NEW f,
           NEW parts, DOMAIN parts = DOMAIN s, parts = [i \in DOMAIN parts |-> parts[i]],
           \A i \in DOMAIN s : parts[i] = IF s[i] \in keep THEN <<s[i]>> ELSE <<>>
    PROVE  Times(f, FlattenSeq(parts)) = IF f \in keep THEN Times(f, s) ELSE 0
<1> DEFINE where == {i \in DOMAIN s : s[i] \in keep /\ s[i] = f}
<1>1. \A i \in DOMAIN s : s[i] \in Manifests
  OBVIOUS
<1>2. \A i \in DOMAIN s : parts[i] \in Seq(Manifests)
  <2>1. \A g \in Manifests : <<g>> \in Seq(Manifests)
    OBVIOUS
  <2>2. <<>> \in Seq(Manifests)
    OBVIOUS
  <2> QED  BY <1>1, <2>1, <2>2
<1>3. parts \in Seq(Seq(Manifests))
  BY <1>2, SeqOfType
<1>4. ASSUME NEW i \in DOMAIN parts
      PROVE  Times(f, parts[i]) = IF i \in where THEN 1 ELSE 0
  <2>1. CASE s[i] \in keep
    BY <1>1, <1>4, <2>1, TimesOne
  <2>2. CASE s[i] \notin keep
    BY <1>4, <2>2, NoTimes
  <2> QED  BY <2>1, <2>2
<1>5. DOMAIN parts \cap where = IF f \in keep THEN {i \in DOMAIN s : s[i] = f} ELSE {}
  OBVIOUS
<1> HIDE DEF where
<1>6. Times(f, FlattenSeq(parts)) = Cardinality(DOMAIN parts \cap where)
  BY ONLY <1>3, <1>4, FlattenTimes
<1> QED
  BY <1>5, <1>6, FS_EmptySet DEF Times

-----------------------------------------------------------------------------
(* Finding manifest files.                                                 *)

\* The files of a path are those in its directories.
LEMMA FilesInElements ==
    ASSUME NEW P, NEW path \in Seq(P)
    PROVE  /\ FilesIn(path) \in Seq(Manifests)
           /\ ToSet(FilesIn(path)) = {f \in Manifests : f.dir \in ToSet(path)}
<1> DEFINE In(d) == {f \in Manifests : f.dir = d}
           seqs == [i \in DOMAIN path |-> Kept(Files, LAMBDA f : f.dir = path[i])]
<1>1. Files \in Seq(Manifests) /\ ToSet(Files) = Manifests
  BY FilesAssumption DEF Manifests
<1>2. ASSUME NEW i \in DOMAIN path
      PROVE  seqs[i] \in Seq(Manifests) /\ ToSet(seqs[i]) = In(path[i])
  <2> DEFINE parts == [j \in DOMAIN Files |->
                          IF Files[j].dir = path[i] THEN <<Files[j]>> ELSE <<>>]
  <2>1. \A j \in DOMAIN Files : Files[j] \in Manifests
    BY <1>1
  <2>2. parts \in [DOMAIN Files -> Seq(Manifests)]
    <3>1. <<>> \in Seq(Manifests) /\ \A j \in DOMAIN Files : <<Files[j]>> \in Seq(Manifests)
      BY <2>1
    <3> QED  BY <3>1
  <2>5. \A j \in DOMAIN Files : ToSet(parts[j]) = {Files[j]} \cap In(path[i])
    BY <2>1 DEF ToSet
  <2>3. seqs[i] = FlattenSeq(parts)
    BY Zenon DEF Kept
  <2> HIDE DEF In, seqs, parts
  <2>4. /\ seqs[i] \in Seq(Manifests)
        /\ ToSet(seqs[i]) = ToSet(Files) \cap In(path[i])
    <3> DEFINE keep == In(path[i])
    <3>1. \A j \in DOMAIN Files : ToSet(parts[j]) = {Files[j]} \cap keep
      BY <2>5
    <3> HIDE DEF keep
    <3>0. Files \in Seq(Manifests)
      BY <1>1
    <3>2. FlattenSeq(parts) \in Seq(Manifests)
      BY <2>2, <3>0, <3>1, KeptElements, Zenon
    <3>3. \A x : x \in ToSet(FlattenSeq(parts)) <=> x \in ToSet(Files) /\ x \in keep
      BY <2>2, <3>0, <3>1, KeptElements, Zenon
    <3> QED  BY <2>3, <3>2, <3>3 DEF keep
  <2> QED  BY <1>1, <2>4 DEF In
<1>3. /\ FilesIn(path) = FlattenSeq(seqs) /\ DOMAIN seqs = DOMAIN path
      /\ seqs = [i \in DOMAIN seqs |-> seqs[i]]
  BY Zenon DEF FilesIn
<1> HIDE DEF seqs, In
<1>4. seqs \in Seq(Seq(Manifests))
  BY <1>2, <1>3, SeqOfType
<1>5. ToSet(FilesIn(path)) = UNION {In(path[i]) : i \in DOMAIN path}
  BY <1>2, <1>3, <1>4, FlattenElements
<1>6. UNION {In(path[i]) : i \in DOMAIN path} = {f \in Manifests : f.dir \in ToSet(path)}
  BY DEF In, ToSet
<1> QED
  BY <1>3, <1>4, <1>5, <1>6, FlattenElements

\* A file of a path is found once for each time that its directory is in the path.
LEMMA FilesInTimes ==
    ASSUME NEW P, NEW path \in Seq(P), NEW f \in Manifests
    PROVE  Times(f, FilesIn(path)) = Cardinality({i \in DOMAIN path : path[i] = f.dir})
<1> DEFINE seqs == [i \in DOMAIN path |-> Kept(Files, LAMBDA g : g.dir = path[i])]
           where == {i \in DOMAIN path : path[i] = f.dir}
<1>1. Files \in Seq(Manifests) /\ IsInjective(Files) /\ f \in ToSet(Files)
  BY FilesAssumption DEF Manifests
<1>2. Times(f, Files) = 1
  <2>1. PICK i \in DOMAIN Files : Files[i] = f
    BY <1>1 DEF ToSet
  <2>2. {j \in DOMAIN Files : Files[j] = f} = {i}
    BY <1>1, <2>1 DEF IsInjective
  <2> QED  BY <2>2, FS_Singleton DEF Times
<1>3. ASSUME NEW i \in DOMAIN path
      PROVE  seqs[i] \in Seq(Manifests) /\ Times(f, seqs[i]) = IF i \in where THEN 1 ELSE 0
  <2> DEFINE parts == [j \in DOMAIN Files |->
                          IF Files[j].dir = path[i] THEN <<Files[j]>> ELSE <<>>]
             keep == {g \in Manifests : g.dir = path[i]}
  <2>1. seqs[i] = FlattenSeq(parts)
    BY Zenon DEF Kept
  <2>2. \A j \in DOMAIN Files : Files[j] \in Manifests
    BY <1>1
  <2>3. \A j \in DOMAIN Files : parts[j] = IF Files[j] \in keep THEN <<Files[j]>> ELSE <<>>
    BY <2>2
  <2>4. DOMAIN parts = DOMAIN Files /\ parts = [j \in DOMAIN parts |-> parts[j]]
    OBVIOUS
  <2>5. parts \in [DOMAIN Files -> Seq(Manifests)]
    <3>1. <<>> \in Seq(Manifests) /\ \A j \in DOMAIN Files : <<Files[j]>> \in Seq(Manifests)
      BY <2>2
    <3> QED  BY <3>1
  <2>6. \A j \in DOMAIN Files : ToSet(parts[j]) = {Files[j]} \cap keep
    BY <2>2 DEF ToSet
  <2> HIDE DEF parts, keep, seqs
  <2>7. FlattenSeq(parts) \in Seq(Manifests)
    BY <1>1, <2>5, <2>6, KeptElements, Zenon
  <2>8. Times(f, FlattenSeq(parts)) = IF f \in keep THEN Times(f, Files) ELSE 0
    BY ONLY <1>1, <2>3, <2>4, KeptTimes
  <2>9. f \in keep <=> i \in where
    BY DEF keep
  <2> QED  BY <1>2, <2>1, <2>7, <2>8, <2>9
<1>4. /\ FilesIn(path) = FlattenSeq(seqs) /\ DOMAIN seqs = DOMAIN path
      /\ seqs = [i \in DOMAIN seqs |-> seqs[i]]
  BY Zenon DEF FilesIn
<1>5. DOMAIN seqs \cap where = where
  OBVIOUS
<1> HIDE DEF seqs
<1>6. seqs \in Seq(Seq(Manifests))
  BY <1>3, <1>4, SeqOfType
<1>7. \A i \in DOMAIN seqs : Times(f, seqs[i]) = IF i \in where THEN 1 ELSE 0
  BY <1>3, <1>4
<1> HIDE DEF where
<1>8. Times(f, FlattenSeq(seqs)) = Cardinality(DOMAIN seqs \cap where)
  BY ONLY <1>6, <1>7, FlattenTimes
<1> QED
  BY <1>4, <1>5, <1>8 DEF where

\* What names a directory: an entry, or what the loader appends.
Words == STRING \cup {Root, ".local/share", Implicit, Explicit}

\* A list of directories gives a search path.
LEMMA CopiedType ==
    ASSUME NEW list \in Seq(Words), NEW relative \in Seq(Words)
    PROVE  CopyIncludedPaths(list, relative) \in Seq(Seq(Words))
<1> DEFINE ends == list # <<>> /\ (list = <<Root>> \/ Last(list) = Empty)
           kept == IF ends THEN Front(list) ELSE list
           path == [i \in DOMAIN kept |->
                       <<IF kept[i] = Empty THEN Root ELSE kept[i]>> \o relative]
<1>1. kept \in Seq(Words)
  <2>1. list # <<>> => Front(list) \in Seq(Words)
    BY DEF Front
  <2> QED  BY <2>1
<1>2. CopyIncludedPaths(list, relative) = path
  BY Zenon DEF CopyIncludedPaths
<1> HIDE DEF kept
<1>3. \A i \in DOMAIN kept : path[i] \in Seq(Words)
  <2> SUFFICES ASSUME NEW i \in DOMAIN kept PROVE path[i] \in Seq(Words)
    OBVIOUS
  <2> DEFINE first == IF kept[i] = Empty THEN Root ELSE kept[i]
  <2>1. first \in Words
    <3>1. Root \in Words
      BY DEF Words
    <3>2. kept[i] \in Words
      BY <1>1
    <3> QED  BY <3>1, <3>2
  <2>2. path[i] = <<first>> \o relative
    OBVIOUS
  <2> HIDE DEF first, path
  <2> QED  BY <2>1, <2>2
<1>4. path \in Seq(Seq(Words))
  <2>1. DOMAIN path = DOMAIN kept /\ path = [i \in DOMAIN path |-> path[i]]
    OBVIOUS
  <2> HIDE DEF path
  <2> QED  BY <1>1, <1>3, <2>1, SeqOfType
<1> QED
  BY <1>2, <1>4

\* What is searched is a sequence of directories.
LEMMA SearchPathType ==
    ASSUME NEW lists \in Lists, NEW kind \in {Implicit, Explicit}
    PROVE  SearchPath(lists, kind) \in Seq(Seq(Words))
<1> DEFINE Directories == Seq(Seq(Words))
           ofSystem == [i \in DOMAIN SysConfDirs |->
                           CopyIncludedPaths(<<SysConfDirs[i]>>, <<kind>>)]
           first  == CopyIncludedPaths(Default(lists.configDirs, FallbackConfigDirs), <<kind>>)
           second == FlattenSeq(ofSystem)
           third  == CopyIncludedPaths(Default(lists.dataDirs, FallbackDataDirs), <<kind>>)
           fourth == IF lists.dataHome # <<>> THEN CopyIncludedPaths(lists.dataHome, <<kind>>)
                     ELSE CopyIncludedPaths(lists.home, <<".local/share", kind>>)
<1>1. /\ <<kind>> \in Seq(Words) /\ <<".local/share", kind>> \in Seq(Words)
      /\ <<>> \in Seq(Words)
  <2>1. ".local/share" \in Words /\ kind \in Words
    BY DEF Words
  <2> QED  BY <2>1
<1>0. Seq(STRING) \subseteq Seq(Words)
  BY DEF Words
<1>2. /\ lists.apiLayerPath \in Seq(Words) /\ lists.dataHome \in Seq(Words)
      /\ lists.home \in Seq(Words)
      /\ Default(lists.configDirs, FallbackConfigDirs) \in Seq(Words)
      /\ Default(lists.dataDirs, FallbackDataDirs) \in Seq(Words)
  BY <1>0, FilesAssumption DEF Lists, Default
<1>3. second \in Directories
  <2>1. \A i \in DOMAIN SysConfDirs : <<SysConfDirs[i]>> \in Seq(Words)
    BY <1>0, FilesAssumption DEF Words
  <2>2. \A i \in DOMAIN SysConfDirs : ofSystem[i] \in Directories
    BY <1>1, <2>1, CopiedType
  <2>3. DOMAIN ofSystem = DOMAIN SysConfDirs /\ ofSystem = [i \in DOMAIN ofSystem |-> ofSystem[i]]
    OBVIOUS
  <2> HIDE DEF ofSystem, Directories
  <2>4. ofSystem \in Seq(Directories)
    BY <2>2, <2>3, FilesAssumption, SeqOfType
  <2> QED  BY <2>4, FlattenElements DEF Directories
<1>4. first \in Directories /\ third \in Directories /\ fourth \in Directories
  BY <1>1, <1>2, CopiedType
<1>5. CopyIncludedPaths(lists.apiLayerPath, <<>>) \in Directories
  BY <1>1, <1>2, CopiedType
<1>6. SearchPath(lists, kind) =
        IF kind = Explicit /\ lists.apiLayerPath # <<>>
        THEN CopyIncludedPaths(lists.apiLayerPath, <<>>)
        ELSE first \o second \o third \o fourth
  BY Zenon DEF SearchPath
<1> HIDE DEF first, second, third, fourth
<1>7. first \o second \o third \o fourth \in Directories
  BY <1>3, <1>4
<1> QED
  BY <1>5, <1>6, <1>7

\* The files found are the valid, and enabled, ones of the search path.
LEMMA FoundElements ==
    ASSUME NEW environment \in Environments, NEW kind \in {Implicit, Explicit}
    PROVE  /\ FindManifestFiles(kind, environment) \in Seq(Manifests)
           /\ \A f : f \in ToSet(FindManifestFiles(kind, environment)) <=>
                        /\ f \in Manifests /\ f.dir \in ToSet(SearchPath(environment.lists, kind))
                        /\ CreateIfValid(f, kind, environment.variables)
<1> DEFINE path == SearchPath(environment.lists, kind)
           files == FilesIn(path)
           keep == {f \in Manifests : CreateIfValid(f, kind, environment.variables)}
           parts == [i \in DOMAIN files |->
                        IF CreateIfValid(files[i], kind, environment.variables)
                        THEN <<files[i]>> ELSE <<>>]
<1>1. environment.lists \in Lists
  BY DEF Environments
<1>2. path \in Seq(Seq(Words))
  BY <1>1, SearchPathType
<1>3. FindManifestFiles(kind, environment) = FlattenSeq(parts)
  BY Zenon DEF FindManifestFiles, Kept
<1> HIDE DEF path
<1>4. files \in Seq(Manifests) /\ ToSet(files) = {f \in Manifests : f.dir \in ToSet(path)}
  BY <1>2, FilesInElements
<1> HIDE DEF files
<1>5. \A i \in DOMAIN files : files[i] \in Manifests
  BY <1>4
<1>6. parts \in [DOMAIN files -> Seq(Manifests)]
  <2>1. <<>> \in Seq(Manifests) /\ \A i \in DOMAIN files : <<files[i]>> \in Seq(Manifests)
    BY <1>5
  <2> QED  BY <2>1
<1>7. \A i \in DOMAIN files : ToSet(parts[i]) = {files[i]} \cap keep
  BY <1>5 DEF ToSet
<1> HIDE DEF parts, keep
<1>8. FlattenSeq(parts) \in Seq(Manifests)
  BY <1>4, <1>6, <1>7, KeptElements, Zenon
<1>9. \A f : f \in ToSet(FlattenSeq(parts)) <=> f \in ToSet(files) /\ f \in keep
  BY <1>4, <1>6, <1>7, KeptElements, Zenon
<1> QED
  BY <1>3, <1>4, <1>8, <1>9 DEF keep, path

\* A valid, enabled file is found as often as its directory is searched.
LEMMA FoundTimes ==
    ASSUME NEW environment \in Environments, NEW kind \in {Implicit, Explicit},
           NEW f \in Manifests
    PROVE  LET path == SearchPath(environment.lists, kind)
           IN  Times(f, FindManifestFiles(kind, environment)) =
                  IF CreateIfValid(f, kind, environment.variables)
                  THEN Cardinality({i \in DOMAIN path : path[i] = f.dir}) ELSE 0
<1> DEFINE path == SearchPath(environment.lists, kind)
           files == FilesIn(path)
           keep == {g \in Manifests : CreateIfValid(g, kind, environment.variables)}
           parts == [i \in DOMAIN files |->
                        IF CreateIfValid(files[i], kind, environment.variables)
                        THEN <<files[i]>> ELSE <<>>]
<1>1. path \in Seq(Seq(Words))
  BY SearchPathType DEF Environments
<1>2. FindManifestFiles(kind, environment) = FlattenSeq(parts)
  BY Zenon DEF FindManifestFiles, Kept
<1> HIDE DEF path
<1>3. files \in Seq(Manifests)
  BY <1>1, FilesInElements
<1>4. Times(f, files) = Cardinality({i \in DOMAIN path : path[i] = f.dir})
  BY <1>1, FilesInTimes
<1> HIDE DEF files
<1>5. \A i \in DOMAIN files : parts[i] = IF files[i] \in keep THEN <<files[i]>> ELSE <<>>
  BY <1>3
<1>6. DOMAIN parts = DOMAIN files /\ parts = [i \in DOMAIN parts |-> parts[i]]
  OBVIOUS
<1>7. f \in keep <=> CreateIfValid(f, kind, environment.variables)
  OBVIOUS
<1> HIDE DEF parts, keep
<1>8. Times(f, FlattenSeq(parts)) = IF f \in keep THEN Times(f, files) ELSE 0
  BY ONLY <1>3, <1>5, <1>6, KeptTimes
<1> QED
  BY <1>2, <1>4, <1>7, <1>8 DEF path

-----------------------------------------------------------------------------
(* Finding and loading layers.                                              *)

\* What FindLayers computes, name by name.
LEMMA EnableSteps ==
    ASSUME NEW wanted, NEW n \in Nat, DOMAIN (wanted.named \o wanted.layers) = 1..n
    PROVE  \E state :
              /\ FindLayers(wanted) = state[n]
              /\ state[0] = [files |-> FindManifestFiles(Implicit, wanted.environment),
                             all |-> TRUE,
                             explicit |-> FindManifestFiles(Explicit, wanted.environment)]
              /\ \A i \in 1..n :
                    state[i] = EnableLayer(state[i-1], (wanted.named \o wanted.layers)[i])
<1> DEFINE names == wanted.named \o wanted.layers
           base == [files |-> FindManifestFiles(Implicit, wanted.environment), all |-> TRUE,
                    explicit |-> FindManifestFiles(Explicit, wanted.environment)]
           Step(acc, i) == EnableLayer(acc, names[i])
           T == {k \in Nat : \E f : f = [s \in SUBSET (1..k) |->
                    IF s = {} THEN base ELSE Step(f[s \ {Max(s)}], Max(s))]}
           iter == CHOOSE f : f = [s \in SUBSET (1..n) |->
                    IF s = {} THEN base ELSE Step(f[s \ {Max(s)}], Max(s))]
           state == [i \in 0..n |-> iter[1..i]]
<1>1. FindLayers(wanted) = iter[1..n]
  <2>1. FindLayers(wanted) = FoldLeft(EnableLayer, base, names)
    BY Zenon DEF FindLayers
  <2>2. FoldLeft(EnableLayer, base, names) = iter[1..n]
    BY Zenon DEF FoldLeft, MapThenFoldSet
  <2> QED  BY <2>1, <2>2, Zenon
<1> HIDE DEF Step, T, base, names
<1>2. Nat \subseteq T
  <2>1. 0 \in T
    <3>1. [s \in SUBSET (1..0) |-> base] = [s \in SUBSET (1..0) |->
             IF s = {} THEN base ELSE Step([r \in SUBSET (1..0) |-> base][s \ {Max(s)}], Max(s))]
      OBVIOUS
    <3> QED  BY <3>1, Zenon DEF T
  <2>2. ASSUME NEW k \in Nat, k \in T PROVE k + 1 \in T
    <3>1. PICK f : f = [s \in SUBSET (1..k) |->
                    IF s = {} THEN base ELSE Step(f[s \ {Max(s)}], Max(s))]
      BY <2>2 DEF T
    <3> DEFINE g == [s \in SUBSET (1..(k+1)) |->
                       IF k+1 \in s THEN Step(f[s \ {k+1}], k+1) ELSE f[s]]
    <3>2. \A s \in SUBSET (1..k) : s \in SUBSET (1..(k+1)) /\ g[s] = f[s]
      OBVIOUS
    <3>6. \A i \in 1..(k+1) : i # k+1 => i \in 1..k
      OBVIOUS
    <3>3. ASSUME NEW s \in SUBSET (1..(k+1))
          PROVE  g[s] = IF s = {} THEN base ELSE Step(g[s \ {Max(s)}], Max(s))
      <4>1. CASE k+1 \in s
        <5>0. Max(s) = k+1
          BY <4>1, LastIsMax
        <5>1. Max(s) = k+1 /\ s \ {Max(s)} \in SUBSET (1..k)
          BY <3>6, <5>0
        <5>2. g[s] = Step(f[s \ {k+1}], k+1)
          BY <4>1
        <5> HIDE DEF g
        <5> QED  BY <3>2, <4>1, <5>1, <5>2
      <4>2. CASE k+1 \notin s
        <5>1. s \in SUBSET (1..k) /\ s \ {Max(s)} \in SUBSET (1..k)
          BY <3>6, <4>2
        <5>2. f[s] = IF s = {} THEN base ELSE Step(f[s \ {Max(s)}], Max(s))
          BY <3>1, <5>1
        <5> HIDE DEF g
        <5> QED  BY <3>2, <5>1, <5>2
      <4> QED  BY <4>1, <4>2
    <3>4. g = [s \in SUBSET (1..(k+1)) |-> g[s]]
      OBVIOUS
    <3> HIDE DEF g
    <3>5. g = [s \in SUBSET (1..(k+1)) |->
                 IF s = {} THEN base ELSE Step(g[s \ {Max(s)}], Max(s))]
      BY <3>3, <3>4
    <3>7. k+1 \in Nat
      OBVIOUS
    <3> QED  BY <3>5, <3>7, Zenon DEF T
  <2> QED  BY <2>1, <2>2, Induction
<1>3. iter = [s \in SUBSET (1..n) |-> IF s = {} THEN base ELSE Step(iter[s \ {Max(s)}], Max(s))]
  BY <1>2, Zenon DEF T
<1> HIDE DEF iter
<1>4. state[0] = base /\ state[n] = iter[1..n]
  BY <1>3
<1>5. ASSUME NEW i \in 1..n
      PROVE  state[i] = Step(state[i-1], i)
  <2>1. 1..i \in SUBSET (1..n) /\ 1..i # {} /\ i \in 0..n /\ i-1 \in 0..n
    OBVIOUS
  <2>2. Max(1..i) = i
    BY LastIsMax
  <2>3. (1..i) \ {i} = 1..(i-1)
    OBVIOUS
  <2> QED  BY <1>3, <2>1, <2>2, <2>3
<1> QED  BY <1>1, <1>4, <1>5 DEF Step, base, names

\* The files with a name.
LEMMA WithNameElements ==
    ASSUME NEW files \in Seq(Manifests), NEW name
    PROVE  /\ WithName(files, name) \in Seq(Manifests)
           /\ \A f : f \in ToSet(WithName(files, name)) <=> f \in ToSet(files) /\ f.name = name
<1> DEFINE keep == {f \in Manifests : f.name = name}
           parts == [i \in DOMAIN files |->
                        IF files[i].name = name THEN <<files[i]>> ELSE <<>>]
<1>1. WithName(files, name) = FlattenSeq(parts)
  BY Zenon DEF WithName, Kept
<1>2. \A i \in DOMAIN files : files[i] \in Manifests
  OBVIOUS
<1>3. parts \in [DOMAIN files -> Seq(Manifests)]
  <2>1. <<>> \in Seq(Manifests) /\ \A i \in DOMAIN files : <<files[i]>> \in Seq(Manifests)
    BY <1>2
  <2> QED  BY <2>1
<1>4. \A i \in DOMAIN files : ToSet(parts[i]) = {files[i]} \cap keep
  BY <1>2 DEF ToSet
<1> HIDE DEF parts, keep
<1>5. FlattenSeq(parts) \in Seq(Manifests)
  BY <1>3, <1>4, KeptElements, Zenon
<1>6. \A f : f \in ToSet(FlattenSeq(parts)) <=> f \in ToSet(files) /\ f \in keep
  BY <1>3, <1>4, KeptElements, Zenon
<1>7. ToSet(files) \subseteq Manifests
  BY <1>2 DEF ToSet
<1> QED
  BY <1>1, <1>5, <1>6, <1>7 DEF keep

\* How often the files with a name are there.
LEMMA WithNameTimes ==
    ASSUME NEW files \in Seq(Manifests), NEW name, NEW f \in Manifests
    PROVE  Times(f, WithName(files, name)) = IF f.name = name THEN Times(f, files) ELSE 0
<1> DEFINE keep == {g \in Manifests : g.name = name}
           parts == [i \in DOMAIN files |->
                        IF files[i].name = name THEN <<files[i]>> ELSE <<>>]
<1>1. WithName(files, name) = FlattenSeq(parts)
  BY Zenon DEF WithName, Kept
<1>2. \A i \in DOMAIN files : files[i] \in Manifests
  OBVIOUS
<1>3. \A i \in DOMAIN files : parts[i] = IF files[i] \in keep THEN <<files[i]>> ELSE <<>>
  BY <1>2
<1>4. DOMAIN parts = DOMAIN files /\ parts = [i \in DOMAIN parts |-> parts[i]]
  OBVIOUS
<1>5. f \in keep <=> f.name = name
  OBVIOUS
<1> HIDE DEF parts, keep
<1>6. Times(f, FlattenSeq(parts)) = IF f \in keep THEN Times(f, files) ELSE 0
  BY ONLY <1>3, <1>4, files \in Seq(Manifests), KeptTimes
<1> QED
  BY <1>1, <1>5, <1>6

\* The names of the files that are in a list.
LEMMA NamesTimes ==
    ASSUME NEW files \in Seq(Manifests), NEW name
    PROVE  name \in NamesOf(files) <=> \E f \in Manifests : f.name = name /\ Times(f, files) # 0
<1>1. \A f : Times(f, files) # 0 <=> f \in ToSet(files)
  BY TimesMember
<1>2. ToSet(files) \subseteq Manifests
  BY DEF ToSet
<1> QED
  BY <1>1, <1>2 DEF NamesOf

\* The names of the layers asked for, and how often FindLayers is to find a file.
Asked(wanted) == ToSet(wanted.named) \cup ToSet(wanted.layers)
Chosen(f, wanted) ==
    LET implicit == FindManifestFiles(Implicit, wanted.environment)
        explicit == FindManifestFiles(Explicit, wanted.environment)
    IN  IF f.name \in Asked(wanted) \ NamesOf(implicit) THEN Times(f, explicit)
                                                      ELSE Times(f, implicit)

\* FindLayers finds each implicit file, and each explicit one that is named unless an
\* implicit file has its name, as often as it is found in the search path, however often
\* it is named; and it knows whether there was a file for each name.
LEMMA FoundLayers ==
    ASSUME NEW environment \in Environments, NEW named \in Seq(STRING), NEW asked \in Seq(STRING),
           NEW wanted, wanted.environment = environment,
           wanted.named = named, wanted.layers = asked
    PROVE  /\ FindLayers(wanted).files \in Seq(Manifests)
           /\ \A f \in Manifests : Times(f, FindLayers(wanted).files) = Chosen(f, wanted)
           /\ FindLayers(wanted).all => Asked(wanted) \subseteq NamesOf(FindLayers(wanted).files)
<1> DEFINE implicit == FindManifestFiles(Implicit, environment)
           explicit == FindManifestFiles(Explicit, environment)
           names == wanted.named \o wanted.layers
           base == [files |-> implicit, all |-> TRUE, explicit |-> explicit]
           n == Len(names)
<1>2. implicit \in Seq(Manifests) /\ explicit \in Seq(Manifests)
  BY FoundElements
<1>3. names \in Seq(STRING) /\ ToSet(names) = ToSet(named) \cup ToSet(asked)
  BY ToSetConcat
<1>4. n \in Nat /\ DOMAIN names = 1..n
  BY <1>3
<1> HIDE DEF n
<1>5. PICK state :
         /\ FindLayers(wanted) = state[n]
         /\ state[0] = [files |-> FindManifestFiles(Implicit, wanted.environment),
                        all |-> TRUE,
                        explicit |-> FindManifestFiles(Explicit, wanted.environment)]
         /\ \A i \in 1..n :
               state[i] = EnableLayer(state[i-1], (wanted.named \o wanted.layers)[i])
  BY <1>4, EnableSteps, Zenon
<1>1. state[0] = base /\ \A i \in 1..n : state[i] = EnableLayer(state[i-1], names[i])
  BY <1>5
<1> HIDE DEF implicit, explicit, names
<1> DEFINE Tried(i) == {names[j] : j \in 1..i}
           Count(f, tried) == IF f.name \in tried \ NamesOf(implicit) THEN Times(f, explicit)
                                                                  ELSE Times(f, implicit)
           Right(i) ==
              /\ DOMAIN state[i] = {"files", "all", "explicit"} /\ state[i].explicit = explicit
              /\ state[i].files \in Seq(Manifests)
              /\ NamesOf(implicit) \subseteq NamesOf(state[i].files)
              /\ \A f \in Manifests : Times(f, state[i].files) = Count(f, Tried(i))
              /\ state[i].all => Tried(i) \subseteq NamesOf(state[i].files)
           T == {i \in Nat : i \in 0..n => Right(i)}
<1>6. Right(0)
  <2>1. state[0].files = implicit /\ state[0].explicit = explicit
        /\ DOMAIN state[0] = {"files", "all", "explicit"}
    BY <1>1
  <2>2. Tried(0) = {}
    OBVIOUS
  <2> QED  BY <1>2, <2>1, <2>2
<1>7. ASSUME NEW i \in Nat, i + 1 \in 0..n, Right(i) PROVE Right(i + 1)
  <2> DEFINE found == state[i]
             name == names[i + 1]
             more == WithName(explicit, name)
             before == Tried(i)
  <2>1. /\ i + 1 \in 1..n /\ state[i + 1] = EnableLayer(found, name)
        /\ Tried(i + 1) = before \cup {name}
    <3>1. i + 1 \in 1..n /\ (i + 1) - 1 = i /\ 1..(i + 1) = 1..i \cup {i + 1}
      BY <1>4, <1>7
    <3> QED  BY <1>1, <3>1
  <2>2. /\ DOMAIN found = {"files", "all", "explicit"} /\ found.explicit = explicit
        /\ found.files \in Seq(Manifests)
        /\ NamesOf(implicit) \subseteq NamesOf(found.files)
        /\ \A f \in Manifests : Times(f, found.files) = Count(f, before)
        /\ found.all => before \subseteq NamesOf(found.files)
    BY <1>7
  <2>3. more \in Seq(Manifests)
    BY <1>2, WithNameElements
  <2>4. /\ \A f \in Manifests : Times(f, more) = IF f.name = name THEN Times(f, explicit) ELSE 0
        /\ \A f \in Manifests : Times(f, explicit) \in Nat /\ Times(f, implicit) \in Nat
    BY <1>2, WithNameTimes, TimesType
  <2> DEFINE after == before \cup {name}
  <2> HIDE DEF found, name, more, Tried, before
  <2>5. CASE name \in NamesOf(found.files)
    <3>1. state[i + 1] = found
      BY <2>1, <2>5 DEF EnableLayer
    <3>2. ASSUME NEW f \in Manifests PROVE Count(f, after) = Count(f, before)
      <4>1. CASE f.name # name \/ name \in NamesOf(implicit) \/ name \in before
        BY <4>1
      <4>2. CASE f.name = name /\ name \notin NamesOf(implicit) /\ name \notin before
        <5>1. PICK g \in Manifests : g.name = name /\ Times(g, found.files) # 0
          BY <2>2, <2>5, NamesTimes
        <5>2. Times(g, found.files) = Times(g, implicit)
          BY <2>2, <4>2, <5>1
        <5> QED  BY <1>2, <4>2, <5>1, <5>2, NamesTimes
      <4> QED  BY <4>1, <4>2
    <3>3. \A f \in Manifests : Times(f, state[i + 1].files) = Count(f, after)
      BY <2>2, <3>1, <3>2
    <3>4. state[i + 1].all => after \subseteq NamesOf(state[i + 1].files)
      BY <2>2, <2>5, <3>1
    <3> HIDE DEF Count
    <3> QED  BY <2>1, <2>2, <3>1, <3>3, <3>4
  <2>6. CASE name \notin NamesOf(found.files)
    <3>1. /\ state[i + 1].files = found.files \o more
          /\ DOMAIN state[i + 1] = {"files", "all", "explicit"}
          /\ state[i + 1].explicit = explicit
          /\ state[i + 1].all => found.all /\ more # <<>>
      <4>1. state[i + 1] = [found EXCEPT !.files = @ \o WithName(found.explicit, name),
                                         !.all = @ /\ WithName(found.explicit, name) # <<>>]
        BY <2>1, <2>6, Zenon DEF EnableLayer
      <4>2. WithName(found.explicit, name) = more
        BY <2>2 DEF more
      <4> DEFINE files == found.files \o more
                 all == found.all /\ WithName(found.explicit, name) # <<>>
      <4>3. state[i + 1] = [found EXCEPT !.files = files, !.all = all]
        BY <4>1, <4>2
      <4>4. all => found.all /\ more # <<>>
        BY <4>2, Zenon
      <4> HIDE DEF files, all
      <4>5. state[i + 1].files = files /\ state[i + 1].all = all
        BY <2>2, <4>3
      <4>6. /\ DOMAIN state[i + 1] = {"files", "all", "explicit"}
            /\ state[i + 1].explicit = explicit
        BY <2>2, <4>3
      <4>7. state[i + 1].all => found.all /\ more # <<>>
        BY <4>4, <4>5, Zenon
      <4> QED  BY <4>5, <4>6, <4>7 DEF files
    <3>2. /\ state[i + 1].files \in Seq(Manifests)
          /\ ToSet(state[i + 1].files) = ToSet(found.files) \cup ToSet(more)
      BY <2>2, <2>3, <3>1, ToSetConcat
    <3>3. ASSUME NEW f \in Manifests PROVE Times(f, state[i + 1].files) = Count(f, after)
      <4>1. Times(f, state[i + 1].files) = Times(f, found.files) + Times(f, more)
        BY <2>2, <2>3, <3>1, TimesConcat
      <4>2. CASE f.name = name
        <5>1. Times(f, found.files) = 0
          BY <2>2, <2>6, <4>2, NamesTimes
        <5>2. Count(f, after) = Times(f, explicit)
          BY <2>2, <2>6, <4>2
        <5> HIDE DEF Count
        <5> QED  BY <2>4, <4>1, <4>2, <5>1, <5>2
      <4>3. CASE f.name # name
        <5>1. Count(f, after) = Count(f, before) /\ Count(f, before) \in Nat
          BY <2>4, <4>3
        <5> HIDE DEF Count
        <5> QED  BY <2>2, <2>4, <4>1, <4>3, <5>1
      <4> QED  BY <4>2, <4>3
    <3>4. NamesOf(state[i + 1].files) = NamesOf(found.files) \cup NamesOf(more)
      BY <3>2 DEF NamesOf
    <3>5. more # <<>> => name \in NamesOf(more)
      <4> SUFFICES ASSUME more # <<>> PROVE name \in NamesOf(more)
        OBVIOUS
      <4>1. more[1] \in ToSet(more)
        BY <2>3 DEF ToSet
      <4>2. more[1].name = name
        BY <1>2, <4>1, WithNameElements DEF more
      <4> QED  BY <4>1, <4>2 DEF NamesOf
    <3>6. state[i + 1].all => after \subseteq NamesOf(state[i + 1].files)
      <4>1. ASSUME state[i + 1].all PROVE before \subseteq NamesOf(found.files) /\ more # <<>>
        <5>1. found.all /\ more # <<>>
          BY <3>1, <4>1, Zenon
        <5> QED  BY <2>2, <5>1, Zenon
      <4> QED  BY <3>4, <3>5, <4>1
    <3> HIDE DEF Count
    <3> QED  BY <2>1, <2>2, <3>1, <3>2, <3>3, <3>4, <3>6
  <2> QED  BY <2>5, <2>6
<1> HIDE DEF Right
<1>8. Right(n)
  <2>1. 0 \in T /\ \A i \in Nat : i \in T => i + 1 \in T
    BY <1>4, <1>6, <1>7
  <2> HIDE DEF T
  <2>2. n \in T
    BY <1>4, <2>1, Induction
  <2> QED  BY <1>4, <2>2 DEF T
<1>9. Tried(n) = Asked(wanted)
  BY <1>3, <1>4 DEF ToSet, Asked
<1>10. \A f \in Manifests : Count(f, Asked(wanted)) = Chosen(f, wanted)
  BY DEF Chosen, implicit, explicit
<1> QED
  BY <1>1, <1>5, <1>8, <1>9, <1>10 DEF Right

\* What LoadApiLayers computes, file by file.
NothingLoaded(open) == [layers |-> <<>>, failed |-> FALSE, libraries |-> open]
ClosedUnless(found, loaded) ==
    IF ~loaded.failed /\ found.all THEN loaded
    ELSE [layers |-> <<>>, failed |-> TRUE,
          libraries |-> CloseLibraries(loaded.libraries, loaded.layers)]

\* What LoadLayers computes, file by file.
LEMMA LoadSteps ==
    ASSUME NEW found, NEW outcome, NEW open, NEW n \in Nat, DOMAIN found.files = 1..n
    PROVE  \E state :
              /\ LoadLayers(found, outcome, open) =
                    ClosedUnless(found, state[n])
              /\ state[0] = NothingLoaded(open)
              /\ \A i \in 1..n :
                    state[i] = LoadLayer(state[i-1], found.files[i], outcome[found.files[i]])
<1> DEFINE files == found.files
           base == NothingLoaded(open)
           Step(acc, i) == LoadLayer(acc, files[i], outcome[files[i]])
           T == {k \in Nat : \E f : f = [s \in SUBSET (1..k) |->
                    IF s = {} THEN base ELSE Step(f[s \ {Max(s)}], Max(s))]}
           iter == CHOOSE f : f = [s \in SUBSET (1..n) |->
                    IF s = {} THEN base ELSE Step(f[s \ {Max(s)}], Max(s))]
           state == [i \in 0..n |-> iter[1..i]]
<1>1. LoadLayers(found, outcome, open) =
         ClosedUnless(found, iter[1..n])
  <2> DEFINE loaded == FoldLeft(LAMBDA acc, f : LoadLayer(acc, f, outcome[f]), base, files)
  <2>1. LoadLayers(found, outcome, open) = ClosedUnless(found, loaded)
    <3> HIDE DEF loaded
    <3> QED  BY Zenon DEF LoadLayers, ClosedUnless, NothingLoaded, loaded
  <2>2. loaded = iter[1..n]
    BY Zenon DEF FoldLeft, MapThenFoldSet
  <2> HIDE DEF loaded, iter
  <2> QED  BY <2>1, <2>2
<1> HIDE DEF Step, T, base, files
<1>2. Nat \subseteq T
  <2>1. 0 \in T
    <3>1. [s \in SUBSET (1..0) |-> base] = [s \in SUBSET (1..0) |->
             IF s = {} THEN base ELSE Step([r \in SUBSET (1..0) |-> base][s \ {Max(s)}], Max(s))]
      OBVIOUS
    <3> QED  BY <3>1, Zenon DEF T
  <2>2. ASSUME NEW k \in Nat, k \in T PROVE k + 1 \in T
    <3>1. PICK f : f = [s \in SUBSET (1..k) |->
                    IF s = {} THEN base ELSE Step(f[s \ {Max(s)}], Max(s))]
      BY <2>2 DEF T
    <3> DEFINE g == [s \in SUBSET (1..(k+1)) |->
                       IF k+1 \in s THEN Step(f[s \ {k+1}], k+1) ELSE f[s]]
    <3>2. \A s \in SUBSET (1..k) : s \in SUBSET (1..(k+1)) /\ g[s] = f[s]
      OBVIOUS
    <3>6. \A i \in 1..(k+1) : i # k+1 => i \in 1..k
      OBVIOUS
    <3>3. ASSUME NEW s \in SUBSET (1..(k+1))
          PROVE  g[s] = IF s = {} THEN base ELSE Step(g[s \ {Max(s)}], Max(s))
      <4>1. CASE k+1 \in s
        <5>0. Max(s) = k+1
          BY ONLY <4>1, LastIsMax, k + 1 \in Nat, s \in SUBSET (1..(k+1))
        <5>1. Max(s) = k+1 /\ s \ {Max(s)} \in SUBSET (1..k)
          BY <3>6, <5>0
        <5>2. g[s] = Step(f[s \ {k+1}], k+1)
          BY <4>1
        <5> HIDE DEF g
        <5> QED  BY <3>2, <4>1, <5>1, <5>2
      <4>2. CASE k+1 \notin s
        <5>1. s \in SUBSET (1..k) /\ s \ {Max(s)} \in SUBSET (1..k)
          BY <3>6, <4>2
        <5>2. f[s] = IF s = {} THEN base ELSE Step(f[s \ {Max(s)}], Max(s))
          BY <3>1, <5>1
        <5> HIDE DEF g
        <5> QED  BY <3>2, <5>1, <5>2
      <4> QED  BY <4>1, <4>2
    <3>4. g = [s \in SUBSET (1..(k+1)) |-> g[s]]
      OBVIOUS
    <3> HIDE DEF g
    <3>5. g = [s \in SUBSET (1..(k+1)) |->
                 IF s = {} THEN base ELSE Step(g[s \ {Max(s)}], Max(s))]
      BY <3>3, <3>4
    <3>7. k+1 \in Nat
      OBVIOUS
    <3> QED  BY <3>5, <3>7, Zenon DEF T
  <2> QED  BY <2>1, <2>2, Induction
<1>3. iter = [s \in SUBSET (1..n) |-> IF s = {} THEN base ELSE Step(iter[s \ {Max(s)}], Max(s))]
  BY <1>2, Zenon DEF T
<1> HIDE DEF iter
<1>4. state[0] = base /\ state[n] = iter[1..n]
  BY ONLY <1>3, n \in Nat
<1>5. ASSUME NEW i \in 1..n
      PROVE  state[i] = Step(state[i-1], i)
  <2>1. 1..i \in SUBSET (1..n) /\ 1..i # {} /\ i \in 0..n /\ i-1 \in 0..n
    BY ONLY n \in Nat, i \in 1..n
  <2>2. Max(1..i) = i
    BY LastIsMax
  <2>3. (1..i) \ {i} = 1..(i-1)
    OBVIOUS
  <2> QED  BY ONLY <1>3, <2>1, <2>2, <2>3, n \in Nat, i \in 1..n
<1> QED  BY <1>1, <1>4, <1>5 DEF Step, base, files

\* Loading opens the library of a layer as often as the layer is in the chain; and if it
\* succeeds, something was found for each name, the layers whose libraries load are in the
\* chain as often as they were found, no others are, and there are some if any were found.
LEMMA LoadedLayers ==
    ASSUME NEW found, found.files \in Seq(Manifests),
           NEW outcome, outcome \in [Manifests -> Outcomes],
           NEW open, open \in [Manifests -> Nat]
    PROVE  LET loaded == LoadLayers(found, outcome, open)
           IN  /\ loaded.layers \in Seq(Manifests)
               /\ loaded.libraries \in [Manifests -> Nat]
               /\ \A f \in Manifests :
                     loaded.libraries[f] = open[f] + Times(f, loaded.layers)
               /\ ~loaded.failed =>
                     /\ found.all
                     /\ \A f \in Manifests :
                           Times(f, loaded.layers) =
                              IF outcome[f] = "loaded" THEN Times(f, found.files) ELSE 0
                     /\ loaded.layers = <<>> => found.files = <<>>
<1>1. PICK n \in Nat : DOMAIN found.files = 1..n
  OBVIOUS
<1>2. PICK state :
         /\ LoadLayers(found, outcome, open) =
               ClosedUnless(found, state[n])
         /\ state[0] = NothingLoaded(open)
         /\ \A i \in 1..n :
               state[i] = LoadLayer(state[i-1], found.files[i], outcome[found.files[i]])
  BY ONLY <1>1, LoadSteps
<1> DEFINE Places(f) == {j \in 1..n : found.files[j] = f}
           Upto(f, i) == Cardinality((1..i) \cap Places(f))
           Right(i) ==
              /\ DOMAIN state[i] = {"layers", "failed", "libraries"}
              /\ state[i].layers \in Seq(Manifests)
              /\ state[i].libraries \in [Manifests -> Nat]
              /\ \A f \in Manifests :
                    state[i].libraries[f] = open[f] + Times(f, state[i].layers)
              /\ \A f \in Manifests :
                    Times(f, state[i].layers) = IF outcome[f] = "loaded" THEN Upto(f, i) ELSE 0
              /\ state[i].layers = <<>> => state[i].failed \/ i = 0
           T == {i \in Nat : i \in 0..n => Right(i)}
<1>3. Right(0)
  <2>1. state[0].layers = <<>> /\ state[0].libraries = open
    BY <1>2 DEF NothingLoaded
  <2>2. DOMAIN state[0] = {"layers", "failed", "libraries"}
    BY <1>2 DEF NothingLoaded
  <2>3. \A f \in Manifests : Times(f, <<>>) = 0
    BY NoTimes
  <2>4. <<>> \in Seq(Manifests)
    OBVIOUS
  <2>5. \A f \in Manifests : Upto(f, 0) = 0
    BY CountStep
  <2> HIDE DEF Upto
  <2> QED  BY <2>1, <2>2, <2>3, <2>4, <2>5
<1>4. ASSUME NEW i \in Nat, i + 1 \in 0..n, Right(i) PROVE Right(i + 1)
  <2> DEFINE old == state[i]
             new1 == state[i + 1]
             f == found.files[i + 1]
  <2>1. i + 1 \in 1..n /\ (i + 1) - 1 = i /\ i + 1 # 0
    BY ONLY n \in Nat, i \in Nat, i + 1 \in 0..n
  <2>2. new1 = LoadLayer(old, f, outcome[f])
    BY <1>2, <2>1
  <2>3. f \in Manifests
    BY <1>1, <2>1, found.files \in Seq(Manifests)
  <2>4. /\ DOMAIN old = {"layers", "failed", "libraries"}
        /\ old.layers \in Seq(Manifests) /\ old.libraries \in [Manifests -> Nat]
        /\ \A g \in Manifests : old.libraries[g] = open[g] + Times(g, old.layers)
        /\ \A g \in Manifests :
              Times(g, old.layers) = IF outcome[g] = "loaded" THEN Upto(g, i) ELSE 0
        /\ old.layers = <<>> => old.failed \/ i = 0
    BY <1>4
  <2>7. ASSUME NEW g \in Manifests
        PROVE  Upto(g, i) \in Nat /\ Upto(g, i + 1) = Upto(g, i) + (IF g = f THEN 1 ELSE 0)
    <3>1. i + 1 \in Places(g) <=> g = f
      BY <2>1
    <3> HIDE DEF Places
    <3> QED  BY <3>1, CountStep
  <2> HIDE DEF Upto
  <2> HIDE DEF old, new1, f
  <2>5. CASE outcome[f] = "loaded"
    <3>1. new1 = [layers |-> Append(old.layers, f), failed |-> FALSE,
                  libraries |-> [old.libraries EXCEPT ![f] = @ + 1]]
      BY <2>2, <2>5, Zenon DEF LoadLayer
    <3>2. /\ DOMAIN new1 = {"layers", "failed", "libraries"}
          /\ new1.layers = Append(old.layers, f)
          /\ new1.libraries = [old.libraries EXCEPT ![f] = @ + 1]
      BY <3>1
    <3>3. new1.layers \in Seq(Manifests)
      BY <2>3, <2>4, <3>2
    <3>4. new1.layers # <<>>
      <4>1. \A s \in Seq(Manifests) : Append(s, f) # <<>>
        <5>1. \A s \in Seq(Manifests) : Len(Append(s, f)) = Len(s) + 1 /\ Len(s) \in Nat
          BY ONLY <2>3
        <5>2. Len(<<>>) = 0
          BY ONLY TRUE
        <5> QED  BY ONLY <5>1, <5>2
      <4> QED  BY <2>4, <3>2, <4>1
    <3>5. ASSUME NEW g \in Manifests
          PROVE  /\ Times(g, old.layers) \in Nat
                 /\ Times(g, new1.layers) = Times(g, old.layers) + (IF g = f THEN 1 ELSE 0)
      <4>1. Times(g, Append(old.layers, f)) = Times(g, new1.layers)
        BY <3>2
      <4> QED  BY <2>3, <2>4, <4>1, TimesAfterAppend
    <3>6. /\ new1.libraries \in [Manifests -> Nat]
          /\ \A g \in Manifests : new1.libraries[g] = old.libraries[g] + (IF g = f THEN 1 ELSE 0)
      <4> DEFINE before == old.libraries
                 after == new1.libraries
      <4>1. before \in [Manifests -> Nat] /\ after = [before EXCEPT ![f] = before[f] + 1]
        BY <2>4, <3>2
      <4> HIDE DEF before, after
      <4>2. after \in [Manifests -> Nat]
        BY ONLY <4>1, <2>3
      <4>3. \A g \in Manifests : after[g] = before[g] + (IF g = f THEN 1 ELSE 0)
        BY ONLY <4>1, <2>3
      <4> QED  BY <4>2, <4>3 DEF before, after
    <3>7. \A g \in Manifests : new1.libraries[g] = open[g] + Times(g, new1.layers)
      <4> SUFFICES ASSUME NEW g \in Manifests
                   PROVE  new1.libraries[g] = open[g] + Times(g, new1.layers)
        OBVIOUS
      <4>1. open[g] \in Nat
        OBVIOUS
      <4>2. old.libraries[g] = open[g] + Times(g, old.layers)
        BY <2>4
      <4> DEFINE more == IF g = f THEN 1 ELSE 0
      <4>3. /\ new1.libraries[g] = old.libraries[g] + more
            /\ Times(g, old.layers) \in Nat /\ Times(g, new1.layers) = Times(g, old.layers) + more
        BY <3>5, <3>6
      <4>4. more \in Nat
        OBVIOUS
      <4> HIDE DEF more
      <4> QED  BY <4>1, <4>2, <4>3, <4>4
    <3>8. \A g \in Manifests :
              Times(g, new1.layers) = IF outcome[g] = "loaded" THEN Upto(g, i + 1) ELSE 0
      <4> SUFFICES ASSUME NEW g \in Manifests
                   PROVE  Times(g, new1.layers) =
                             IF outcome[g] = "loaded" THEN Upto(g, i + 1) ELSE 0
        OBVIOUS
      <4>1. Times(g, old.layers) = IF outcome[g] = "loaded" THEN Upto(g, i) ELSE 0
        BY <2>4
      <4>2. Times(g, new1.layers) = Times(g, old.layers) + (IF g = f THEN 1 ELSE 0)
        BY <3>5
      <4>3. Upto(g, i) \in Nat /\ Upto(g, i + 1) = Upto(g, i) + (IF g = f THEN 1 ELSE 0)
        BY <2>7
      <4>4. CASE outcome[g] = "loaded"
        BY ONLY <4>1, <4>2, <4>3, <4>4
      <4>5. CASE outcome[g] # "loaded"
        <5>1. g # f
          BY <2>5, <4>5
        <5> QED  BY ONLY <4>1, <4>2, <4>5, <5>1
      <4> QED  BY <4>4, <4>5
    <3> QED  BY <3>2, <3>3, <3>4, <3>6, <3>7, <3>8 DEF new1
  <2>6. CASE outcome[f] # "loaded"
    <3>1. PICK failed : /\ new1 = [old EXCEPT !.failed = failed]
                        /\ failed = TRUE \/ failed = (old.failed \/ old.layers = <<>>)
      BY <2>2, <2>6, Zenon DEF LoadLayer
    <3>4. old.layers = <<>> => failed
      BY <3>1, Zenon
    <3>2. /\ DOMAIN new1 = {"layers", "failed", "libraries"}
          /\ new1.layers = old.layers /\ new1.libraries = old.libraries
          /\ new1.failed = failed
      BY <2>4, <3>1
    <3>3. \A g \in Manifests :
              Times(g, new1.layers) = IF outcome[g] = "loaded" THEN Upto(g, i + 1) ELSE 0
      <4> SUFFICES ASSUME NEW g \in Manifests
                   PROVE  Times(g, new1.layers) =
                             IF outcome[g] = "loaded" THEN Upto(g, i + 1) ELSE 0
        OBVIOUS
      <4>1. Times(g, new1.layers) = IF outcome[g] = "loaded" THEN Upto(g, i) ELSE 0
        BY <2>4, <3>2
      <4>2. CASE outcome[g] = "loaded"
        <5>1. g # f
          BY <2>6, <4>2
        <5>2. Upto(g, i) \in Nat /\ Upto(g, i + 1) = Upto(g, i)
          BY <2>7, <5>1
        <5> QED  BY <4>1, <4>2, <5>2
      <4> QED  BY <4>1, <4>2
    <3>5. new1.layers = <<>> => new1.failed
      BY <3>2, <3>4, Zenon
    <3> QED  BY <2>4, <3>2, <3>3, <3>5 DEF new1
  <2> QED  BY <2>5, <2>6
<1> HIDE DEF Right
<1>5. Right(n)
  <2>1. 0 \in T /\ \A i \in Nat : i \in T => i + 1 \in T
    BY <1>1, <1>3, <1>4
  <2> HIDE DEF T
  <2>2. n \in T
    BY <1>1, <2>1, Induction
  <2> QED  BY <1>1, <2>2 DEF T
<1>6. /\ state[n].layers \in Seq(Manifests) /\ state[n].libraries \in [Manifests -> Nat]
      /\ \A f \in Manifests : state[n].libraries[f] = open[f] + Times(f, state[n].layers)
      /\ \A f \in Manifests :
            Times(f, state[n].layers) = IF outcome[f] = "loaded" THEN Times(f, found.files) ELSE 0
      /\ state[n].layers = <<>> => state[n].failed \/ n = 0
  <2>1. \A f \in Manifests : Upto(f, n) = Times(f, found.files)
    <3>1. \A f \in Manifests : (1..n) \cap Places(f) = {i \in DOMAIN found.files : found.files[i] = f}
      BY <1>1
    <3> QED  BY <3>1 DEF Times
  <2> HIDE DEF Upto
  <2>2. /\ state[n].layers \in Seq(Manifests) /\ state[n].libraries \in [Manifests -> Nat]
        /\ \A f \in Manifests : state[n].libraries[f] = open[f] + Times(f, state[n].layers)
        /\ \A f \in Manifests :
              Times(f, state[n].layers) = IF outcome[f] = "loaded" THEN Upto(f, n) ELSE 0
        /\ state[n].layers = <<>> => state[n].failed \/ n = 0
    BY <1>5, Zenon DEF Right
  <2> QED  BY <2>1, <2>2
<1>10. n = 0 => found.files = <<>>
  <2>1. \A s \in Seq(Manifests) : DOMAIN s = 1..0 => s = <<>>
    BY ONLY TRUE
  <2> QED  BY ONLY <1>1, <2>1, found.files \in Seq(Manifests)
<1> DEFINE loaded == LoadLayers(found, outcome, open)
           result == state[n]
<1>7. loaded = ClosedUnless(found, result)
  BY <1>2
<1> HIDE DEF loaded, result
<1>8. CASE ~result.failed /\ found.all
  <2>1. loaded = result
    BY <1>7, <1>8 DEF ClosedUnless
  <2> QED  BY <1>6, <1>8, <1>10, <2>1 DEF result, loaded
<1>9. CASE ~(~result.failed /\ found.all)
  <2>1. loaded = [layers |-> <<>>, failed |-> TRUE,
                  libraries |-> CloseLibraries(result.libraries, result.layers)]
    BY <1>7, <1>9, Zenon DEF ClosedUnless
  <2>2. loaded.layers = <<>> /\ loaded.failed = TRUE
        /\ loaded.libraries = CloseLibraries(result.libraries, result.layers)
    BY <2>1
  <2>3. CloseLibraries(result.libraries, result.layers) = open
    <3>1. \A f \in Manifests : result.libraries[f] - Times(f, result.layers) = open[f]
      <4>1. \A f \in Manifests : Times(f, result.layers) \in Nat
        BY <1>6, TimesType DEF result
      <4> QED  BY <1>6, <4>1 DEF result
    <3>2. CloseLibraries(result.libraries, result.layers)
             = [f \in Manifests |-> result.libraries[f] - Times(f, result.layers)]
      BY Zenon DEF CloseLibraries, Times
    <3> QED  BY <3>1, <3>2
  <2>4. \A f \in Manifests : open[f] = open[f] + Times(f, <<>>)
    BY NoTimes
  <2> QED  BY <2>2, <2>3, <2>4 DEF loaded
<1> QED
  BY <1>8, <1>9

-----------------------------------------------------------------------------
(* Whose the layers are.                                                   *)

\* What LoadApiLayers does for one request, when its libraries have these outcomes.
Loads(t, r, outcome) ==
    LET loaded == LoadLayers(FindLayers(r), outcome, libraries)
    IN  /\ request' = [environment |-> r.environment, named |-> r.named, layers |-> r.layers,
                       extensions |-> r.extensions, outcome |-> outcome]
        /\ layers' = loaded.layers /\ libraries' = loaded.libraries
        /\ Goto(t, IF loaded.failed THEN "failed" ELSE "chain")

\* LoadApiLayers loads what was found for some request.
LEMMA LoadsSomething ==
    ASSUME NEW t \in Threads, LoadApiLayers(t)
    PROVE  \E r \in Requests : \E outcome \in [Manifests -> Outcomes] : Loads(t, r, outcome)
<1>1. PICK s \in Searches : \E outcome \in [ToSet(s.found.files) -> Outcomes] :
         LET r      == s.request
             full   == [f \in Manifests |->
                            IF f \in DOMAIN outcome THEN outcome[f] ELSE "loaded"]
             loaded == LoadLayers(s.found, full, libraries)
         IN  /\ request' = [environment |-> r.environment, named |-> r.named,
                            layers |-> r.layers, extensions |-> r.extensions,
                            outcome |-> full]
             /\ layers' = loaded.layers /\ libraries' = loaded.libraries
             /\ Goto(t, IF loaded.failed THEN "failed" ELSE "chain")
  BY Zenon DEF LoadApiLayers
<1>2. PICK outcome \in [ToSet(s.found.files) -> Outcomes] :
         LET r      == s.request
             full   == [f \in Manifests |->
                            IF f \in DOMAIN outcome THEN outcome[f] ELSE "loaded"]
             loaded == LoadLayers(s.found, full, libraries)
         IN  /\ request' = [environment |-> r.environment, named |-> r.named,
                            layers |-> r.layers, extensions |-> r.extensions,
                            outcome |-> full]
             /\ layers' = loaded.layers /\ libraries' = loaded.libraries
             /\ Goto(t, IF loaded.failed THEN "failed" ELSE "chain")
  BY <1>1
<1>3. PICK r \in Requests : s = [request |-> r, found |-> FindLayers(r)]
  BY DEF Searches
<1>4. s.request = r /\ s.found = FindLayers(r)
  BY <1>3
<1> DEFINE full == [f \in Manifests |-> IF f \in DOMAIN outcome THEN outcome[f] ELSE "loaded"]
<1>5. full \in [Manifests -> Outcomes]
  BY DEF Outcomes
<1>6. Loads(t, s.request, full)
  <2> SUFFICES LET loaded == LoadLayers(FindLayers(s.request), full, libraries)
               IN  /\ request' = [environment |-> s.request.environment,
                                  named |-> s.request.named, layers |-> s.request.layers,
                                  extensions |-> s.request.extensions, outcome |-> full]
                   /\ layers' = loaded.layers /\ libraries' = loaded.libraries
                   /\ Goto(t, IF loaded.failed THEN "failed" ELSE "chain")
    BY Zenon DEF Loads
  <2>1. FindLayers(s.request) = s.found
    BY <1>4
  <2> QED  BY <1>2, <2>1, Zenon
<1> QED
  BY <1>4, <1>5, <1>6

\* A failed LoadApiLayers keeps no layer.
LEMMA FailedLoad ==
    ASSUME NEW found, NEW outcome, NEW open, LoadLayers(found, outcome, open).failed
    PROVE  LoadLayers(found, outcome, open).layers = <<>>
BY DEF LoadLayers

\* The layers are given to a creation when they are loaded, to the instance when it
\* becomes active, and are dropped with either.
LEMMA LayersInvariant ==
    ASSUME IInv, LayersOwned, [Next]_vars
    PROVE  LayersOwned'
<1>1. pc \in [Threads -> {"idle"} \cup Holding \cup Using]
  BY DEF IInv, TypeInv
<1>2. ASSUME NEW t \in Threads, LoadApiLayers(t)
      PROVE  LayersOwned'
  <2>1. PICK r \in Requests, outcome \in [Manifests -> Outcomes] : Loads(t, r, outcome)
    BY <1>2, LoadsSomething
  <2>2. CASE layers' = <<>>
    BY <2>2 DEF LayersOwned
  <2>3. CASE ~LoadLayers(FindLayers(r), outcome, libraries).failed
    BY <1>1, <2>1, <2>3 DEF LayersOwned, Goto, Loads
  <2> QED  BY <2>1, <2>2, <2>3, FailedLoad DEF Loads
<1>3. ASSUME NEW t \in Threads,
             ChainFails(t) \/ CleanUp(t) \/ LayerFails(t) \/ FinishDestroy(t)
      PROVE  LayersOwned'
  BY <1>3
     DEF ChainFails, CleanUp, LayerFails, FinishDestroy, DropLayers, RemoveActive,
         LayersOwned
<1>4. ASSUME NEW t \in Threads, SetActive(t)
      PROVE  LayersOwned'
  BY <1>4, ConstantsAssumption
     DEF SetActive, IInv, TypeInv, CallInv, InstanceInv, LayersOwned
<1>5. ASSUME NEW t \in Threads, NEW i \in Instances, TermCreateInstance(t, i)
      PROVE  LayersOwned'
  BY <1>1, <1>5 DEF TermCreateInstance, LayersOwned, Goto
<1>6. ASSUME UNCHANGED <<layers, current>>,
             \A t \in Threads : pc[t] \in {"chain", "unwind"} => pc'[t] = pc[t]
      PROVE  LayersOwned'
  BY <1>6 DEF LayersOwned
<1>7. ASSUME UNCHANGED <<layers, current>>, NEW t \in Threads, NEW step, Goto(t, step),
             pc[t] \notin {"chain", "unwind"}
      PROVE  LayersOwned'
  <2>1. \A u \in Threads : pc[u] \in {"chain", "unwind"} => pc'[u] = pc[u]
    BY <1>1, <1>7 DEF Goto
  <2> QED  BY <1>6, <1>7, <2>1
<1>8. CASE UNCHANGED vars
  BY <1>6, <1>8 DEF vars
<1>9. ASSUME NEW t \in Threads, DestroyDefaultMessenger(t)
      PROVE  LayersOwned'
  BY <1>6, <1>9 DEF DestroyDefaultMessenger, layerVars, activeVars
<1>10. ASSUME NEW t \in Threads, Create(t)
       PROVE  LayersOwned'
  <2>1. CASE EnterCreate(t)
    BY <1>7, <2>1 DEF EnterCreate, Enter, layerVars, activeVars
  <2>2. CASE CreateRejected(t)
    BY <1>7, <2>2 DEF CreateRejected, Return, activeVars
  <2>3. CASE CreateLoadsRuntime(t)
    BY <1>7, <2>3 DEF CreateLoadsRuntime, layerVars, activeVars
  <2>4. CASE CreateFails(t)
    BY <1>7, <2>4 DEF CreateFails, layerVars, activeVars
  <2>5. ASSUME NEW m \in Messengers, CreateDefaultMessenger(t, m)
        PROVE  LayersOwned'
    BY <1>7, <2>5 DEF CreateDefaultMessenger, Return
  <2>6. CASE DefaultMessengerFails(t)
    BY <1>7, <2>6 DEF DefaultMessengerFails, Return, activeVars
  <2> QED
    BY <1>2, <1>3, <1>4, <1>5, <1>10, <2>1, <2>2, <2>3, <2>4, <2>5, <2>6 DEF Create
<1>11. ASSUME NEW t \in Threads, Destroy(t)
       PROVE  LayersOwned'
  <2>1. CASE EnterDestroy(t)
    BY <1>7, <2>1 DEF EnterDestroy, Enter, layerVars, activeVars
  <2>2. CASE TermDestroyInstance(t)
    BY <1>7, <2>2 DEF TermDestroyInstance, layerVars, activeVars
  <2> QED  BY <1>3, <1>9, <1>11, <2>1, <2>2 DEF Destroy
<1>12. ASSUME NEW t \in Threads, LayerFailure(t)
       PROVE  LayersOwned'
  <2>1. CASE LayerFailsDestroy(t)
    BY <1>7, <2>1 DEF LayerFailsDestroy, layerVars, activeVars
  <2> QED  BY <1>3, <1>12, <2>1 DEF LayerFailure
<1>13. ASSUME UNCHANGED layerVars, NEW t \in Threads, Enumerate(t)
       PROVE  LayersOwned'
  <2>1. CASE EnterEnumerate(t)
    BY <1>7, <1>13, <2>1 DEF EnterEnumerate, Enter, layerVars, activeVars
  <2>2. CASE EnumerateLoadsRuntime(t)
    BY <1>7, <1>13, <2>2 DEF EnumerateLoadsRuntime, layerVars, activeVars
  <2>3. CASE EnumerateWithoutRuntime(t)
    BY <1>7, <1>13, <2>3 DEF EnumerateWithoutRuntime, Return, layerVars, activeVars
  <2>4. CASE EnumerateProperties(t)
    BY <1>7, <1>13, <2>4 DEF EnumerateProperties, Return, layerVars, activeVars
  <2> QED  BY <1>13, <2>1, <2>2, <2>3, <2>4 DEF Enumerate
<1>14. ASSUME UNCHANGED layerVars, NEW t \in Threads, Messenger(t)
       PROVE  LayersOwned'
  <2>1. ASSUME NEW m \in Messengers, CreateMessenger(t, m)
        PROVE  LayersOwned'
    BY <1>7, <1>14, <2>1 DEF CreateMessenger, layerVars, activeVars
  <2>2. CASE AddLogRecorder(t)
    BY <1>7, <1>14, <2>2 DEF AddLogRecorder, layerVars, activeVars
  <2>3. CASE TrackDebugMessenger(t)
    BY <1>7, <1>14, <2>3 DEF TrackDebugMessenger, Return, layerVars, activeVars
  <2>4. ASSUME NEW m \in Messengers, DestroyMessenger(t, m)
        PROVE  LayersOwned'
    BY <1>7, <1>14, <2>4 DEF DestroyMessenger, layerVars, activeVars
  <2>5. CASE RemoveLogRecorder(t)
    BY <1>7, <1>14, <2>5 DEF RemoveLogRecorder, layerVars, activeVars
  <2>6. CASE ForgetDebugMessenger(t)
    BY <1>7, <1>14, <2>6 DEF ForgetDebugMessenger, layerVars, activeVars
  <2>7. CASE ReleaseMessenger(t)
    BY <1>7, <1>14, <2>7 DEF ReleaseMessenger, Return, layerVars, activeVars
  <2> QED  BY <1>14, <2>1, <2>2, <2>3, <2>4, <2>5, <2>6, <2>7 DEF Messenger
<1> QED
  BY <1>8, <1>10, <1>11, <1>12, <1>13, <1>14 DEF Next

\* The layers of a creation that fails, of whatever cause, are gone when xrCreateInstance
\* returns, and those of an instance when xrDestroyInstance does: loader_core.cpp keeps none
\* that is not in a chain.
THEOREM LayersHaveAnOwner == Spec => []LayersOwned
<1>1. Init => LayersOwned
  BY DEF Init, LayersOwned
<1>2. IInv /\ LayersOwned /\ [Next]_vars => LayersOwned'
  BY LayersInvariant
<1> QED
  BY <1>1, <1>2, Invariant, PTL DEF Spec

-----------------------------------------------------------------------------
(* What is loaded.                                                         *)

\* The library of a layer is open as often as the layer is in the chain.
LibrariesInv ==
    /\ layers \in Seq(Manifests) /\ libraries \in [Manifests -> Nat]
    /\ \A f \in Manifests : libraries[f] = Times(f, layers)

\* The chain of the request in use has the layers that have been found and whose libraries
\* load, as often as they have been found; something was found for each name.
Complete ==
    /\ request.environment \in Environments
    /\ request.named \in Seq(STRING) /\ request.layers \in Seq(STRING)
    /\ request.extensions \in Seq(STRING)
    /\ \A f \in Manifests :
          Times(f, layers) = IF request.outcome[f] = "loaded" THEN Chosen(f, request) ELSE 0
    /\ \A name \in Asked(request) : \E f \in Manifests : f.name = name /\ Chosen(f, request) # 0
    /\ layers = <<>> => \A f \in Manifests : Chosen(f, request) = 0

RequestInv ==
    /\ request # Null => request.outcome \in [Manifests -> Outcomes]
    /\ \A t \in Threads : pc[t] = "chain" => Complete

\* Loading adds to nothing.
LEMMA LoadingInvariant ==
    ASSUME IInv, LayersOwned, LibrariesInv, RequestInv, NEW t \in Threads, LoadApiLayers(t)
    PROVE  LibrariesInv' /\ RequestInv'
<1>1. PICK r \in Requests, outcome \in [Manifests -> Outcomes] : Loads(t, r, outcome)
  BY LoadsSomething
<1>2. layers = <<>>
  <2>1. pc[t] = "layers" /\ pc[t] \in Holding
    BY DEF LoadApiLayers, Holding
  <2>2. current = Null
    BY <2>1 DEF IInv, CallInv
  <2>3. \A u \in Threads : pc[u] \notin {"chain", "unwind"}
    BY <2>1, Alone DEF IInv, Holding
  <2> QED  BY <2>2, <2>3 DEF LayersOwned
<1>3. /\ r.environment \in Environments /\ r.named \in Seq(STRING)
      /\ r.layers \in Seq(STRING) /\ r.extensions \in Seq(STRING)
  BY RequestsAssumption
<1> DEFINE found == FindLayers(r)
           loaded == LoadLayers(found, outcome, libraries)
<1>4. /\ found.files \in Seq(Manifests)
      /\ \A f \in Manifests : Times(f, found.files) = Chosen(f, r)
      /\ found.all => Asked(r) \subseteq NamesOf(found.files)
  BY <1>3, FoundLayers
<1>5. /\ loaded.layers \in Seq(Manifests)
      /\ loaded.libraries \in [Manifests -> Nat]
      /\ \A f \in Manifests : loaded.libraries[f] = libraries[f] + Times(f, loaded.layers)
      /\ ~loaded.failed =>
            /\ found.all
            /\ \A f \in Manifests :
                  Times(f, loaded.layers) =
                     IF outcome[f] = "loaded" THEN Times(f, found.files) ELSE 0
            /\ loaded.layers = <<>> => found.files = <<>>
  <2> HIDE DEF found
  <2> QED  BY <1>4, LoadedLayers DEF LibrariesInv
<1>6. /\ request' = [environment |-> r.environment, named |-> r.named, layers |-> r.layers,
                     extensions |-> r.extensions, outcome |-> outcome]
      /\ layers' = loaded.layers /\ libraries' = loaded.libraries
      /\ Goto(t, IF loaded.failed THEN "failed" ELSE "chain")
  BY <1>1 DEF Loads
<1> HIDE DEF found, loaded
<1>7. LibrariesInv'
  <2>1. \A f \in Manifests : libraries[f] = 0
    BY <1>2, NoTimes DEF LibrariesInv
  <2>2. \A f \in Manifests : Times(f, loaded.layers) \in Nat
    BY <1>5, TimesType
  <2>3. \A f \in Manifests : loaded.libraries[f] = Times(f, loaded.layers)
    BY <1>5, <2>1, <2>2
  <2>4. \A f \in Manifests : Times(f, loaded.layers) = Times(f, layers')
    BY <1>6
  <2>5. \A f \in Manifests : libraries'[f] = Times(f, layers')
    BY <1>6, <2>3, <2>4
  <2>6. layers' \in Seq(Manifests) /\ libraries' \in [Manifests -> Nat]
    BY <1>5, <1>6
  <2> QED  BY <2>5, <2>6, Zenon DEF LibrariesInv, Times
<1>8. /\ request'.environment = r.environment /\ request'.named = r.named
      /\ request'.layers = r.layers /\ request'.extensions = r.extensions
      /\ request'.outcome = outcome
  BY <1>6
<1>9. ASSUME ~loaded.failed PROVE Complete'
  <2>1. Asked(request') = Asked(r) /\ \A f : Chosen(f, request') = Chosen(f, r)
    BY <1>8 DEF Asked, Chosen
  <2>2. \A f \in Manifests :
           Times(f, layers') =
              IF request'.outcome[f] = "loaded" THEN Chosen(f, request') ELSE 0
    BY <1>4, <1>5, <1>6, <1>8, <1>9, <2>1
  <2>3. \A name \in Asked(request') :
           \E f \in Manifests : f.name = name /\ Chosen(f, request') # 0
    BY <1>4, <1>5, <1>9, <2>1, NamesTimes
  <2>4. layers' = <<>> => \A f \in Manifests : Chosen(f, request') = 0
    BY <1>4, <1>5, <1>6, <1>9, <2>1, NoTimes
  <2> QED  BY <1>3, <1>8, <2>2, <2>3, <2>4 DEF Complete
<1>10. \A u \in Threads : pc'[u] = "chain" => ~loaded.failed
  <2>1. ASSUME NEW u \in Threads, loaded.failed, u # t PROVE pc'[u] # "chain"
    <3>1. pc[t] \in Holding
      BY DEF LoadApiLayers, Holding
    <3>2. pc[u] \notin Holding /\ pc'[u] = pc[u]
      BY <1>6, <2>1, <3>1, Alone DEF IInv, TypeInv, Goto
    <3> QED  BY <3>2 DEF Holding
  <2>2. ASSUME loaded.failed PROVE pc'[t] # "chain"
    BY <1>6, <2>2 DEF IInv, TypeInv, Goto
  <2> QED  BY <2>1, <2>2
<1>11. RequestInv'
  BY <1>8, <1>9, <1>10 DEF RequestInv
<1> QED
  BY <1>7, <1>11

\* Dropping the layers closes every library.
LEMMA DroppingInvariant ==
    ASSUME IInv, LibrariesInv, RequestInv, DropLayers, NEW t \in Threads, pc[t] \in Holding,
           Return(t) \/ (UNCHANGED request /\ Goto(t, "failed"))
    PROVE  LibrariesInv' /\ RequestInv'
<1>1. \A f \in Manifests : libraries[f] - Times(f, layers) = 0
  BY TimesType DEF LibrariesInv
<1>2. libraries' = [f \in Manifests |-> libraries[f] - Times(f, layers)] /\ layers' = <<>>
  BY Zenon DEF DropLayers, CloseLibraries, Times
<1>3. LibrariesInv'
  <2>1. libraries' = [f \in Manifests |-> 0]
    BY <1>1, <1>2
  <2>2. \A f \in Manifests : Times(f, layers') = 0
    BY <1>2, NoTimes
  <2>3. \A f \in Manifests : libraries'[f] = Times(f, layers')
    BY <2>1, <2>2
  <2>4. layers' \in Seq(Manifests) /\ libraries' \in [Manifests -> Nat]
    BY <1>2, <2>1
  <2> QED  BY <2>3, <2>4, Zenon DEF LibrariesInv, Times
<1>4. \A u \in Threads : pc'[u] # "chain"
  <2>1. ASSUME NEW u \in Threads, u # t PROVE pc'[u] # "chain"
    <3>1. pc[u] \notin Holding /\ pc'[u] = pc[u]
      BY <2>1, Alone DEF IInv, TypeInv, Return, Goto
    <3> QED  BY <3>1 DEF Holding
  <2>2. pc'[t] # "chain"
    BY DEF IInv, TypeInv, Return, Goto
  <2> QED  BY <2>1, <2>2
<1>5. request' = request \/ request' = Null
  BY DEF Return
<1> QED
  BY <1>3, <1>4, <1>5 DEF RequestInv

\* Other steps leave the layers alone, and the request to a creation that is in its chain.
LEMMA OtherStepInvariant ==
    ASSUME IInv, LibrariesInv, RequestInv, UNCHANGED <<layers, libraries>>, NEW t \in Threads,
           Return(t) \/ (UNCHANGED request /\ \E step : step # "chain" /\ Goto(t, step))
    PROVE  LibrariesInv' /\ RequestInv'
<1>1. LibrariesInv'
  BY Zenon DEF LibrariesInv, Times
<1>2. \A u \in Threads : pc'[u] = "chain" => u # t /\ pc[u] = "chain"
  BY DEF IInv, TypeInv, Return, Goto
<1>3. CASE UNCHANGED request
  <2>1. Complete => Complete'
    BY <1>3 DEF Complete
  <2> QED  BY <1>1, <1>2, <1>3, <2>1 DEF RequestInv
<1>4. CASE Return(t) /\ loaderMutex = t
  <2>1. \A u \in Threads : pc'[u] # "chain"
    BY <1>2, <1>4 DEF IInv, MutexInv, Holding
  <2>2. request' = Null
    BY <1>4 DEF Return
  <2> QED  BY <1>1, <2>1, <2>2 DEF RequestInv
<1>5. CASE Return(t) /\ loaderMutex # t
  BY <1>3, <1>5 DEF Return
<1> QED
  BY <1>3, <1>4, <1>5

\* Every step keeps the layers and libraries those of the request.
LEMMA LoadedInvariant ==
    ASSUME IInv, LayersOwned, LibrariesInv, RequestInv, [Next]_vars
    PROVE  LibrariesInv' /\ RequestInv'
<1>1. ASSUME UNCHANGED layerVars, NEW t \in Threads, NEW step, step # "chain", Goto(t, step)
      PROVE  LibrariesInv' /\ RequestInv'
  BY <1>1, OtherStepInvariant DEF layerVars
<1>2. ASSUME UNCHANGED <<layers, libraries>>, NEW t \in Threads, Return(t)
      PROVE  LibrariesInv' /\ RequestInv'
  BY <1>2, OtherStepInvariant
<1>3. ASSUME UNCHANGED layerVars, UNCHANGED pc
      PROVE  LibrariesInv' /\ RequestInv'
  <2>1. LibrariesInv' /\ (Complete => Complete')
    BY <1>3, Zenon DEF LibrariesInv, Times, Complete, layerVars
  <2> QED  BY <1>3, <2>1 DEF RequestInv, layerVars
<1>4. CASE UNCHANGED vars
  BY <1>3, <1>4 DEF vars, layerVars
<1>5. ASSUME NEW t \in Threads, Create(t)
      PROVE  LibrariesInv' /\ RequestInv'
  <2>1. CASE EnterCreate(t)
    BY <1>1, <2>1 DEF EnterCreate, Enter
  <2>2. CASE CreateRejected(t)
    BY <1>2, <2>2 DEF CreateRejected
  <2>3. CASE CreateLoadsRuntime(t)
    BY <1>1, <2>3 DEF CreateLoadsRuntime
  <2>4. CASE CreateFails(t)
    BY <1>1, <2>4 DEF CreateFails
  <2>5. CASE LoadApiLayers(t)
    BY <2>5, LoadingInvariant
  <2>6. CASE ChainFails(t)
    BY <2>6, DroppingInvariant DEF ChainFails, Holding
  <2>7. ASSUME NEW i \in Instances, TermCreateInstance(t, i)
        PROVE  LibrariesInv' /\ RequestInv'
    BY <1>1, <2>7 DEF TermCreateInstance
  <2>8. CASE SetActive(t)
    BY <1>1, <1>2, <2>8 DEF SetActive, layerVars
  <2>9. CASE CleanUp(t)
    BY <2>9, DroppingInvariant DEF CleanUp, RemoveActive, Holding
  <2>10. ASSUME NEW m \in Messengers, CreateDefaultMessenger(t, m)
         PROVE  LibrariesInv' /\ RequestInv'
    BY <1>2, <2>10 DEF CreateDefaultMessenger
  <2>11. CASE DefaultMessengerFails(t)
    BY <1>2, <2>11 DEF DefaultMessengerFails
  <2> QED
    BY <1>5, <2>1, <2>2, <2>3, <2>4, <2>5, <2>6, <2>7, <2>8, <2>9, <2>10, <2>11 DEF Create
<1>6. ASSUME NEW t \in Threads, Destroy(t)
      PROVE  LibrariesInv' /\ RequestInv'
  <2>1. CASE EnterDestroy(t)
    BY <1>1, <2>1 DEF EnterDestroy, Enter
  <2>2. CASE DestroyDefaultMessenger(t)
    BY <1>3, <2>2 DEF DestroyDefaultMessenger
  <2>3. CASE TermDestroyInstance(t)
    BY <1>1, <2>3 DEF TermDestroyInstance
  <2>4. CASE FinishDestroy(t)
    BY <2>4, DroppingInvariant DEF FinishDestroy, RemoveActive, Holding
  <2> QED  BY <1>6, <2>1, <2>2, <2>3, <2>4 DEF Destroy
<1>7. ASSUME NEW t \in Threads, LayerFailure(t)
      PROVE  LibrariesInv' /\ RequestInv'
  <2>1. CASE LayerFails(t)
    BY <2>1, DroppingInvariant DEF LayerFails, Holding
  <2>2. CASE LayerFailsDestroy(t)
    BY <1>1, <2>2 DEF LayerFailsDestroy
  <2> QED  BY <1>7, <2>1, <2>2 DEF LayerFailure
<1>8. ASSUME UNCHANGED layerVars, NEW t \in Threads, Enumerate(t) \/ Messenger(t)
      PROVE  LibrariesInv' /\ RequestInv'
  <2>1. \E step : step # "chain" /\ Goto(t, step)
    BY <1>8
       DEF Enumerate, EnterEnumerate, Enter, EnumerateLoadsRuntime, EnumerateWithoutRuntime,
           EnumerateProperties, Messenger, CreateMessenger, AddLogRecorder,
           TrackDebugMessenger, DestroyMessenger, RemoveLogRecorder, ForgetDebugMessenger,
           ReleaseMessenger, Return
  <2> QED  BY <1>1, <1>8, <2>1
<1> QED
  BY <1>4, <1>5, <1>6, <1>7, <1>8 DEF Next

\* The library of each layer is open as long as the layer is in the chain, as often as it
\* is there and no longer, whatever fails: what api_layer_interface.cpp opens it closes.
THEOREM LibrariesAreClosed == Spec => [](LibrariesAgree /\ LibrariesInv /\ RequestInv)
<1>1. Init => LibrariesInv /\ RequestInv
  <2> SUFFICES ASSUME Init PROVE LibrariesInv /\ RequestInv
    OBVIOUS
  <2>1. layers = <<>> /\ libraries = [f \in Manifests |-> 0]
    BY DEF Init
  <2>2. LibrariesInv
    BY <2>1, NoTimes DEF LibrariesInv
  <2>3. RequestInv
    BY DEF Init, RequestInv
  <2> QED  BY <2>2, <2>3
<1>2. /\ IInv /\ LayersOwned /\ LibrariesInv /\ RequestInv /\ [Next]_vars
      => LibrariesInv' /\ RequestInv'
  BY LoadedInvariant
<1>3. LibrariesInv /\ LayersOwned => LibrariesAgree
  BY Zenon DEF LibrariesInv, LibrariesAgree, Times
<1> QED
  BY <1>1, <1>2, <1>3, Invariant, LayersHaveAnOwner, PTL DEF Spec

-----------------------------------------------------------------------------
(* What the chain has, and where it was looked for.                         *)

\* The chain has what LayersExplained says: a file is chosen if it is an enabled implicit
\* one, or is named and not hidden by an implicit one.
LEMMA ChainExplained ==
    ASSUME RequestInv
    PROVE  LayersExplained
<1> SUFFICES ASSUME NEW t \in Threads, pc[t] = "chain"
             PROVE
        LET asked       == ToSet(request.named) \cup ToSet(request.layers)
            variables   == request.environment.variables
            Found(kind) == {f \in Manifests :
                               f.valid /\ f.dir \in ToSet(SearchPath(request.environment.lists, kind))}
            implicit    == {f \in Found(Implicit) :
                               f.disable \notin variables /\ f.enable \in variables \cup {Unset}}
            explicit    == {f \in Found(Explicit) :
                               f.name \in asked \ {g.name : g \in implicit}}
            Listed(f)   == LET path == SearchPath(request.environment.lists,
                                                  IF f \in implicit THEN Implicit ELSE Explicit)
                           IN  Cardinality({i \in DOMAIN path : path[i] = f.dir})
        IN  /\ asked \subseteq {f.name : f \in implicit \cup explicit}
            /\ \A f \in Manifests :
                   Cardinality({i \in DOMAIN layers : layers[i] = f})
                       = IF f \in implicit \cup explicit /\ request.outcome[f] = "loaded"
                         THEN Listed(f) ELSE 0
            /\ layers = <<>> => implicit \cup explicit = {}
  BY Zenon DEF LayersExplained
<1> DEFINE environment == request.environment
           asked       == ToSet(request.named) \cup ToSet(request.layers)
           variables   == request.environment.variables
           Found(kind) == {f \in Manifests :
                              f.valid /\ f.dir \in ToSet(SearchPath(request.environment.lists, kind))}
           implicit    == {f \in Found(Implicit) :
                              f.disable \notin variables /\ f.enable \in variables \cup {Unset}}
           explicit    == {f \in Found(Explicit) :
                              f.name \in asked \ {g.name : g \in implicit}}
           Times2(f, kind) == LET path == SearchPath(request.environment.lists, kind)
                              IN  Cardinality({i \in DOMAIN path : path[i] = f.dir})
           Listed(f)   == Times2(f, IF f \in implicit THEN Implicit ELSE Explicit)
           first       == FindManifestFiles(Implicit, environment)
           second      == FindManifestFiles(Explicit, environment)
<1>1. Complete
  BY DEF RequestInv
<1>2. environment \in Environments /\ Implicit # Explicit
  BY <1>1 DEF Complete, Implicit, Explicit
<1>3. first \in Seq(Manifests) /\ second \in Seq(Manifests)
  BY <1>2, FoundElements
<1>4. \A f \in Manifests :
         /\ CreateIfValid(f, Implicit, variables) <=>
               f.valid /\ f.disable \notin variables /\ f.enable \in variables \cup {Unset}
         /\ CreateIfValid(f, Explicit, variables) <=> f.valid
  BY <1>2 DEF CreateIfValid, IsEnabled
<1>5. \A f : f \in ToSet(first) <=> f \in implicit
  <2>1. \A f : f \in ToSet(first) <=>
           /\ f \in Manifests /\ f.dir \in ToSet(SearchPath(environment.lists, Implicit))
           /\ CreateIfValid(f, Implicit, environment.variables)
    BY <1>2, FoundElements, Zenon
  <2> HIDE DEF first
  <2> QED  BY <1>4, <2>1
<1>6. \A f : f \in ToSet(second) <=> f \in Found(Explicit)
  <2>1. \A f : f \in ToSet(second) <=>
           /\ f \in Manifests /\ f.dir \in ToSet(SearchPath(environment.lists, Explicit))
           /\ CreateIfValid(f, Explicit, environment.variables)
    BY <1>2, FoundElements, Zenon
  <2> HIDE DEF second
  <2> QED  BY <1>4, <2>1
<1>7. NamesOf(first) = {g.name : g \in implicit}
  <2> HIDE DEF first, implicit
  <2> QED  BY <1>5 DEF NamesOf
<1>8. \A f : f \in explicit <=> f \in ToSet(second) /\ f.name \in asked \ NamesOf(first)
  <2> HIDE DEF first, second, asked, implicit, Found
  <2> QED  BY <1>6, <1>7
<1>9. implicit \subseteq Manifests /\ explicit \subseteq Manifests
  OBVIOUS
<1>10. ASSUME NEW f \in Manifests
       PROVE  /\ Times(f, first) # 0 <=> f \in ToSet(first)
              /\ Times(f, second) # 0 <=> f \in ToSet(second)
              /\ f \in ToSet(first) => Times(f, first) = Times2(f, Implicit)
              /\ f \in ToSet(second) => Times(f, second) = Times2(f, Explicit)
  <2>1. /\ Times(f, first) = IF CreateIfValid(f, Implicit, environment.variables)
                             THEN Times2(f, Implicit) ELSE 0
        /\ Times(f, second) = IF CreateIfValid(f, Explicit, environment.variables)
                              THEN Times2(f, Explicit) ELSE 0
    BY <1>2, FoundTimes
  <2>2. /\ Times(f, first) # 0 <=> f \in ToSet(first)
        /\ Times(f, second) # 0 <=> f \in ToSet(second)
    BY <1>3, TimesMember
  <2> HIDE DEF first, second, Times2
  <2> QED  BY <2>1, <2>2
<1>11. \A f : Chosen(f, request) = IF f.name \in asked \ NamesOf(first) THEN Times(f, second)
                                                                      ELSE Times(f, first)
  BY Zenon DEF Chosen, Asked
<1> HIDE DEF environment, first, second, asked, implicit, explicit, Times2, variables
<1>12. \A f \in implicit : f.name \in NamesOf(first)
  BY <1>7
<1>13. \A f \in Manifests :
          /\ Chosen(f, request) = IF f \in implicit \cup explicit THEN Listed(f) ELSE 0
          /\ Chosen(f, request) # 0 <=> f \in implicit \cup explicit
  <2> SUFFICES ASSUME NEW f \in Manifests
               PROVE  /\ Chosen(f, request) = IF f \in implicit \cup explicit THEN Listed(f) ELSE 0
                      /\ Chosen(f, request) # 0 <=> f \in implicit \cup explicit
    OBVIOUS
  <2>1. CASE f \in implicit
    BY <1>5, <1>10, <1>11, <1>12, <2>1
  <2>2. CASE f \notin implicit /\ f \in explicit
    BY <1>8, <1>10, <1>11, <2>2
  <2>3. CASE f \notin implicit /\ f \notin explicit
    BY <1>5, <1>8, <1>10, <1>11, <2>3
  <2> QED  BY <2>1, <2>2, <2>3
<1>14. asked \subseteq {f.name : f \in implicit \cup explicit}
  <2>1. \A name \in asked : \E f \in Manifests : f.name = name /\ Chosen(f, request) # 0
    BY <1>1, Zenon DEF Complete, Asked, asked
  <2> QED  BY <1>13, <2>1
<1>15. \A f \in Manifests :
          Times(f, layers) = IF f \in implicit \cup explicit /\ request.outcome[f] = "loaded"
                             THEN Listed(f) ELSE 0
  <2>1. \A f \in Manifests :
           Times(f, layers) = IF request.outcome[f] = "loaded" THEN Chosen(f, request) ELSE 0
    BY <1>1, Zenon DEF Complete
  <2> HIDE DEF Listed
  <2> QED  BY <1>13, <2>1
<1>16. layers = <<>> => implicit \cup explicit = {}
  <2>1. layers = <<>> => \A f \in Manifests : Chosen(f, request) = 0
    BY <1>1, Zenon DEF Complete
  <2> QED  BY <1>9, <1>13, <2>1
<1> QED
  BY <1>14, <1>15, <1>16
     DEF environment, asked, implicit, explicit, Times2, variables, Times

\* One sequence more to flatten.
LEMMA FlattenAppend ==
    ASSUME NEW S, NEW seqs \in Seq(Seq(S)), NEW x \in Seq(S)
    PROVE  FlattenSeq(Append(seqs, x)) = FlattenSeq(seqs) \o x
<1> DEFINE n == Len(seqs)
           longer == Append(seqs, x)
<1>1. n \in Nat /\ DOMAIN seqs = 1..n /\ n + 1 \in Nat /\ n + 1 # 0
  OBVIOUS
<1>2. /\ Len(longer) = n + 1 /\ longer[n + 1] = x
      /\ \A i \in 1..n : longer[i] = seqs[i]
  OBVIOUS
<1>3. FlattenSeq(seqs) \in Seq(S)
  BY FlattenElements
<1> HIDE DEF n, longer
<1>4. PICK g : /\ FlattenSeq(longer) = g[n + 1]
               /\ g[1] = longer[1]
               /\ \A i, j \in 1..(n + 1) : i = j + 1 => g[i] = g[j] \o longer[i]
  BY <1>1, <1>2, FlattenSteps
<1>5. CASE n = 0
  <2>1. FlattenSeq(seqs) = <<>>
    <3>1. Len(seqs) = 0 /\ seqs = <<>>
      BY <1>5 DEF n
    <3> QED  BY <3>1 DEF FlattenSeq
  <2>2. g[n + 1] = x
    BY <1>2, <1>4, <1>5
  <2>3. <<>> \o x = x
    OBVIOUS
  <2> QED  BY <1>4, <2>1, <2>2, <2>3 DEF longer
<1>6. CASE n # 0
  <2>1. PICK h : /\ FlattenSeq(seqs) = h[n]
                 /\ h[1] = seqs[1]
                 /\ \A i, j \in 1..n : i = j + 1 => h[i] = h[j] \o seqs[i]
    BY <1>1, <1>6, FlattenSteps, Zenon DEF n
  <2> DEFINE T == {k \in Nat : k \in 1..n => g[k] = h[k]}
  <2>2. ASSUME NEW k \in Nat, k \in T PROVE k + 1 \in T
    <3> SUFFICES ASSUME k + 1 \in 1..n PROVE g[k + 1] = h[k + 1]
      OBVIOUS
    <3>1. CASE k = 0
      <4>1. k + 1 = 1 /\ 1 \in 1..n
        BY <3>1
      <4> QED  BY <1>2, <1>4, <2>1, <4>1
    <3>2. CASE k # 0
      <4>1. k \in 1..n /\ k \in 1..(n + 1) /\ k + 1 \in 1..(n + 1)
        BY <1>1, <3>2
      <4>2. g[k] = h[k]
        BY <2>2, <4>1
      <4>3. g[k + 1] = g[k] \o longer[k + 1]
        BY <1>4, <4>1, Zenon
      <4>4. h[k + 1] = h[k] \o seqs[k + 1]
        BY <2>1, <4>1, Zenon
      <4>5. longer[k + 1] = seqs[k + 1]
        BY <1>2
      <4> QED  BY ONLY <4>2, <4>3, <4>4, <4>5
    <3> QED  BY <3>1, <3>2
  <2>3. 0 \in T
    OBVIOUS
  <2> HIDE DEF T
  <2>4. n \in T
    BY <1>1, <2>2, <2>3, Induction
  <2>5. g[n] = h[n]
    BY <1>1, <1>6, <2>4 DEF T
  <2>6. n \in 1..(n + 1) /\ n + 1 \in 1..(n + 1)
    BY <1>1, <1>6
  <2>7. g[n + 1] = g[n] \o longer[n + 1]
    BY <1>4, <2>6, Zenon
  <2> QED  BY <1>2, <1>4, <2>1, <2>5, <2>7 DEF longer
<1> QED
  BY <1>5, <1>6

\* A list without the occurrences of an element, and a list as it is searched.
Without(list, e) == FlattenSeq([i \in DOMAIN list |-> IF list[i] # e THEN <<list[i]>> ELSE <<>>])
Sought(list) == [i \in DOMAIN list |-> IF list[i] = Empty THEN Root ELSE list[i]]

\* A list with one element more.
LEMMA WithoutAppend ==
    ASSUME NEW S, NEW list \in Seq(S), NEW last \in S, NEW e
    PROVE  /\ Without(list, e) \in Seq(S)
           /\ Without(Append(list, last), e) =
                 Without(list, e) \o (IF last # e THEN <<last>> ELSE <<>>)
<1> DEFINE parts == [i \in DOMAIN list |-> IF list[i] # e THEN <<list[i]>> ELSE <<>>]
           longer == Append(list, last)
           more == [i \in DOMAIN longer |-> IF longer[i] # e THEN <<longer[i]>> ELSE <<>>]
           x == IF last # e THEN <<last>> ELSE <<>>
           n == Len(list)
<1>1. n \in Nat /\ DOMAIN list = 1..n
  OBVIOUS
<1>2. /\ DOMAIN longer = 1..(n + 1) /\ longer[n + 1] = last
      /\ \A i \in 1..n : longer[i] = list[i]
  OBVIOUS
<1>3. \A y \in S : <<y>> \in Seq(S)
  OBVIOUS
<1>4. <<>> \in Seq(S)
  OBVIOUS
<1>5. x \in Seq(S)
  BY <1>3, <1>4
<1>6. \A i \in 1..n : parts[i] \in Seq(S)
  <2>1. \A i \in 1..n : list[i] \in S
    OBVIOUS
  <2> QED  BY <1>1, <1>3, <1>4, <2>1
<1>7. parts = [i \in 1..n |-> parts[i]]
  BY <1>1
<1>8. \A i \in 1..(n + 1) : more[i] = IF longer[i] # e THEN <<longer[i]>> ELSE <<>>
  BY <1>2
<1>9. \A i \in 1..n : parts[i] = IF list[i] # e THEN <<list[i]>> ELSE <<>>
  BY <1>1
<1>10. more = [i \in 1..(n + 1) |-> more[i]]
  BY <1>2
<1>11. Without(list, e) = FlattenSeq(parts) /\ Without(longer, e) = FlattenSeq(more)
  BY Zenon DEF Without
<1> HIDE DEF parts, more, longer, x, n
<1>12. parts \in Seq(Seq(S)) /\ Len(parts) = n
  BY <1>1, <1>6, <1>7
<1>13. more = Append(parts, x)
  <2> DEFINE sum == Append(parts, x)
  <2>a. /\ sum \in Seq(Seq(S)) /\ Len(sum) = n + 1 /\ sum[n + 1] = x
        /\ \A i \in 1..n : sum[i] = parts[i]
    <3> DEFINE U == Seq(S)
    <3>0. x \in U /\ parts \in Seq(U) /\ Len(parts) = n
      BY <1>5, <1>12
    <3> HIDE DEF U
    <3>1. sum \in Seq(U)
      BY ONLY <3>0
    <3>2. Len(sum) = n + 1
      BY ONLY <3>0
    <3>3. sum[n + 1] = x
      BY ONLY <3>0
    <3>4. \A i \in 1..n : sum[i] = parts[i]
      BY ONLY <3>0
    <3> QED  BY <3>1, <3>2, <3>3, <3>4 DEF U
  <2>1. /\ sum = [i \in 1..(n + 1) |-> sum[i]] /\ sum[n + 1] = x
        /\ \A i \in 1..n : sum[i] = parts[i]
    <3> HIDE DEF sum
    <3> DEFINE U == Seq(S)
    <3>1. sum \in Seq(U)
      BY <2>a
    <3> HIDE DEF U
    <3>2. sum = [i \in 1..(n + 1) |-> sum[i]]
      BY ONLY <1>1, <2>a, <3>1, SeqDef
    <3> QED  BY <2>a, <3>2, Zenon
  <2> HIDE DEF sum
  <2>0. \A i \in 1..n : i \in 1..(n + 1)
    BY <1>1
  <2>2. \A i \in 1..n : more[i] = parts[i]
    BY <1>2, <1>8, <1>9, <2>0
  <2>3. more[n + 1] = x
    BY <1>1, <1>2, <1>8 DEF x
  <2>4. \A i \in 1..(n + 1) : i \in 1..n \/ i = n + 1
    BY <1>1
  <2>5. \A i \in 1..(n + 1) : more[i] = sum[i]
    BY <2>1, <2>2, <2>3, <2>4
  <2>6. more = sum
    BY <1>10, <2>1, <2>5
  <2> QED  BY <2>6 DEF sum
<1> QED
  BY <1>5, <1>11, <1>12, <1>13, FlattenElements, FlattenAppend DEF longer, x

\* A list of directories with one more.
LEMMA SoughtAppend ==
    ASSUME NEW list \in Seq(Words), NEW last \in Words
    PROVE  /\ Sought(list) \in Seq(Words)
           /\ Sought(Append(list, last)) =
                 Append(Sought(list), IF last = Empty THEN Root ELSE last)
<1> DEFINE entry(x) == IF x = Empty THEN Root ELSE x
           n == Len(list)
           longer == Append(list, last)
           first == Sought(list)
           second == Sought(longer)
           sum == Append(first, entry(last))
<1>1. n \in Nat /\ DOMAIN list = 1..n
  OBVIOUS
<1>2. /\ DOMAIN longer = 1..(n + 1) /\ longer[n + 1] = last
      /\ \A i \in 1..n : longer[i] = list[i]
  OBVIOUS
<1>3. \A x \in Words : entry(x) \in Words
  BY DEF Words
<1>4. \A i \in 1..n : list[i] \in Words
  OBVIOUS
<1>5. first = [i \in 1..n |-> entry(list[i])] /\ second = [i \in 1..(n + 1) |-> entry(longer[i])]
  <2> HIDE DEF longer
  <2> QED  BY <1>1, <1>2 DEF Sought
<1> HIDE DEF n, longer, first, second, entry
<1>6. first \in Seq(Words) /\ Len(first) = n
  <2>1. \A i \in 1..n : entry(list[i]) \in Words
    BY <1>3, <1>4
  <2> QED  BY <1>1, <1>5, <2>1
<1>7. entry(last) \in Words
  BY <1>3
<1>8. sum \in Seq(Words) /\ Len(sum) = n + 1 /\ sum[n + 1] = entry(last)
  BY <1>6, <1>7
<1>9. \A i \in 1..n : sum[i] = first[i]
  BY <1>6, <1>7
<1> HIDE DEF sum
<1>10. sum = [i \in 1..(n + 1) |-> sum[i]]
  BY ONLY <1>1, <1>8, SeqDef
<1>11. \A i \in 1..(n + 1) : sum[i] = entry(longer[i])
  <2>1. \A i \in 1..n : sum[i] = entry(longer[i])
    BY <1>1, <1>2, <1>5, <1>9
  <2>2. \A i \in 1..(n + 1) : i \in 1..n \/ i = n + 1
    BY <1>1
  <2> QED  BY <1>2, <1>8, <2>1, <2>2
<1>12. sum = second
  BY <1>5, <1>10, <1>11
<1> QED
  BY <1>6, <1>12 DEF sum, second, first, longer, entry

\* Nothing of an empty list.
LEMMA EmptyList ==
    /\ \A e : Without(<<>>, e) = <<>>
    /\ Sought(<<>>) = <<>>
<1>1. ASSUME NEW e PROVE Without(<<>>, e) = <<>>
  <2> DEFINE parts == [i \in DOMAIN <<>> |-> IF <<>>[i] # e THEN <<<<>>[i]>> ELSE <<>>]
  <2>1. parts = <<>>
    OBVIOUS
  <2>2. Without(<<>>, e) = FlattenSeq(parts)
    BY Zenon DEF Without
  <2> HIDE DEF parts
  <2>3. FlattenSeq(<<>>) = <<>>
    BY DEF FlattenSeq
  <2> QED  BY <2>1, <2>2, <2>3
<1>2. Sought(<<>>) = <<>>
  BY DEF Sought
<1> QED
  BY <1>1, <1>2

\* The entries that are searched are, without the root, those that are not empty; if
\* none is empty all are searched.
SoughtRight(list) ==
    /\ Without(Sought(list), Root) = Without(Without(list, Empty), Root)
    /\ (\A i \in DOMAIN list : list[i] # Empty) =>
           Without(list, Empty) = list /\ Sought(list) = list

\* So for every list, by induction over its length.
LEMMA SearchedRight ==
    ASSUME NEW list \in Seq(Words)
    PROVE  SoughtRight(list)
<1> DEFINE T == {n \in Nat : \A l \in Seq(Words) : Len(l) = n => SoughtRight(l)}
<1>1. 0 \in T
  <2> SUFFICES ASSUME NEW l \in Seq(Words), Len(l) = 0 PROVE SoughtRight(l)
    OBVIOUS
  <2>1. l = <<>>
    OBVIOUS
  <2> QED  BY <2>1, EmptyList, Zenon DEF SoughtRight
<1>2. ASSUME NEW n \in Nat, n \in T PROVE n + 1 \in T
  <2> SUFFICES ASSUME NEW l \in Seq(Words), Len(l) = n + 1 PROVE SoughtRight(l)
    OBVIOUS
  <2> DEFINE front == [i \in 1..n |-> l[i]]
             last == l[n + 1]
             entry == IF last = Empty THEN Root ELSE last
             sought == Sought(front)
             named == Without(front, Empty)
  <2>1. front \in Seq(Words) /\ Len(front) = n /\ last \in Words /\ DOMAIN l = 1..(n + 1)
    OBVIOUS
  <2>2. l = Append(front, last)
    OBVIOUS
  <2>3. DOMAIN front = 1..n /\ \A i \in 1..n : front[i] = l[i] /\ i \in DOMAIN l
    OBVIOUS
  <2>4. SoughtRight(front)
    BY <1>2, <2>1
  <2> HIDE DEF front, last, T
  <2>5. sought \in Seq(Words) /\ Sought(l) = Append(sought, entry)
    BY <2>1, <2>2, SoughtAppend
  <2>6. /\ named \in Seq(Words)
        /\ Without(l, Empty) = named \o (IF last # Empty THEN <<last>> ELSE <<>>)
    BY <2>1, <2>2, WithoutAppend
  <2>7. entry \in Words
    BY <2>1 DEF Words
  <2> HIDE DEF entry, sought, named
  <2>8. /\ Without(sought, Root) \in Seq(Words)
        /\ Without(Append(sought, entry), Root) =
              Without(sought, Root) \o (IF entry # Root THEN <<entry>> ELSE <<>>)
    BY <2>5, <2>7, WithoutAppend
  <2>9. Without(sought, Root) = Without(named, Root)
    BY <2>4 DEF SoughtRight, sought, named
  <2>10. Root # Empty
    BY DEF Root, Empty
  <2>11. Without(Sought(l), Root) = Without(Without(l, Empty), Root)
    <3>1. CASE last = Empty
      <4>1. entry = Root /\ Without(l, Empty) = named
        BY <2>6, <3>1 DEF entry
      <4> QED  BY <2>5, <2>8, <2>9, <4>1
    <3>2. CASE last # Empty
      <4>1. entry = last /\ Without(l, Empty) = Append(named, last)
        BY <2>1, <2>6, <3>2 DEF entry
      <4>2. Without(Append(named, last), Root) =
              Without(named, Root) \o (IF last # Root THEN <<last>> ELSE <<>>)
        BY <2>1, <2>6, WithoutAppend
      <4> QED  BY <2>5, <2>8, <2>9, <4>1, <4>2, Zenon
    <3> QED  BY <3>1, <3>2
  <2>12. ASSUME \A i \in DOMAIN l : l[i] # Empty
         PROVE  Without(l, Empty) = l /\ Sought(l) = l
    <3>1. \A i \in DOMAIN front : front[i] # Empty
      BY <2>3, <2>12
    <3>2. named = front /\ sought = front
      BY <2>4, <3>1 DEF SoughtRight, named, sought
    <3>3. last # Empty
      BY <2>1, <2>12 DEF last
    <3> QED  BY <2>1, <2>2, <2>5, <2>6, <3>2, <3>3 DEF entry
  <2> QED  BY <2>11, <2>12, Zenon DEF SoughtRight
<1> HIDE DEF T
<1>3. Len(list) \in T
  BY <1>1, <1>2, Induction
<1> QED
  BY <1>3, Zenon DEF T

\* What is searched has what SearchExplained says.
LEMMA SearchRight ==
    ASSUME RequestInv
    PROVE  SearchExplained
<1> DEFINE lists == request.environment.lists
<1> SUFFICES ASSUME NEW t \in Threads, pc[t] = "chain", NEW list \in Range(lists)
             PROVE
        LET Named(e)  == e # Empty
            NotRoot(e) == e # Root
            listed    == Kept(list, Named)
            path      == CopyIncludedPaths(list, <<>>)
            searched  == [i \in DOMAIN path |-> path[i][1]]
        IN  \/ searched = listed
            \/ /\ \E i \in DOMAIN list : i < Len(list) /\ list[i] = Empty
               /\ Kept(searched, NotRoot) = Kept(listed, NotRoot)
            \/ list = <<Root>> /\ searched = <<>>
  BY Zenon DEF SearchExplained
<1> DEFINE ends == list # <<>> /\ (list = <<Root>> \/ Last(list) = Empty)
           kept == IF ends THEN Front(list) ELSE list
           path == CopyIncludedPaths(list, <<>>)
           searched == [i \in DOMAIN path |-> path[i][1]]
<1>1. request.environment \in Environments
  BY DEF RequestInv, Complete
<1>2. list \in Seq(Words)
  <2>1. lists \in Lists
    BY <1>1 DEF Environments
  <2>2. list \in Seq(STRING)
    BY <2>1 DEF Lists, Range
  <2> QED  BY <2>2 DEF Words
<1> HIDE DEF lists
<1>3. kept \in Seq(Words)
  <2>1. list # <<>> => Front(list) \in Seq(Words)
    BY <1>2 DEF Front
  <2> QED  BY <2>1, <1>2
<1>4. path = [i \in DOMAIN kept |-> <<IF kept[i] = Empty THEN Root ELSE kept[i]>> \o <<>>]
  BY Zenon DEF CopyIncludedPaths
<1> HIDE DEF kept, path
<1>5. searched = Sought(kept)
  <2>1. \A x : <<x>> \o <<>> = <<x>>
    OBVIOUS
  <2>2. \A i \in DOMAIN kept : path[i][1] = IF kept[i] = Empty THEN Root ELSE kept[i]
    BY <1>4, <2>1
  <2>3. DOMAIN path = DOMAIN kept
    BY <1>4
  <2> QED  BY <2>2, <2>3 DEF Sought
<1>6. SoughtRight(kept)
  BY <1>3, SearchedRight
<1> HIDE DEF searched
<1>7. ASSUME list # <<Root>>
      PROVE  /\ Without(list, Empty) = Without(kept, Empty)
             /\ \A i \in DOMAIN kept : kept[i] = Empty =>
                   \E j \in DOMAIN list : j < Len(list) /\ list[j] = Empty
  <2>1. CASE ends
    <3> DEFINE last == list[Len(list)]
    <3>1. list # <<>> /\ last = Empty
      BY <1>7, <2>1 DEF Last
    <3>2. kept = Front(list)
      BY <2>1 DEF kept
    <3>3. /\ Len(kept) = Len(list) - 1 /\ list = Append(kept, last)
          /\ \A i \in DOMAIN kept : i \in DOMAIN list /\ i < Len(list) /\ list[i] = kept[i]
      <4> DEFINE m == Len(list) - 1
      <4>1. m \in Nat /\ Len(list) = m + 1 /\ DOMAIN list = 1..(m + 1)
        BY <1>2, <3>1
      <4>2. kept = [i \in 1..m |-> list[i]]
        BY <1>2, <3>1, <3>2 DEF Front
      <4> HIDE DEF m
      <4>3. Len(kept) = m /\ DOMAIN kept = 1..m /\ \A i \in 1..m : list[i] = kept[i]
        BY <4>1, <4>2
      <4>4. list = Append(kept, list[m + 1])
        BY ONLY <1>2, <1>3, <4>1, <4>2
      <4>5. \A i \in 1..m : i \in 1..(m + 1) /\ i < m + 1
        BY <4>1
      <4> QED  BY <4>1, <4>3, <4>4, <4>5 DEF m
    <3>4. Without(list, Empty) = Without(kept, Empty) \o (IF last # Empty THEN <<last>> ELSE <<>>)
      <4>1. last \in Words
        BY <1>2, <3>1
      <4> HIDE DEF last
      <4> QED  BY <1>3, <3>3, <4>1, WithoutAppend
    <3>5. Without(kept, Empty) \in Seq(Words)
      <4>1. Empty \in Words
        BY <1>2, <3>1
      <4> QED  BY <1>3, <4>1, WithoutAppend
    <3>6. Without(list, Empty) = Without(kept, Empty)
      BY <3>1, <3>4, <3>5
    <3> QED  BY <3>3, <3>6
  <2>2. CASE ~ends
    <3>1. kept = list
      BY <2>2 DEF kept
    <3>2. \A i \in DOMAIN list : list[i] = Empty => i < Len(list)
      BY <1>2, <2>2 DEF Last
    <3> QED  BY <3>1, <3>2
  <2> QED  BY <2>1, <2>2
<1>8. CASE list = <<Root>>
  <2>1. kept = <<>>
    BY <1>8 DEF kept, Front
  <2>2. searched = <<>>
    BY <1>5, <2>1, EmptyList
  <2> QED  BY <1>8, <2>2, Zenon DEF searched, path
<1>9. CASE list # <<Root>> /\ \A i \in DOMAIN kept : kept[i] # Empty
  <2>1. searched = Without(list, Empty)
    BY <1>5, <1>6, <1>7, <1>9 DEF SoughtRight
  <2> QED  BY <2>1, Zenon DEF searched, path, Without, Kept
<1>10. CASE list # <<Root>> /\ \E i \in DOMAIN kept : kept[i] = Empty
  <2>1. Without(searched, Root) = Without(Without(list, Empty), Root)
    BY <1>5, <1>6, <1>7, <1>10 DEF SoughtRight
  <2>2. \E j \in DOMAIN list : j < Len(list) /\ list[j] = Empty
    BY <1>7, <1>10
  <2> QED  BY <2>1, <2>2, Zenon DEF searched, path, Without, Kept
<1> QED
  BY <1>8, <1>9, <1>10

\* What the search for manifest files finds and what the loader keeps of it agree, in the
\* chain that is built and in the libraries that are open.
THEOREM LayersAgreement == Spec => []LayersAgree
<1>1. RequestInv /\ LibrariesAgree => LayersAgree
  BY ChainExplained, SearchRight, Zenon DEF LayersAgree
<1> QED
  BY <1>1, LibrariesAreClosed, PTL

-----------------------------------------------------------------------------
(* What is reported is accepted.                                           *)

\* Without the first occurrence of an element that occurs once, none is left.
LEMMA RemoveFirstElements ==
    ASSUME NEW S, NEW s \in Seq(S), NEW e, IsInjective(s)
    PROVE  /\ RemoveFirst(s, e) \in Seq(S)
           /\ \A x \in ToSet(RemoveFirst(s, e)) : x \in ToSet(s) /\ x # e
<1> DEFINE n == Len(s)
<1>1. n \in Nat /\ DOMAIN s = 1..n
  OBVIOUS
<1>2. CASE \E i \in 1..n : s[i] = e
  <2>1. PICK k \in 1..n : s[k] = e
    BY <1>2
  <2>2. \A i \in 1..n : s[i] = e <=> i = k
    BY <1>1, <2>1 DEF IsInjective
  <2> DEFINE places == {i \in 1..n : s[i] = e}
  <2>3. places = {k}
    BY <2>2
  <2>4. Min(places) = k
    <3>1. Min(places) \in places
      <4>1. \E x \in places : \A y \in places : x =< y
        BY <2>3
      <4> HIDE DEF places
      <4> QED  BY <4>1, Zenon DEF Min
    <3> QED  BY <2>3, <3>1
  <2>5. SelectInSeq(s, LAMBDA v : v = e) = Min(places)
    <3>1. places # {}
      BY <2>3
    <3> QED  BY <3>1, Zenon DEF SelectInSeq
  <2>6. RemoveFirst(s, e) = RemoveAt(s, k)
    BY <1>2, <2>4, <2>5, Zenon DEF RemoveFirst
  <2> DEFINE left == SubSeq(s, 1, k - 1)
             right == SubSeq(s, k + 1, n)
  <2>7. left \in Seq(S) /\ right \in Seq(S)
    OBVIOUS
  <2>8. RemoveFirst(s, e) = left \o right
    BY <2>6, Zenon DEF RemoveAt
  <2>9. ASSUME NEW x \in ToSet(left) PROVE x \in ToSet(s) /\ x # e
    <3>1. PICK i \in DOMAIN left : x = left[i]
      BY DEF ToSet
    <3>2. i \in 1..n /\ i # k /\ left[i] = s[i]
      BY <1>1, <2>1, <3>1
    <3> HIDE DEF left
    <3> QED  BY <1>1, <2>2, <3>1, <3>2 DEF ToSet
  <2>10. ASSUME NEW x \in ToSet(right) PROVE x \in ToSet(s) /\ x # e
    <3>1. PICK i \in DOMAIN right : x = right[i]
      BY DEF ToSet
    <3>2. i + k \in 1..n /\ i + k # k /\ right[i] = s[i + k]
      BY <1>1, <2>1, <3>1
    <3> HIDE DEF right
    <3> QED  BY <1>1, <2>2, <3>1, <3>2 DEF ToSet
  <2> HIDE DEF left, right
  <2> QED  BY <2>7, <2>8, <2>9, <2>10, ToSetConcat
<1>3. CASE ~\E i \in 1..n : s[i] = e
  <2>1. RemoveFirst(s, e) = s
    BY <1>3, Zenon DEF RemoveFirst
  <2> QED  BY <1>1, <1>3, <2>1 DEF ToSet
<1> QED
  BY <1>2, <1>3

\* The files whose extensions are reported.
LEMMA ReportedElements ==
    ASSUME NEW environment \in Environments, NEW named \in Seq(STRING),
           NEW f \in ToSet(ReportedFiles(environment, named))
    PROVE  \/ f \in ToSet(FindManifestFiles(Implicit, environment))
           \/ /\ f \in ToSet(FindManifestFiles(Explicit, environment))
              /\ f.name \in ToSet(named)
<1> DEFINE implicit == FindManifestFiles(Implicit, environment)
           files == FindManifestFiles(Explicit, environment)
           keep == {g \in Manifests : g.name \in ToSet(named)}
           parts == [i \in DOMAIN files |->
                        IF files[i].name \in ToSet(named) THEN <<files[i]>> ELSE <<>>]
<1>1. ReportedFiles(environment, named) = implicit \o FlattenSeq(parts)
  BY Zenon DEF ReportedFiles, Kept
<1>2. implicit \in Seq(Manifests) /\ files \in Seq(Manifests)
  BY FoundElements
<1> HIDE DEF implicit, files
<1>3. \A i \in DOMAIN files : files[i] \in Manifests
  BY <1>2
<1>4. parts \in [DOMAIN files -> Seq(Manifests)]
  <2>1. <<>> \in Seq(Manifests) /\ \A i \in DOMAIN files : <<files[i]>> \in Seq(Manifests)
    BY <1>3
  <2> QED  BY <2>1
<1>5. \A i \in DOMAIN files : ToSet(parts[i]) = {files[i]} \cap keep
  BY <1>3 DEF ToSet
<1> HIDE DEF parts, keep
<1>6. FlattenSeq(parts) \in Seq(Manifests)
  BY <1>2, <1>4, <1>5, KeptElements, Zenon
<1>7. \A g : g \in ToSet(FlattenSeq(parts)) <=> g \in ToSet(files) /\ g \in keep
  BY <1>2, <1>4, <1>5, KeptElements, Zenon
<1> QED
  BY <1>1, <1>2, <1>6, <1>7, ToSetConcat DEF keep, implicit, files

\* Of the extensions asked for, the runtime gets its own and those that nobody filters out.
LEMMA AskedElements ==
    ASSUME NEW extensions \in Seq(STRING), IsInjective(extensions), NEW chain,
           NEW e \in ToSet(AskedOfRuntime(extensions, chain))
    PROVE  /\ e \in ToSet(extensions)
           /\ e \in RuntimeExtensions \/ (e \notin ExtensionsOf(chain) /\ e # DebugUtils)
<1> DEFINE asked == FilterOutExtensions(extensions)
           keep == {y \in ToSet(asked) :
                       y \in RuntimeExtensions \/ y \notin ExtensionsOf(chain)}
           parts == [i \in DOMAIN asked |->
                        IF asked[i] \in RuntimeExtensions \/ asked[i] \notin ExtensionsOf(chain)
                        THEN <<asked[i]>> ELSE <<>>]
<1>1. AskedOfRuntime(extensions, chain) = FlattenSeq(parts)
  BY Zenon DEF AskedOfRuntime, Kept
<1>2. /\ asked \in Seq(STRING)
      /\ \A x \in ToSet(asked) :
            x \in ToSet(extensions) /\ (x \in RuntimeExtensions \/ x # DebugUtils)
  <2>1. CASE DebugUtils \in RuntimeExtensions
    BY <2>1 DEF FilterOutExtensions
  <2>2. CASE DebugUtils \notin RuntimeExtensions
    <3>1. asked = RemoveFirst(extensions, DebugUtils)
      BY <2>2 DEF FilterOutExtensions
    <3> HIDE DEF asked
    <3> QED  BY <3>1, RemoveFirstElements
  <2> QED  BY <2>1, <2>2
<1> HIDE DEF asked
<1>4. parts \in [DOMAIN asked -> Seq(STRING)]
  <2>1. <<>> \in Seq(STRING) /\ \A i \in DOMAIN asked : <<asked[i]>> \in Seq(STRING)
    BY <1>2
  <2> QED  BY <2>1
<1>5. \A i \in DOMAIN asked : ToSet(parts[i]) = {asked[i]} \cap keep
  BY DEF ToSet
<1> HIDE DEF parts, keep
<1>7. \A x : x \in ToSet(FlattenSeq(parts)) <=> x \in ToSet(asked) /\ x \in keep
  BY <1>2, <1>4, <1>5, KeptElements, Zenon
<1> QED
  BY <1>1, <1>2, <1>7 DEF keep

\* An extension that the loader reports is accepted.
LEMMA Accepted ==
    ASSUME LibrariesInv, RequestInv
    PROVE  ReportedIsAccepted
<1> SUFFICES ASSUME NEW t \in Threads,
                    LET reported == ReportedFiles(request.environment, request.named)
                        hidden   == {f \in ToSet(reported) :
                             \E g \in ToSet(FindManifestFiles(Implicit, request.environment)) :
                                 f # g /\ f.name = g.name}
                    IN  /\ pc[t] = "chain"
                        /\ \A f \in Manifests : request.outcome[f] = "loaded"
                        /\ hidden = {} /\ IsInjective(request.extensions)
                        /\ ToSet(request.extensions)
                              \subseteq RuntimeExtensions \cup {DebugUtils} \cup ExtensionsOf(reported)
             PROVE  ChainSucceeds
  BY Zenon DEF ReportedIsAccepted
<1> DEFINE reported == ReportedFiles(request.environment, request.named)
           implicit == FindManifestFiles(Implicit, request.environment)
           explicit == FindManifestFiles(Explicit, request.environment)
<1>1. Complete
  BY DEF RequestInv
<1>2. /\ request.environment \in Environments /\ request.named \in Seq(STRING)
      /\ request.extensions \in Seq(STRING)
  BY <1>1 DEF Complete
<1>3. implicit \in Seq(Manifests) /\ explicit \in Seq(Manifests)
  BY <1>2, FoundElements
<1>4. ASSUME NEW f \in ToSet(reported) PROVE f \in ToSet(layers)
  <2>1. \/ f \in ToSet(implicit)
        \/ f \in ToSet(explicit) /\ f.name \in ToSet(request.named)
    BY <1>2, <1>4, ReportedElements
  <2>2. \A g \in ToSet(implicit) : f.name = g.name => f = g
    OBVIOUS
  <2> HIDE DEF implicit, explicit, reported
  <2>3. f \in Manifests
    BY <1>3, <2>1 DEF ToSet
  <2>4. request.outcome[f] = "loaded"
    BY <2>3
  <2>5. Chosen(f, request) # 0
    <3>1. /\ Times(f, implicit) # 0 <=> f \in ToSet(implicit)
          /\ Times(f, explicit) # 0 <=> f \in ToSet(explicit)
      BY <1>3, TimesMember
    <3>2. CASE f \in ToSet(implicit)
      <4>1. f.name \in NamesOf(implicit)
        BY <3>2 DEF NamesOf
      <4> QED  BY <3>1, <3>2, <4>1 DEF Chosen, implicit
    <3>3. CASE f \notin ToSet(implicit) /\ f \in ToSet(explicit) /\ f.name \in ToSet(request.named)
      <4>1. f.name \notin NamesOf(implicit)
        BY <2>2, <3>3 DEF NamesOf
      <4>2. f.name \in Asked(request)
        BY <3>3 DEF Asked
      <4> QED  BY <3>1, <3>3, <4>1, <4>2 DEF Chosen, implicit, explicit
    <3> QED  BY <2>1, <3>2, <3>3
  <2>6. Times(f, layers) # 0
    BY <1>1, <2>3, <2>4, <2>5 DEF Complete
  <2> QED  BY <2>6, TimesMember DEF LibrariesInv
<1>5. ExtensionsOf(reported) \subseteq ExtensionsOf(layers)
  <2> HIDE DEF reported
  <2> QED  BY <1>4 DEF ExtensionsOf
<1>6. ToSet(request.extensions) \subseteq RuntimeExtensions \cup {DebugUtils} \cup ExtensionsOf(layers)
  BY <1>5
<1>7. ToSet(AskedOfRuntime(request.extensions, layers)) \subseteq RuntimeExtensions
  BY <1>2, <1>6, AskedElements
<1> QED
  BY <1>6, <1>7 DEF ChainSucceeds, Supported

\* An extension that xrEnumerateInstanceExtensionProperties reports, of the runtime or of a
\* layer, is accepted by xrCreateInstance: the layer is loaded for the same environment, and
\* neither loader nor layers pass on what the runtime does not know.
THEOREM ReportedExtensionsAreAccepted == Spec => []ReportedIsAccepted
<1> QED
  BY LibrariesAreClosed, Accepted, PTL

-----------------------------------------------------------------------------
(* The types.                                                              *)

\* The Boolean variables.
FlagsInv == runtimeLoaded \in BOOLEAN /\ nullDeref \in BOOLEAN /\ layerFailed \in BOOLEAN

\* They stay Boolean.
LEMMA FlagsInvariant ==
    ASSUME FlagsInv, [Next]_vars
    PROVE  FlagsInv'
<1>1. layerFailed' \in BOOLEAN
  <2>1. layerFailed' = TRUE \/ layerFailed' = layerFailed
    BY Zenon DEF Next, vars
  <2> QED  BY <2>1, Zenon DEF FlagsInv
<1>2. ASSUME NEW t \in Threads, Create(t)
      PROVE  runtimeLoaded' \in BOOLEAN /\ nullDeref' \in BOOLEAN
  <2>1. CASE EnterCreate(t) \/ CreateRejected(t) \/ CreateLoadsRuntime(t) \/ CreateFails(t)
    BY <2>1, Zenon
       DEF EnterCreate, CreateRejected, CreateLoadsRuntime, CreateFails, LoadRuntime,
           runtimeVars, FlagsInv
  <2>2. CASE LoadApiLayers(t) \/ ChainFails(t) \/ SetActive(t) \/ CleanUp(t)
    BY <2>2, Zenon
       DEF LoadApiLayers, ChainFails, SetActive, CleanUp, UnloadRuntime, runtimeVars, FlagsInv
  <2>3. CASE \E i \in Instances : TermCreateInstance(t, i)
    BY <2>3, Zenon DEF TermCreateInstance, FlagsInv
  <2>4. CASE \E m \in Messengers : CreateDefaultMessenger(t, m)
    BY <2>4, Zenon DEF CreateDefaultMessenger, Dispatch, FlagsInv
  <2>5. CASE DefaultMessengerFails(t)
    BY <2>5, Zenon DEF DefaultMessengerFails, Dispatch, runtimeVars, FlagsInv
  <2> QED  BY <1>2, <2>1, <2>2, <2>3, <2>4, <2>5, Zenon DEF Create
<1>3. ASSUME NEW t \in Threads, Destroy(t)
      PROVE  runtimeLoaded' \in BOOLEAN /\ nullDeref' \in BOOLEAN
  <2>1. CASE EnterDestroy(t) \/ DestroyDefaultMessenger(t)
    BY <2>1, Zenon DEF EnterDestroy, DestroyDefaultMessenger, Dispatch, runtimeVars, FlagsInv
  <2>2. CASE TermDestroyInstance(t) \/ FinishDestroy(t)
    BY <2>2, Zenon DEF TermDestroyInstance, FinishDestroy, UnloadRuntime, runtimeVars, FlagsInv
  <2> QED  BY <1>3, <2>1, <2>2, Zenon DEF Destroy
<1>4. ASSUME NEW t \in Threads, LayerFailure(t) \/ Enumerate(t)
      PROVE  runtimeLoaded' \in BOOLEAN /\ nullDeref' \in BOOLEAN
  <2>1. CASE LayerFailure(t)
    BY <2>1, Zenon DEF LayerFailure, LayerFails, LayerFailsDestroy, runtimeVars, FlagsInv
  <2>2. CASE Enumerate(t)
    BY <2>2, Zenon
       DEF Enumerate, EnterEnumerate, EnumerateLoadsRuntime, EnumerateWithoutRuntime,
           EnumerateProperties, LoadRuntime, runtimeVars, FlagsInv
  <2> QED  BY <1>4, <2>1, <2>2
<1>5. ASSUME NEW t \in Threads, Messenger(t)
      PROVE  runtimeLoaded' \in BOOLEAN /\ nullDeref' \in BOOLEAN
  <2>1. CASE \E m \in Messengers : CreateMessenger(t, m) \/ DestroyMessenger(t, m)
    BY <2>1, Zenon DEF CreateMessenger, DestroyMessenger, Dispatch, runtimeVars, FlagsInv
  <2>2. CASE AddLogRecorder(t) \/ TrackDebugMessenger(t) \/ RemoveLogRecorder(t)
    BY <2>2, Zenon
       DEF AddLogRecorder, TrackDebugMessenger, RemoveLogRecorder, runtimeVars, FlagsInv
  <2>3. CASE ForgetDebugMessenger(t) \/ ReleaseMessenger(t)
    BY <2>3, Zenon DEF ForgetDebugMessenger, ReleaseMessenger, runtimeVars, FlagsInv
  <2> QED  BY <1>5, <2>1, <2>2, <2>3, Zenon DEF Messenger
<1>6. CASE UNCHANGED vars
  BY <1>1, <1>6, Zenon DEF vars, FlagsInv
<1> QED
  BY <1>1, <1>2, <1>3, <1>4, <1>5, <1>6, Zenon DEF Next, FlagsInv

\* The variables have their types: so do the chain of layers and the counts of open
\* libraries, whatever manifest files there are.
THEOREM TypeCorrect == Spec => []TypeOK
<1>1. Init => FlagsInv
  BY Zenon DEF Init, FlagsInv
<1>2. FlagsInv /\ [Next]_vars => FlagsInv'
  BY FlagsInvariant
<1>3. IInv /\ LibrariesInv /\ RequestInv /\ FlagsInv => TypeOK
  <2> SUFFICES ASSUME IInv, LibrariesInv, RequestInv, FlagsInv PROVE TypeOK
    OBVIOUS
  <2>1. pc \in [Threads -> {"idle", "create", "layers", "chain", "unwind", "messenger", "failed",
                            "destroy", "destroyed", "enumerate", "properties",
                            "addRecorder", "track", "removeRecorder", "forget", "release"}]
    BY DEF IInv, TypeInv, Holding, Using
  <2> QED
    BY <2>1, Zenon DEF IInv, TypeInv, LibrariesInv, RequestInv, FlagsInv, TypeOK
<1> QED
  BY <1>1, <1>2, <1>3, Invariant, LibrariesAreClosed, PTL DEF Spec


-----------------------------------------------------------------------------
(* The names and labels of the application in messages: DebugLabels.        *)

\* The lists the loader keeps: no label but the last is an individual one.
LabelRecords == [name : Labels, isIndividual : BOOLEAN]
LabelLists ==
    {list \in Seq(LabelRecords) :
        \A i \in 1..Len(list) : i < Len(list) => ~list[i].isIndividual}

\* Regions and individual label of a list, and how many regions it has.
RegionsOf(list) == [i \in {n \in DOMAIN list : ~list[n].isIndividual} |-> list[i].name]
HasIndividual(list) == list # <<>> /\ Last(list).isIndividual
IndividualOf(list) == IF HasIndividual(list) THEN Last(list).name ELSE None
Depth(list) == IF HasIndividual(list) THEN Len(list) - 1 ELSE Len(list)

\* The regions come first.
LEMMA RegionsFirst ==
    ASSUME NEW list \in LabelLists
    PROVE  /\ Depth(list) \in Nat /\ Depth(list) <= Len(list)
           /\ RegionsOf(list) = [i \in 1..Depth(list) |-> list[i].name]
           /\ RegionsOf(list) \in Seq(Labels) /\ Len(RegionsOf(list)) = Depth(list)
           /\ \A i \in 1..Depth(list) : list[i] \in LabelRecords /\ ~list[i].isIndividual
<1>1. list \in Seq(LabelRecords) /\ Len(list) \in Nat /\ DOMAIN list = 1..Len(list)
      /\ \A i \in 1..Len(list) : list[i] \in LabelRecords
  BY DEF LabelLists
<1>2. \A i \in 1..Len(list) : i < Len(list) => ~list[i].isIndividual
  BY DEF LabelLists
<1>3. list # <<>> <=> Len(list) # 0
  BY <1>1
<1>4. Depth(list) \in Nat /\ Depth(list) <= Len(list)
  BY <1>1, <1>3 DEF Depth, HasIndividual
<1>5. {n \in DOMAIN list : ~list[n].isIndividual} = 1..Depth(list)
  <2>1. CASE HasIndividual(list)
    <3>1. list[Len(list)].isIndividual /\ Len(list) # 0
      BY <1>3, <2>1 DEF HasIndividual, Last
    <3> QED  BY <1>1, <1>2, <2>1, <3>1 DEF Depth
  <2>2. CASE ~HasIndividual(list)
    <3>1. Len(list) # 0 => ~list[Len(list)].isIndividual
      BY <1>3, <2>2 DEF HasIndividual, Last
    <3> QED  BY <1>1, <1>2, <2>2, <3>1 DEF Depth
  <2> QED  BY <2>1, <2>2
<1>6. RegionsOf(list) = [i \in 1..Depth(list) |-> list[i].name]
  BY <1>5, Zenon DEF RegionsOf
<1>7. \A i \in 1..Depth(list) : list[i] \in LabelRecords /\ ~list[i].isIndividual
  BY <1>1, <1>5
<1>8. \A i \in 1..Depth(list) : list[i].name \in Labels
  BY <1>7 DEF LabelRecords
<1> QED  BY <1>4, <1>6, <1>7, <1>8

\* The first elements of a sequence.
LEMMA FirstOf ==
    ASSUME NEW S, NEW s \in Seq(S), NEW k \in 0..Len(s), NEW r, r = SubSeq(s, 1, k)
    PROVE  r \in Seq(S) /\ Len(r) = k /\ \A i \in 1..k : r[i] = s[i]
<1>1. \A i \in 1..k : s[i] \in S
  OBVIOUS
<1>2. SubSeq(s, 1, k) \in Seq(S)
  BY <1>1, SubSeqProperties
<1>3. Len(SubSeq(s, 1, k)) = k /\ \A i \in 1..k : SubSeq(s, 1, k)[i] = s[i]
  OBVIOUS
<1> QED  BY <1>2, <1>3

\* What remains without the individual label: the regions.
LEMMA RemovedLabel ==
    ASSUME NEW list \in LabelLists, NEW r, r = RemoveIndividualLabel(list)
    PROVE  /\ r \in Seq(LabelRecords) /\ Len(r) = Depth(list) /\ Depth(list) \in Nat
           /\ \A i \in 1..Len(r) : r[i] = list[i] /\ ~r[i].isIndividual
<1>1. list \in Seq(LabelRecords) /\ Len(list) \in Nat
  BY DEF LabelLists
<1>2. CASE HasIndividual(list)
  <2>1. r = SubSeq(list, 1, Depth(list))
    BY <1>2 DEF RemoveIndividualLabel, HasIndividual, Front, Depth
  <2>2. Depth(list) \in 0..Len(list)
    BY <1>1, RegionsFirst
  <2>3. r \in Seq(LabelRecords) /\ Len(r) = Depth(list) /\ \A i \in 1..Depth(list) : r[i] = list[i]
    BY <1>1, <2>1, <2>2, FirstOf
  <2> QED  BY <2>3, RegionsFirst
<1>3. CASE ~HasIndividual(list)
  <2>1. r = list /\ Depth(list) = Len(list)
    BY <1>3 DEF RemoveIndividualLabel, HasIndividual, Depth
  <2> QED  BY <1>1, <2>1, RegionsFirst
<1> QED  BY <1>2, <1>3

\* The regions with one more.
Opened(list, l) == Append(RegionsOf(list), l)

\* A label after the regions, with what the list is then.
LEMMA StoredLabel ==
    ASSUME NEW list \in LabelLists, NEW l \in Labels, NEW b \in BOOLEAN, NEW n,
           n = Append(RemoveIndividualLabel(list), Label(l, b))
    PROVE  /\ n \in LabelLists
           /\ b = TRUE => RegionsOf(n) = RegionsOf(list) /\ IndividualOf(n) = l
           /\ b = FALSE => RegionsOf(n) = Opened(list, l) /\ IndividualOf(n) = None
<1>1. PICK r : r = RemoveIndividualLabel(list)
  OBVIOUS
<1>2. /\ r \in Seq(LabelRecords) /\ Len(r) = Depth(list) /\ Depth(list) \in Nat
      /\ \A i \in 1..Len(r) : r[i] = list[i] /\ ~r[i].isIndividual
  BY <1>1, RemovedLabel
<1>3. PICK x \in LabelRecords : x = Label(l, b) /\ x.name = l /\ x.isIndividual = b
  BY DEF Label, LabelRecords
<1>4. n = Append(r, x)
  BY <1>1, <1>3
<1>5. /\ n \in Seq(LabelRecords) /\ Len(n) = Depth(list) + 1 /\ n[Len(n)] = x
      /\ \A i \in 1..Depth(list) : n[i] = list[i] /\ ~n[i].isIndividual
  <2>1. /\ n \in Seq(LabelRecords) /\ Len(n) = Len(r) + 1 /\ n[Len(r) + 1] = x
        /\ \A i \in 1..Len(r) : n[i] = r[i]
    BY <1>2, <1>4, AppendProperties
  <2> QED  BY <1>2, <2>1
<1>6. n \in LabelLists
  <2>1. \A i \in 1..Len(n) : i < Len(n) => i \in 1..Depth(list)
    BY <1>2, <1>5
  <2>2. \A i \in 1..Len(n) : i < Len(n) => ~n[i].isIndividual
    BY <1>5, <2>1
  <2> QED  BY <1>5, <2>2 DEF LabelLists
<1>7. HasIndividual(n) <=> b
  BY <1>2, <1>3, <1>5 DEF HasIndividual, Last
<1>8. (b => IndividualOf(n) = l) /\ (~b => IndividualOf(n) = None)
  BY <1>3, <1>5, <1>7 DEF IndividualOf, Last
<1>9. RegionsOf(n) = [i \in 1..Depth(n) |-> n[i].name] /\ RegionsOf(list) = [i \in 1..Depth(list) |-> list[i].name]
      /\ RegionsOf(list) \in Seq(Labels) /\ Len(RegionsOf(list)) = Depth(list)
  BY <1>6, RegionsFirst
<1>10. CASE b
  <2>1. Depth(n) = Depth(list)
    BY <1>2, <1>5, <1>7, <1>10 DEF Depth
  <2>2. RegionsOf(n) = RegionsOf(list)
    BY <1>5, <1>9, <2>1
  <2> QED  BY <1>6, <1>8, <1>10, <2>2
<1>11. CASE ~b
  <2>1. Depth(n) = Depth(list) + 1
    BY <1>5, <1>7, <1>11 DEF Depth
  <2>2. Append(RegionsOf(list), l) = [i \in 1..(Depth(list) + 1) |-> IF i = Depth(list) + 1 THEN l ELSE RegionsOf(list)[i]]
    BY <1>2, <1>9
  <2>3. \A i \in 1..(Depth(list) + 1) : n[i].name = IF i = Depth(list) + 1 THEN l ELSE RegionsOf(list)[i]
    BY <1>2, <1>3, <1>5, <1>9
  <2>4. RegionsOf(n) = Opened(list, l)
    BY <1>9, <2>1, <2>2, <2>3 DEF Opened
  <2> QED  BY <1>6, <1>8, <1>11, <2>4
<1> QED  BY <1>10, <1>11

\* The list after the end of a region, if there is one.
LEMMA EndedRegion ==
    ASSUME NEW list \in LabelLists, NEW r, r = RemoveIndividualLabel(list), NEW n,
           n = IF r = <<>> THEN r ELSE Front(r)
    PROVE  /\ n \in LabelLists /\ IndividualOf(n) = None
           /\ RegionsOf(n) = SubSeq(RegionsOf(list), 1, Len(RegionsOf(list)) - 1)
<1>1. /\ r \in Seq(LabelRecords) /\ Len(r) = Depth(list) /\ Depth(list) \in Nat
      /\ \A i \in 1..Len(r) : r[i] = list[i] /\ ~r[i].isIndividual
  BY RemovedLabel
<1>2. /\ n \in Seq(LabelRecords) /\ Len(n) = IF Depth(list) = 0 THEN 0 ELSE Depth(list) - 1
      /\ \A i \in 1..Len(n) : n[i] = list[i] /\ ~n[i].isIndividual
  <2>1. CASE r = <<>>
    BY <1>1, <2>1
  <2>2. CASE r # <<>>
    <3>1. n = SubSeq(r, 1, Len(r) - 1) /\ Len(r) # 0
      BY <1>1, <2>2 DEF Front
    <3> QED  BY <1>1, <3>1
  <2> QED  BY <2>1, <2>2
<1>3. n \in LabelLists /\ ~HasIndividual(n)
  BY <1>1, <1>2 DEF LabelLists, HasIndividual, Last
<1>4. IndividualOf(n) = None /\ Depth(n) = Len(n)
  BY <1>3 DEF IndividualOf, Depth
<1>5. RegionsOf(n) = [i \in 1..Depth(n) |-> n[i].name] /\ RegionsOf(list) = [i \in 1..Depth(list) |-> list[i].name]
      /\ RegionsOf(list) \in Seq(Labels) /\ Len(RegionsOf(list)) = Depth(list)
  BY <1>3, RegionsFirst
<1>6. PICK s : s = SubSeq(RegionsOf(list), 1, Len(RegionsOf(list)) - 1)
  OBVIOUS
<1>7. s = [i \in 1..Len(n) |-> RegionsOf(list)[i]]
  BY <1>1, <1>2, <1>5, <1>6
<1>8. \A i \in 1..Len(n) : RegionsOf(list)[i] = n[i].name
  BY <1>1, <1>2, <1>5
<1>9. RegionsOf(n) = s
  BY <1>4, <1>5, <1>7, <1>8
<1> QED  BY <1>3, <1>4, <1>6, <1>9

\* Each session has such a list, and the framework's messenger is created in one way.
LabelsInv ==
    /\ sessionLabels \in [Sessions -> LabelLists]
    /\ createInfo \in [DebugMessengers \cup {Framework} -> CreateInfos \cup {MessengerCreateInfo, None}]
    /\ createInfo[Framework] \in {None, MessengerCreateInfo}

\* The steps, as far as labels are concerned.
LEMMA LabelSteps ==
    ASSUME [LabelsNext]_labelVars
    PROVE  \/ \E s \in Sessions : EndLabelRegion(s)
           \/ \E s \in Sessions, l \in Labels, b \in BOOLEAN : Store(s, l, b)
           \/ UNCHANGED sessionLabels
<1>1. CASE \E s \in Sessions : EndLabelRegion(s) \/ \E l \in Labels : BeginLabelRegion(s, l) \/ InsertLabel(s, l)
  BY <1>1, Zenon DEF BeginLabelRegion, InsertLabel
<1>2. ASSUME NEW o, NEW name, AddObjectName(o, name) PROVE UNCHANGED sessionLabels
  BY <1>2 DEF AddObjectName
<1>3. ASSUME NEW m, NEW info, AddRecorder(m, info) \/ RemoveRecorder(m) PROVE UNCHANGED sessionLabels
  BY <1>3 DEF AddRecorder, RemoveRecorder
<1>4. ASSUME NEW severity, NEW objects, NEW types,
             RuntimeFailure(severity) \/ SubmitMessage(objects, severity, types) \/ LogMessage(objects, severity, types)
      PROVE  UNCHANGED sessionLabels
  BY <1>4, Zenon DEF RuntimeFailure, SubmitMessage, LogMessage, Send
<1>5. CASE UNCHANGED labelVars
  BY <1>5 DEF labelVars
<1> QED  BY <1>1, <1>2, <1>3, <1>4, <1>5, Zenon DEF LabelsNext

\* What a step does with the messengers.
LEMMA RecorderSteps ==
    ASSUME [LabelsNext]_labelVars
    PROVE  \/ \E m \in DebugMessengers, info \in CreateInfos : createInfo' = [createInfo EXCEPT ![m] = info]
           \/ createInfo' = [createInfo EXCEPT ![Framework] = MessengerCreateInfo]
           \/ \E m \in DebugMessengers \cup {Framework} : createInfo' = [createInfo EXCEPT ![m] = None]
           \/ UNCHANGED createInfo
<1>1. ASSUME NEW s, NEW l, EndLabelRegion(s) \/ BeginLabelRegion(s, l) \/ InsertLabel(s, l)
      PROVE  UNCHANGED createInfo
  BY <1>1 DEF EndLabelRegion, BeginLabelRegion, InsertLabel, Store
<1>2. ASSUME NEW o, NEW name, AddObjectName(o, name) PROVE UNCHANGED createInfo
  BY <1>2 DEF AddObjectName
<1>3. \A m, info : AddRecorder(m, info) => createInfo' = [createInfo EXCEPT ![m] = info]
  BY Zenon DEF AddRecorder
<1>4. \A m : RemoveRecorder(m) => createInfo' = [createInfo EXCEPT ![m] = None]
  BY Zenon DEF RemoveRecorder
<1>5. ASSUME NEW severity, NEW objects, NEW types,
             RuntimeFailure(severity) \/ SubmitMessage(objects, severity, types) \/ LogMessage(objects, severity, types)
      PROVE  UNCHANGED createInfo
  BY <1>5, Zenon DEF RuntimeFailure, SubmitMessage, LogMessage, Send
<1>6. CASE UNCHANGED labelVars
  BY <1>6 DEF labelVars
<1> QED  BY <1>1, <1>2, <1>3, <1>4, <1>5, <1>6, Zenon DEF LabelsNext

\* In the beginning there are no labels and no messengers.
LEMMA LabelsStart ==
    ASSUME LabelsInit
    PROVE  LabelsInv /\ \A s \in Sessions : sessionLabels[s] = <<>>
<1>1. <<>> \in LabelLists
  BY DEF LabelLists
<1>2. sessionLabels \in [Sessions -> LabelLists] /\ \A s \in Sessions : sessionLabels[s] = <<>>
  BY <1>1 DEF LabelsInit
<1>3. createInfo = [m \in DebugMessengers \cup {Framework} |-> None]
  BY DEF LabelsInit
<1> QED  BY <1>2, <1>3 DEF LabelsInv

\* Every step keeps the lists and the messengers.
LEMMA LabelsKept ==
    ASSUME LabelsInv, [LabelsNext]_labelVars
    PROVE  LabelsInv'
<1>1. sessionLabels' \in [Sessions -> LabelLists]
  <2>1. CASE \E s \in Sessions : EndLabelRegion(s)
    <3>1. PICK s \in Sessions, list \in LabelLists :
             list = sessionLabels[s] /\ EndLabelRegion(s)
      BY <2>1 DEF LabelsInv
    <3>2. PICK n : /\ n = IF RemoveIndividualLabel(list) = <<>> THEN RemoveIndividualLabel(list)
                          ELSE Front(RemoveIndividualLabel(list))
                   /\ sessionLabels' = [sessionLabels EXCEPT ![s] = n]
      BY <3>1, Zenon DEF EndLabelRegion
    <3>3. n \in LabelLists
      BY <3>2, EndedRegion
    <3> QED  BY <3>2, <3>3 DEF LabelsInv
  <2>2. CASE \E s \in Sessions, l \in Labels, b \in BOOLEAN : Store(s, l, b)
    <3>1. PICK s \in Sessions, l \in Labels, b \in BOOLEAN, list \in LabelLists :
             list = sessionLabels[s] /\ Store(s, l, b)
      BY <2>2 DEF LabelsInv
    <3>2. PICK n : n = Append(RemoveIndividualLabel(list), Label(l, b))
                   /\ sessionLabels' = [sessionLabels EXCEPT ![s] = n]
      BY <3>1, Zenon DEF Store
    <3>3. n \in LabelLists
      BY <3>2, StoredLabel
    <3> QED  BY <3>2, <3>3 DEF LabelsInv
  <2> QED  BY <2>1, <2>2, LabelSteps DEF LabelsInv
<1>2. Framework \notin DebugMessengers
  BY LabelsAssumption
<1> QED  BY <1>1, <1>2, RecorderSteps DEF LabelsInv

\* Regions and individual label of a session are those of its list.
LEMMA OfSessions ==
    /\ \A s : Regions(s) = RegionsOf(sessionLabels[s]) /\ Individual(s) = IndividualOf(sessionLabels[s])
    /\ \A s : Regions(s)' = RegionsOf(sessionLabels'[s]) /\ Individual(s)' = IndividualOf(sessionLabels'[s])
<1>1. \A s : Regions(s) = RegionsOf(sessionLabels[s]) /\ Regions(s)' = RegionsOf(sessionLabels'[s])
  BY Zenon DEF Regions, RegionsOf
<1>2. \A s : /\ Individual(s) = IndividualOf(sessionLabels[s])
             /\ Individual(s)' = IndividualOf(sessionLabels'[s])
  BY Zenon DEF Individual, IndividualOf, HasIndividual
<1> QED  BY <1>1, <1>2

\* The regions and labels of all sessions, which are the variables of SessionLabels.
AllRegions == [s \in Sessions |-> Regions(s)]
AllIndividual == [s \in Sessions |-> Individual(s)]

\* A change of the list of one session.
LEMMA OneList ==
    ASSUME NEW s \in Sessions, NEW n, sessionLabels' = [sessionLabels EXCEPT ![s] = n],
           sessionLabels \in [Sessions -> LabelLists]
    PROVE  /\ AllRegions' = [AllRegions EXCEPT ![s] = RegionsOf(n)]
           /\ AllIndividual' = [AllIndividual EXCEPT ![s] = IndividualOf(n)]
<1>1. sessionLabels'[s] = n /\ \A t \in Sessions \ {s} : sessionLabels'[t] = sessionLabels[t]
  OBVIOUS
<1>2. /\ \A t \in Sessions : Regions(t)' = IF t = s THEN RegionsOf(n) ELSE Regions(t)
      /\ \A t \in Sessions : Individual(t)' = IF t = s THEN IndividualOf(n) ELSE Individual(t)
  BY <1>1, OfSessions
<1>3. /\ AllRegions' = [t \in Sessions |-> Regions(t)']
      /\ AllIndividual' = [t \in Sessions |-> Individual(t)']
  BY DEF AllRegions, AllIndividual
<1> QED  BY <1>2, <1>3 DEF AllRegions, AllIndividual

\* A step of the loader is one of SessionLabels for the session of its list.
LEMMA LabelsRefine ==
    ASSUME LabelsInv, [LabelsNext]_labelVars
    PROVE  [AbstractLabels!Next]_<<AllRegions, AllIndividual>>
<1>1. CASE \E s \in Sessions : EndLabelRegion(s)
  <2>1. PICK s \in Sessions, list \in LabelLists :
           list = sessionLabels[s] /\ EndLabelRegion(s)
    BY <1>1 DEF LabelsInv
  <2>2. PICK n : /\ n = IF RemoveIndividualLabel(list) = <<>> THEN RemoveIndividualLabel(list)
                        ELSE Front(RemoveIndividualLabel(list))
                 /\ sessionLabels' = [sessionLabels EXCEPT ![s] = n]
    BY <2>1, Zenon DEF EndLabelRegion
  <2>3. /\ IndividualOf(n) = None
        /\ RegionsOf(n) = SubSeq(RegionsOf(list), 1, Len(RegionsOf(list)) - 1)
    BY <2>2, EndedRegion
  <2>4. AllRegions[s] = RegionsOf(list)
    BY <2>1, OfSessions DEF AllRegions
  <2>5. /\ AllRegions' = [AllRegions EXCEPT ![s] = RegionsOf(n)]
        /\ AllIndividual' = [AllIndividual EXCEPT ![s] = None]
    BY <2>2, <2>3, OneList DEF LabelsInv
  <2>6. AbstractLabels!End(s)
    BY <2>3, <2>4, <2>5, Zenon DEF AbstractLabels!End, AllRegions, AllIndividual
  <2> QED  BY <2>6, Zenon DEF AbstractLabels!Next
<1>2. CASE \E s \in Sessions, l \in Labels, b \in BOOLEAN : Store(s, l, b)
  <2>1. PICK s \in Sessions, l \in Labels, b \in BOOLEAN, list \in LabelLists :
           list = sessionLabels[s] /\ Store(s, l, b)
    BY <1>2 DEF LabelsInv
  <2>2. PICK n : n = Append(RemoveIndividualLabel(list), Label(l, b))
                 /\ sessionLabels' = [sessionLabels EXCEPT ![s] = n]
    BY <2>1, Zenon DEF Store
  <2>3. /\ b = TRUE => RegionsOf(n) = RegionsOf(list) /\ IndividualOf(n) = l
        /\ b = FALSE => RegionsOf(n) = Opened(list, l) /\ IndividualOf(n) = None
    BY <2>2, StoredLabel
  <2>4. AllRegions[s] = RegionsOf(list) /\ AllRegions = [AllRegions EXCEPT ![s] = AllRegions[s]]
    BY <2>1, OfSessions DEF AllRegions
  <2>5. /\ AllRegions' = [AllRegions EXCEPT ![s] = RegionsOf(n)]
        /\ AllIndividual' = [AllIndividual EXCEPT ![s] = IndividualOf(n)]
    BY <2>2, OneList DEF LabelsInv
  <2>6. CASE b = TRUE
    <3>1. AbstractLabels!Insert(s, l)
      BY <2>3, <2>4, <2>5, <2>6, Zenon DEF AbstractLabels!Insert, AllRegions, AllIndividual
    <3> QED  BY <3>1, Zenon DEF AbstractLabels!Next
  <2>7. CASE b = FALSE
    <3>1. AbstractLabels!Begin(s, l)
      BY <2>3, <2>4, <2>5, <2>7, Zenon DEF Opened, AbstractLabels!Begin, AllRegions, AllIndividual
    <3> QED  BY <3>1, Zenon DEF AbstractLabels!Next
  <2> QED  BY <2>6, <2>7
<1>3. CASE UNCHANGED sessionLabels
  <2>1. \A s : Regions(s)' = Regions(s) /\ Individual(s)' = Individual(s)
    BY <1>3, OfSessions, Zenon
  <2>2. UNCHANGED <<AllRegions, AllIndividual>>
    BY <2>1, Zenon DEF AllRegions, AllIndividual
  <2> QED  BY <2>2
<1> QED  BY <1>1, <1>2, <1>3, LabelSteps

\* No session has a region or label in the beginning.
LEMMA LabelsRefineInit ==
    ASSUME LabelsInit
    PROVE  AbstractLabels!Init
<1>1. \A s \in Sessions : sessionLabels[s] = <<>>
  BY LabelsStart
<1>2. RegionsOf(<<>>) = <<>> /\ IndividualOf(<<>>) = None
  BY DEF RegionsOf, IndividualOf, HasIndividual
<1>3. \A s \in Sessions : Regions(s) = <<>> /\ Individual(s) = None
  BY <1>1, <1>2, OfSessions
<1> QED  BY <1>3 DEF AbstractLabels!Init

\* The invariant of the labels.
LEMMA LabelsHold == LabelsSpec => []LabelsInv
<1>1. LabelsInit => LabelsInv
  BY LabelsStart
<1>2. LabelsInv /\ [LabelsNext]_labelVars => LabelsInv'
  BY LabelsKept
<1> QED  BY <1>1, <1>2, PTL DEF LabelsSpec

\* The one list of a session keeps its nested regions and its individual label
\* (object_info.cpp).
THEOREM LabelsImplemented == LabelsSpec => ImplementsLabels
<1>1. LabelsInit => AbstractLabels!Init
  BY LabelsRefineInit
<1>2. LabelsInv /\ [LabelsNext]_labelVars
        => [AbstractLabels!Next]_<<[s \in Sessions |-> Regions(s)], [s \in Sessions |-> Individual(s)]>>
  BY LabelsRefine DEF AllRegions, AllIndividual
<1> QED  BY <1>1, <1>2, LabelsHold, PTL DEF LabelsSpec, ImplementsLabels, AbstractLabels!Spec

\* The labels of a session are its individual label and its regions, newest first.
LEMMA LookedUp ==
    ASSUME NEW s \in Sessions, sessionLabels[s] \in LabelLists
    PROVE  LookUpSessionLabels(s) = ExpectedLabels(s) /\ LookUpSessionLabels(s) \in Seq(Labels)
<1> DEFINE list == sessionLabels[s]
           back == Reverse(list)
           regions == RegionsOf(list)
           newest == IF Individual(s) = None THEN <<>> ELSE <<Individual(s)>>
<1>1. list \in Seq(LabelRecords) /\ Len(list) \in Nat /\ \A i \in 1..Len(list) : list[i].name \in Labels
  <2>1. list \in Seq(LabelRecords) /\ Len(list) \in Nat /\ \A i \in 1..Len(list) : list[i] \in LabelRecords
    BY DEF LabelLists
  <2> QED  BY <2>1 DEF LabelRecords
<1>2. /\ Depth(list) \in Nat /\ Depth(list) <= Len(list)
      /\ regions = [i \in 1..Depth(list) |-> list[i].name]
      /\ regions \in Seq(Labels) /\ Len(regions) = Depth(list)
  BY RegionsFirst
<1>3. Regions(s) = regions /\ Individual(s) = IndividualOf(list)
  BY OfSessions
<1>4. LookUpSessionLabels(s) = [i \in 1..Len(list) |-> list[Len(list) - i + 1].name]
  <2>1. back = [i \in 1..Len(list) |-> list[Len(list) - i + 1]]
    BY Zenon DEF Reverse
  <2>2. LookUpSessionLabels(s) = [i \in DOMAIN back |-> back[i].name]
    BY Zenon DEF LookUpSessionLabels
  <2> HIDE DEF list, back
  <2> QED  BY <2>1, <2>2
<1>5. Reverse(Regions(s)) = [i \in 1..Depth(list) |-> list[Depth(list) - i + 1].name]
  <2>1. Reverse(regions) = [i \in 1..Depth(list) |-> regions[Depth(list) - i + 1]]
    BY <1>2, Zenon DEF Reverse
  <2>2. \A i \in 1..Depth(list) : Depth(list) - i + 1 \in 1..Depth(list)
    BY <1>2
  <2> HIDE DEF list
  <2> QED  BY <1>2, <1>3, <2>1, <2>2
<1>6. ExpectedLabels(s) = newest \o Reverse(Regions(s))
  BY Zenon DEF ExpectedLabels
<1>7. list # <<>> <=> Len(list) # 0
  BY <1>1
<1>8. None \notin Labels
  BY LabelsAssumption
<1>9. CASE HasIndividual(list)
  <2>1. Depth(list) = Len(list) - 1 /\ Len(list) # 0 /\ Individual(s) = list[Len(list)].name
    BY <1>3, <1>7, <1>9 DEF Depth, HasIndividual, IndividualOf, Last
  <2>2. newest = <<list[Len(list)].name>>
    BY <1>1, <1>8, <2>1
  <2> HIDE DEF list, newest
  <2>3. newest \o Reverse(Regions(s)) = [i \in 1..Len(list) |-> list[Len(list) - i + 1].name]
    BY <1>1, <1>2, <1>5, <2>1, <2>2
  <2> QED  BY <1>1, <1>4, <1>6, <2>3
<1>10. CASE ~HasIndividual(list)
  <2>1. Depth(list) = Len(list) /\ newest = <<>>
    BY <1>3, <1>10 DEF Depth, IndividualOf
  <2> HIDE DEF list, newest
  <2>2. newest \o Reverse(Regions(s)) = [i \in 1..Len(list) |-> list[Len(list) - i + 1].name]
    BY <1>1, <1>2, <1>5, <2>1
  <2> QED  BY <1>1, <1>4, <1>6, <2>2
<1> QED  BY <1>9, <1>10

\* What LabelsOf computes, object by object.
LEMMA LabelsOfSteps ==
    ASSUME NEW objects, NEW n \in Nat, DOMAIN objects = 1..n
    PROVE  \E state :
              /\ LabelsOf(objects) = state[n]
              /\ state[0] = <<>>
              /\ \A i \in 1..n :
                    state[i] = IF objects[i] \in Sessions
                               THEN state[i-1] \o LookUpSessionLabels(objects[i]) ELSE state[i-1]
<1> DEFINE base == <<>>
           More(labels, o) == IF o \in Sessions THEN labels \o LookUpSessionLabels(o) ELSE labels
           Step(acc, i) == More(acc, objects[i])
           T == {k \in Nat : \E f : f = [s \in SUBSET (1..k) |->
                    IF s = {} THEN base ELSE Step(f[s \ {Max(s)}], Max(s))]}
           iter == CHOOSE f : f = [s \in SUBSET (1..n) |->
                    IF s = {} THEN base ELSE Step(f[s \ {Max(s)}], Max(s))]
           state == [i \in 0..n |-> iter[1..i]]
<1>1. LabelsOf(objects) = iter[1..n]
  <2>1. LabelsOf(objects) = FoldLeft(More, base, objects)
    BY Zenon DEF LabelsOf
  <2>2. FoldLeft(More, base, objects) = iter[1..n]
    BY Zenon DEF FoldLeft, MapThenFoldSet
  <2> QED  BY <2>1, <2>2, Zenon
<1> HIDE DEF Step, T, base
<1>2. Nat \subseteq T
  <2>1. 0 \in T
    <3>1. [s \in SUBSET (1..0) |-> base] = [s \in SUBSET (1..0) |->
             IF s = {} THEN base ELSE Step([r \in SUBSET (1..0) |-> base][s \ {Max(s)}], Max(s))]
      OBVIOUS
    <3> QED  BY <3>1, Zenon DEF T
  <2>2. ASSUME NEW k \in Nat, k \in T PROVE k + 1 \in T
    <3>1. PICK f : f = [s \in SUBSET (1..k) |->
                    IF s = {} THEN base ELSE Step(f[s \ {Max(s)}], Max(s))]
      BY <2>2 DEF T
    <3> DEFINE g == [s \in SUBSET (1..(k+1)) |->
                       IF k+1 \in s THEN Step(f[s \ {k+1}], k+1) ELSE f[s]]
    <3>2. \A s \in SUBSET (1..k) : s \in SUBSET (1..(k+1)) /\ g[s] = f[s]
      OBVIOUS
    <3>6. \A i \in 1..(k+1) : i # k+1 => i \in 1..k
      OBVIOUS
    <3>3. ASSUME NEW s \in SUBSET (1..(k+1))
          PROVE  g[s] = IF s = {} THEN base ELSE Step(g[s \ {Max(s)}], Max(s))
      <4>1. CASE k+1 \in s
        <5>0. Max(s) = k+1
          BY <4>1, LastIsMax
        <5>1. Max(s) = k+1 /\ s \ {Max(s)} \in SUBSET (1..k)
          BY <3>6, <5>0
        <5>2. g[s] = Step(f[s \ {k+1}], k+1)
          BY <4>1
        <5> HIDE DEF g
        <5> QED  BY <3>2, <4>1, <5>1, <5>2
      <4>2. CASE k+1 \notin s
        <5>1. s \in SUBSET (1..k) /\ s \ {Max(s)} \in SUBSET (1..k)
          BY <3>6, <4>2
        <5>2. f[s] = IF s = {} THEN base ELSE Step(f[s \ {Max(s)}], Max(s))
          BY <3>1, <5>1
        <5> HIDE DEF g
        <5> QED  BY <3>2, <5>1, <5>2
      <4> QED  BY <4>1, <4>2
    <3>4. g = [s \in SUBSET (1..(k+1)) |-> g[s]]
      OBVIOUS
    <3> HIDE DEF g
    <3>5. g = [s \in SUBSET (1..(k+1)) |->
                 IF s = {} THEN base ELSE Step(g[s \ {Max(s)}], Max(s))]
      BY <3>3, <3>4
    <3>7. k+1 \in Nat
      OBVIOUS
    <3> QED  BY <3>5, <3>7, Zenon DEF T
  <2> QED  BY <2>1, <2>2, Induction
<1>3. iter = [s \in SUBSET (1..n) |-> IF s = {} THEN base ELSE Step(iter[s \ {Max(s)}], Max(s))]
  BY <1>2, Zenon DEF T
<1> HIDE DEF iter
<1>4. state[0] = base /\ state[n] = iter[1..n]
  BY <1>3
<1>5. ASSUME NEW i \in 1..n
      PROVE  state[i] = Step(state[i-1], i)
  <2>1. 1..i \in SUBSET (1..n) /\ 1..i # {} /\ i \in 0..n /\ i-1 \in 0..n
    OBVIOUS
  <2>2. Max(1..i) = i
    BY LastIsMax
  <2>3. (1..i) \ {i} = 1..(i-1)
    OBVIOUS
  <2> QED  BY <1>3, <2>1, <2>2, <2>3
<1> HIDE DEF state
<1> QED  BY <1>1, <1>4, <1>5 DEF Step, base

\* The labels of a message are those of its objects, one object after the other.
LEMMA LabelsTold ==
    ASSUME LabelsInv, NEW n \in Nat, NEW objects \in [1..n -> Objects]
    PROVE  LabelsOf(objects) = Expected(objects) /\ LabelsOf(objects) \in Seq(Labels)
<1> DEFINE seqs == [i \in DOMAIN objects |-> ExpectedLabels(objects[i])]
<1>1. PICK state :
         /\ LabelsOf(objects) = state[n] /\ state[0] = <<>>
         /\ \A i \in 1..n : state[i] = IF objects[i] \in Sessions
                               THEN state[i-1] \o LookUpSessionLabels(objects[i]) ELSE state[i-1]
  <2>1. DOMAIN objects = 1..n
    OBVIOUS
  <2> QED  BY <2>1, LabelsOfSteps
<1>2. Expected(objects) = FlattenSeq(seqs)
  BY Zenon DEF Expected
<1>3. ASSUME NEW i \in 1..n
      PROVE  /\ seqs[i] \in Seq(Labels)
             /\ IF objects[i] \in Sessions THEN seqs[i] = LookUpSessionLabels(objects[i])
                                           ELSE seqs[i] = <<>>
  <2>1. seqs[i] = ExpectedLabels(objects[i])
    OBVIOUS
  <2>2. CASE objects[i] \in Sessions
    <3>1. sessionLabels[objects[i]] \in LabelLists
      BY <2>2 DEF LabelsInv
    <3> HIDE DEF seqs
    <3> QED  BY <2>1, <2>2, <3>1, LookedUp
  <2>3. CASE objects[i] \notin Sessions
    <3>1. ExpectedLabels(objects[i]) = <<>>
      BY <2>3, Zenon DEF ExpectedLabels
    <3> HIDE DEF seqs
    <3> QED  BY <2>1, <2>3, <3>1
  <2> QED  BY <2>2, <2>3
<1>4. DOMAIN seqs = 1..n /\ Len(seqs) = n
  OBVIOUS
<1>5. CASE n = 0
  <2>1. seqs = <<>>
    BY <1>5
  <2> HIDE DEF seqs
  <2>2. FlattenSeq(seqs) = seqs
    BY <1>4, <1>5, Zenon DEF FlattenSeq
  <2>3. LabelsOf(objects) = <<>>
    BY <1>1, <1>5
  <2> QED  BY <1>2, <2>1, <2>2, <2>3
<1>6. CASE n # 0
  <2> HIDE DEF seqs
  <2>1. PICK flatten :
           /\ FlattenSeq(seqs) = flatten[n]
           /\ flatten[1] = seqs[1]
           /\ \A i, j \in 1..n : i = j + 1 => flatten[i] = flatten[j] \o seqs[i]
    BY <1>4, <1>6, FlattenSteps
  <2> DEFINE T == {k \in Nat : k \in 1..n => state[k] = flatten[k] /\ state[k] \in Seq(Labels)}
  <2>2. 0 \in T
    OBVIOUS
  <2>3. ASSUME NEW k \in Nat, k \in T PROVE k + 1 \in T
    <3> SUFFICES ASSUME k + 1 \in 1..n
                 PROVE  state[k+1] = flatten[k+1] /\ state[k+1] \in Seq(Labels)
      OBVIOUS
    <3>1. PICK a : a = seqs[k+1]
      OBVIOUS
    <3>2. a \in Seq(Labels) /\ (objects[k+1] \in Sessions => a = LookUpSessionLabels(objects[k+1]))
          /\ (objects[k+1] \notin Sessions => a = <<>>)
      BY <1>3, <3>1
    <3>3. state[k+1] = IF objects[k+1] \in Sessions
                       THEN state[k] \o LookUpSessionLabels(objects[k+1]) ELSE state[k]
      <4>1. k + 1 - 1 = k
        OBVIOUS
      <4> QED  BY <1>1, <4>1
    <3>4. CASE k = 0
      <4>1. state[k] = <<>> /\ flatten[k+1] = a
        BY <1>1, <2>1, <3>1, <3>4
      <4> QED  BY <3>2, <3>3, <4>1
    <3>5. CASE k # 0
      <4>1. k \in 1..n
        BY <3>5
      <4>2. flatten[k+1] = flatten[k] \o a
        BY <2>1, <3>1, <4>1
      <4>3. state[k] = flatten[k] /\ state[k] \in Seq(Labels)
        BY <2>3, <4>1
      <4>4. state[k+1] = state[k] \o a
        <5>1. CASE objects[k+1] \in Sessions
          BY <3>2, <3>3, <5>1
        <5>2. CASE objects[k+1] \notin Sessions
          BY <3>2, <3>3, <4>3, <5>2
        <5> QED  BY <5>1, <5>2
      <4> QED  BY <3>2, <4>2, <4>3, <4>4
    <3> QED  BY <3>4, <3>5
  <2>4. n \in T
    BY <2>2, <2>3, Induction
  <2> QED  BY <1>1, <1>2, <1>6, <2>1, <2>4
<1> QED  BY <1>5, <1>6

\* A message and whom it reaches.
LEMMA SendGives ==
    ASSUME NEW m, NEW severity, NEW types, NEW reached, Send(m, severity, types, reached)
    PROVE  /\ message'.text = m /\ message'.severity = severity /\ message'.types = types
           /\ message'.to = reached
           /\ message'.failsTest = (Framework \in reached /\ severity = "error")
  BY DEF Send

\* What is less than a modulus remains.
LEMMA RestOfLess ==
    ASSUME NEW a \in Nat, NEW b \in Nat, a < b
    PROVE  a % b = a
  OBVIOUS

\* What is to be shown of a message.
MessageIsRight == TextIsRight /\ ReachIsRight /\ FailureIsRight

\* A message of the application, or of the conformance layer.
LEMMA SubmitIsRight ==
    ASSUME LabelsInv, NEW n \in Nat, NEW objects \in [1..n -> Objects], NEW severity \in Severities,
           NEW types, types \subseteq Types, types # {}, SubmitMessage(objects, severity, types)
    PROVE  MessageIsRight
<1> DEFINE text == WrapCallbackData(objects)
           reached == {m \in Recorders :
                            /\ severity \in Recorder(m).severities
                            /\ LoaderLogMessageTypes(types) \subseteq Recorder(m).types}
<1>1. Send(text, severity, types, reached)
  BY Zenon DEF SubmitMessage
<1> HIDE DEF text, reached
<1>2. /\ message'.text = text /\ message'.severity = severity /\ message'.types = types
      /\ message'.to = reached
      /\ message'.failsTest = (Framework \in reached /\ severity = "error")
  BY <1>1, SendGives
<1>3. TextIsRight
  <2>1. /\ text.from = "application" /\ text.objects = objects /\ text.names = ObjectNames(objects)
        /\ text.labels = IF \A o \in Objects : objectInfo[o] = None THEN <<>> ELSE LabelsOf(objects)
    BY DEF text, WrapCallbackData
  <2>2. LabelsOf(objects) = Expected(objects)
    BY LabelsTold
  <2>3. ObjectNames(objects) = [i \in DOMAIN objects |-> objectInfo[objects[i]]]
    BY Zenon DEF ObjectNames
  <2> QED  BY <1>2, <2>1, <2>2, <2>3, Zenon DEF TextIsRight
<1>4. \A m \in Recorders :
         m \in reached <=> /\ severity \in createInfo[m].severities
                             /\ types \ {"conformance"} \subseteq createInfo[m].types \ {"conformance"}
  BY DEF reached, Recorder, DebugUtilsLogRecorder, LoaderLogMessageTypes
<1>5. reached \subseteq Recorders
  BY DEF reached
<1>6. ReachIsRight
  BY <1>2, <1>4, <1>5 DEF ReachIsRight
<1>7. FailureIsRight
  <2>1. Framework \in Recorders => createInfo[Framework] = MessengerCreateInfo
    BY DEF Recorders, LabelsInv
  <2>2. MessengerCreateInfo.severities = Severities /\ MessengerCreateInfo.types = {"conformance"}
    BY DEF MessengerCreateInfo
  <2>3. types \ {"conformance"} = {} <=> types = {"conformance"}
    OBVIOUS
  <2>4. Framework \in reached <=> Framework \in Recorders /\ types = {"conformance"}
    BY <1>4, <1>5, <2>1, <2>2, <2>3
  <2> QED  BY <1>2, <2>4 DEF FailureIsRight
<1> QED  BY <1>3, <1>6, <1>7 DEF MessageIsRight

\* A message of the loader.
LEMMA LogIsRight ==
    ASSUME LabelsInv, NEW n \in Nat, NEW objects \in [1..n -> Objects], NEW severity \in Severities,
           NEW type, type # "conformance", LogMessage(objects, severity, type)
    PROVE  MessageIsRight
<1> DEFINE text == PopulateNamesAndLabels(objects)
           reached == {m \in Recorders :
                            severity \in Recorder(m).severities /\ type \in Recorder(m).types}
<1>1. Send(text, severity, {type}, reached)
  BY Zenon DEF LogMessage
<1> HIDE DEF text, reached
<1>2. /\ message'.text = text /\ message'.severity = severity /\ message'.types = {type}
      /\ message'.to = reached
      /\ message'.failsTest = (Framework \in reached /\ severity = "error")
  BY <1>1, SendGives
<1>3. TextIsRight
  <2>1. PICK labels : labels = LabelsOf(objects)
    OBVIOUS
  <2>2. /\ text.from = "loader" /\ text.objects = objects /\ text.names = ObjectNames(objects)
        /\ text.labels = SubSeq(labels, 1, Len(labels) % CountWidth)
    BY <2>1 DEF text, PopulateNamesAndLabels
  <2>3. labels = Expected(objects) /\ labels \in Seq(Labels) /\ Len(labels) \in Nat
    BY <2>1, LabelsTold
  <2>4. CountWidth \in Nat
    BY LabelsAssumption
  <2>5. Len(labels) < CountWidth => text.labels = labels
    <3> SUFFICES ASSUME Len(labels) < CountWidth PROVE text.labels = labels
      OBVIOUS
    <3>1. Len(labels) % CountWidth = Len(labels)
      BY <2>3, <2>4, RestOfLess
    <3> QED  BY <2>2, <2>3, <3>1
  <2>6. Len(labels) < CountWidth \/ Len(labels) >= CountWidth
    BY <2>3, <2>4
  <2>7. ObjectNames(objects) = [i \in DOMAIN objects |-> objectInfo[objects[i]]]
    BY Zenon DEF ObjectNames
  <2> QED  BY <1>2, <2>2, <2>3, <2>5, <2>6, <2>7, Zenon DEF TextIsRight
<1>4. \A m \in Recorders :
         m \in reached <=> severity \in createInfo[m].severities /\ type \in createInfo[m].types
  BY DEF reached, Recorder, DebugUtilsLogRecorder, LoaderLogMessageTypes
<1>5. reached \subseteq Recorders
  BY DEF reached
<1>6. ReachIsRight
  BY <1>2, <1>4, <1>5 DEF ReachIsRight
<1>7. FailureIsRight
  <2>1. Framework \in Recorders => createInfo[Framework] = MessengerCreateInfo
    BY DEF Recorders, LabelsInv
  <2>2. MessengerCreateInfo.types = {"conformance"}
    BY DEF MessengerCreateInfo
  <2>3. Framework \notin reached
    BY <1>4, <1>5, <2>1, <2>2
  <2> QED  BY <1>2, <2>3 DEF FailureIsRight
<1> QED  BY <1>3, <1>6, <1>7 DEF MessageIsRight

\* Sequences of objects.
LEMMA SubjectsAre ==
    ASSUME NEW objects \in Subjects
    PROVE  \E n \in Nat : objects \in [1..n -> Objects]
<1>1. \E n \in 1..MaxObjects : objects \in [1..n -> Objects]
  BY Zenon DEF Subjects
<1>2. 1..MaxObjects \subseteq Nat
  BY LabelsAssumption
<1> QED  BY <1>1, <1>2, Zenon

\* Every message is as it should be.
LEMMA MessagesRight ==
    ASSUME LabelsInv, [LabelsNext]_labelVars, Sent
    PROVE  MessageIsRight
<1>1. message' # None /\ message' # message
  BY DEF Sent
<1>2. \A s, l : ~EndLabelRegion(s) /\ ~BeginLabelRegion(s, l) /\ ~InsertLabel(s, l)
  BY <1>1, Zenon DEF EndLabelRegion, BeginLabelRegion, InsertLabel, Store
<1>3. \A o, name : ~AddObjectName(o, name)
  BY <1>1, Zenon DEF AddObjectName
<1>4. \A m, info : ~AddRecorder(m, info) /\ ~RemoveRecorder(m)
  BY <1>1, Zenon DEF AddRecorder, RemoveRecorder
<1>5. ~UNCHANGED labelVars
  BY <1>1 DEF labelVars
<1>6. ASSUME NEW severity \in Severities, RuntimeFailure(severity)
      PROVE  MessageIsRight
  <2>1. SubmitMessage(<<>>, severity, {"conformance"})
    BY <1>6, Zenon DEF RuntimeFailure
  <2>4. PICK n \in Nat : n = 0
    OBVIOUS
  <2>2. PICK objects \in [1..n -> Objects] : objects = <<>>
    <3>1. <<>> \in [1..0 -> Objects]
      OBVIOUS
    <3> QED  BY <2>4, <3>1, Zenon
  <2>3. PICK types : types = {"conformance"} /\ types # {} /\ types \subseteq Types
    BY Zenon DEF Types
  <2> QED  BY <2>1, <2>2, <2>3, SubmitIsRight
<1>7. ASSUME NEW severity \in Severities, NEW objects \in Subjects,
             NEW types \in (SUBSET Types) \ {{}}, SubmitMessage(objects, severity, types)
      PROVE  MessageIsRight
  <2>1. PICK n \in Nat : objects \in [1..n -> Objects]
    BY SubjectsAre
  <2>2. types \subseteq Types /\ types # {}
    OBVIOUS
  <2> QED  BY <1>7, <2>1, <2>2, SubmitIsRight
<1>8. ASSUME NEW severity \in Severities, NEW objects \in Subjects,
             NEW type \in Types \ {"conformance"}, LogMessage(objects, severity, type)
      PROVE  MessageIsRight
  <2>1. PICK n \in Nat : objects \in [1..n -> Objects]
    BY SubjectsAre
  <2>2. type # "conformance"
    OBVIOUS
  <2> QED  BY <1>8, <2>1, <2>2, LogIsRight
<1>9. LabelsNext
  BY <1>5
<1> QED  BY <1>2, <1>3, <1>4, <1>6, <1>7, <1>8, <1>9, Zenon DEF LabelsNext

\* Names and labels in a message, whom it reaches and whether it fails the test
\* (loader_logger.cpp, object_info.cpp).
THEOREM MessagesAreExplained == LabelsSpec => MessagesExplained
<1>1. LabelsInv /\ [LabelsNext]_labelVars => (Sent => TextIsRight) /\ (Sent => ReachIsRight) /\ (Sent => FailureIsRight)
  BY MessagesRight DEF MessageIsRight
<1>2. LabelsInv /\ [LabelsNext]_labelVars => [Sent => TextIsRight]_labelVars
  BY <1>1
<1>3. LabelsInv /\ [LabelsNext]_labelVars => [Sent => ReachIsRight]_labelVars
  BY <1>1
<1>4. LabelsInv /\ [LabelsNext]_labelVars => [Sent => FailureIsRight]_labelVars
  BY <1>1
<1> QED  BY <1>2, <1>3, <1>4, LabelsHold, PTL
            DEF LabelsSpec, MessagesExplained, TextExplained, ReachesWhoAsked, FailureExplained
=============================================================================
