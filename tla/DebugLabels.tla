------------------------------ MODULE DebugLabels ------------------------------
(***************************************************************************)
(* The names and labels of XR_EXT_debug_utils that the loader keeps for the *)
(* application (common/object_info.cpp) and puts into the messages that     *)
(* reach its messengers (loader_logger.cpp), among them the reports of the  *)
(* conformance layer, which fail a test through the messenger of the        *)
(* framework (conformance_utils.cpp).                                      *)
(*                                                                         *)
(* The runtime lacks the extension: if it has it, it calls the messengers.  *)
(* Calls are atomic: the data has no lock, and the application is taken to  *)
(* make one of these calls at a time.  The loader has no function of its    *)
(* own for xrDestroySession and nothing calls DeleteSessionLabels: the      *)
(* labels belong to a value of a handle and outlive sessions and instances. *)
(***************************************************************************)
EXTENDS Naturals, SequencesExt

CONSTANTS
    Sessions,          \* values an XrSession handle may take
    Others,            \* other objects
    Labels, Names,
    CountWidth,        \* the counts of the loader's own messages are modulo this
    MaxObjects,        \* bound on the objects of a message
    DebugMessengers,   \* messengers of the application
    CreateInfos,       \* their severities and types
    Framework,         \* the messenger of the conformance tests
    None

ASSUME LabelsAssumption ==
    /\ None \notin Labels \cup Names
    /\ Sessions \cap Others = {}
    /\ CountWidth \in Nat \ {0} /\ MaxObjects \in Nat
    /\ Framework \notin DebugMessengers

\* Of each kind some suffice: what the loader does with one it does with others.
Severities == {"warning", "error"}
Types == {"validation", "conformance"}

VARIABLES
    sessionLabels,     \* DebugUtilsData::session_labels_, <<>> if there is no entry
    objectInfo,        \* DebugUtilsData::object_info_: the names that are stored
    createInfo,        \* the messengers that are alive, and what they were created with
    message            \* the message of the last call and what became of it

labelVars == <<sessionLabels, objectInfo, createInfo, message>>

Objects == Sessions \cup Others

Label(l, isIndividual) == [name |-> l, isIndividual |-> isIndividual]

LabelsInit ==
    /\ sessionLabels = [s \in Sessions |-> <<>>]
    /\ objectInfo = [o \in Objects |-> None]
    /\ createInfo = [m \in DebugMessengers \cup {Framework} |-> None]
    /\ message = None

-----------------------------------------------------------------------------
(* Labels and names.                                                       *)

RemoveIndividualLabel_Never(list) == list
RemoveIndividualLabel(list) ==
    IF list # <<>> /\ Last(list).isIndividual THEN Front(list) ELSE list

\* A label that is not in use, so that a message tells where it comes from.
Fresh(l) == \A s \in Sessions : \A i \in DOMAIN sessionLabels[s] : sessionLabels[s][i].name # l

Store(s, l, isIndividual) ==
    /\ sessionLabels' =
           [sessionLabels EXCEPT ![s] = Append(RemoveIndividualLabel(@), Label(l, isIndividual))]
    /\ message' = None /\ UNCHANGED <<objectInfo, createInfo>>

BeginLabelRegion(s, l) == Fresh(l) /\ Store(s, l, FALSE)

InsertLabel(s, l) == Fresh(l) /\ Store(s, l, TRUE)

EndLabelRegion(s) ==
    /\ LET list == RemoveIndividualLabel(sessionLabels[s])
       IN  sessionLabels' = [sessionLabels EXCEPT ![s] = IF list = <<>> THEN list ELSE Front(list)]
    /\ message' = None /\ UNCHANGED <<objectInfo, createInfo>>

\* Setting the empty name removes the object.
AddObjectName(o, name) ==
    /\ objectInfo' = [objectInfo EXCEPT ![o] = name]
    /\ message' = None /\ UNCHANGED <<sessionLabels, createInfo>>

-----------------------------------------------------------------------------
(* Messages about a sequence of objects.                                   *)

\* The newest label first.
LookUpSessionLabels_OldestFirst(s) ==
    [i \in DOMAIN sessionLabels[s] |-> sessionLabels[s][i].name]
LookUpSessionLabels(s) ==
    LET list == Reverse(sessionLabels[s]) IN [i \in DOMAIN list |-> list[i].name]

LabelsOf(objects) ==
    FoldLeft(LAMBDA labels, o : IF o \in Sessions THEN labels \o LookUpSessionLabels(o) ELSE labels,
             <<>>, objects)

ObjectNames(objects) == [i \in DOMAIN objects |-> objectInfo[objects[i]]]

\* DebugUtilsData::WrapCallbackData of a message of the application, which has no
\* names of its own in it: nothing is added if no object has a name.
WrapCallbackData(objects) ==
    [from |-> "application", objects |-> objects, names |-> ObjectNames(objects),
     labels |-> IF \A o \in Objects : objectInfo[o] = None THEN <<>> ELSE LabelsOf(objects)]

\* DebugUtilsData::PopulateNamesAndLabels for a message of the loader, whose
\* number of labels is then cut to eight bits.
PopulateNamesAndLabels(objects) ==
    [from |-> "loader", objects |-> objects, names |-> ObjectNames(objects),
     labels |-> SubSeq(LabelsOf(objects), 1, Len(LabelsOf(objects)) % CountWidth)]

-----------------------------------------------------------------------------
(* Messengers, each of which has a recorder in the loader.                 *)

\* The loader has no name for messages about conformance.
LoaderLogMessageTypes(types) == types \ {"conformance"}

\* The severities of the loader are those of the extension.
DebugUtilsLogRecorder(info) ==
    [severities |-> info.severities, types |-> LoaderLogMessageTypes(info.types)]

Recorders == {m \in DOMAIN createInfo : createInfo[m] # None}

Recorder(m) == DebugUtilsLogRecorder(createInfo[m])

AddRecorder(m, info) ==
    /\ createInfo[m] = None
    /\ createInfo' = [createInfo EXCEPT ![m] = info]
    /\ message' = None /\ UNCHANGED <<sessionLabels, objectInfo>>

RemoveRecorder(m) ==
    /\ m \in Recorders
    /\ createInfo' = [createInfo EXCEPT ![m] = None]
    /\ message' = None /\ UNCHANGED <<sessionLabels, objectInfo>>

\* The framework chains its messenger to the create info of an instance.
MessengerCreateInfo == [severities |-> Severities, types |-> {"conformance"}]

\* ConformanceLayerCallback fails the test for an error, whatever its type.
Send(m, severity, types, recorders) ==
    /\ message' = [text |-> m, severity |-> severity, types |-> types, to |-> recorders,
                   failsTest |-> Framework \in recorders /\ severity = "error"]
    /\ UNCHANGED <<sessionLabels, objectInfo, createInfo>>

\* LoaderLogger::LogDebugUtilsMessage, the end of xrSubmitDebugUtilsMessageEXT.
SubmitMessage(objects, severity, types) ==
    Send(WrapCallbackData(objects), severity, types,
         {m \in Recorders :
             /\ severity \in Recorder(m).severities
             /\ LoaderLogMessageTypes(types) \subseteq Recorder(m).types})

\* RuntimeFailure of the conformance layer: no objects, and no test of the result.
RuntimeFailure(severity) == SubmitMessage(<<>>, severity, {"conformance"})

\* LoaderLogger::LogMessage and the recorders' own test.
LogMessage(objects, severity, type) ==
    Send(PopulateNamesAndLabels(objects), severity, {type},
         {m \in Recorders :
             severity \in Recorder(m).severities /\ type \in Recorder(m).types})

-----------------------------------------------------------------------------

\* What a message is about.
Subjects ==
    {objects \in UNION {[1..n -> Objects] : n \in 1..MaxObjects} : IsInjective(objects)}

LabelsNext ==
    \/ \E s \in Sessions :
           \/ EndLabelRegion(s)
           \/ \E l \in Labels : BeginLabelRegion(s, l) \/ InsertLabel(s, l)
    \/ \E o \in Objects, name \in Names \cup {None} : AddObjectName(o, name)
    \/ \E m \in DebugMessengers, info \in CreateInfos : AddRecorder(m, info)
    \/ AddRecorder(Framework, MessengerCreateInfo)
    \/ \E m \in DebugMessengers \cup {Framework} : RemoveRecorder(m)
    \/ /\ message = None      \* messages leave no trace: none after another
       /\ \E severity \in Severities :
           \/ RuntimeFailure(severity)
           \/ \E objects \in Subjects :
                  \/ \E types \in (SUBSET Types) \ {{}} : SubmitMessage(objects, severity, types)
                  \/ \E type \in Types \ {"conformance"} : LogMessage(objects, severity, type)

LabelsSpec == LabelsInit /\ [][LabelsNext]_labelVars

-----------------------------------------------------------------------------
(* Correctness.                                                            *)

\* This is a sequence only if no region follows an individual label.
Regions(s) ==
    LET list == sessionLabels[s]
    IN  [i \in {n \in DOMAIN list : ~list[n].isIndividual} |-> list[i].name]

Individual(s) ==
    IF sessionLabels[s] # <<>> /\ Last(sessionLabels[s]).isIndividual
    THEN Last(sessionLabels[s]).name ELSE None

AbstractLabels == INSTANCE SessionLabels WITH
    regions <- [s \in Sessions |-> Regions(s)], individual <- [s \in Sessions |-> Individual(s)],
    Null <- None

\* The one list of a session keeps its nested regions and its individual label.
ImplementsLabels == AbstractLabels!Spec

\* What a message tells of its objects: newest first, the individual label and the
\* regions of each session.
ExpectedLabels(o) ==
    IF o \notin Sessions THEN <<>>
    ELSE (IF Individual(o) = None THEN <<>> ELSE <<Individual(o)>>) \o Reverse(Regions(o))
Expected(objects) == FlattenSeq([i \in DOMAIN objects |-> ExpectedLabels(objects[i])])

Sent == message' \notin {message, None}

\* A message tells the names and the labels of its objects; the labels are missing from a
\* message of the application if nothing has a name, and from one of the loader if there
\* are more of them than it can count.
TextIsRight ==
    LET text == message'.text IN
    /\ text.names = [i \in DOMAIN text.objects |-> objectInfo[text.objects[i]]]
    /\ \/ text.labels = Expected(text.objects)
       \/ /\ text.from = "application" /\ text.labels = <<>>
          /\ \A o \in Objects : objectInfo[o] = None
       \/ text.from = "loader" /\ Len(Expected(text.objects)) >= CountWidth
TextExplained == [][Sent => TextIsRight]_labelVars

\* A message reaches every messenger that asked for all its types, and, unless one
\* of them is "conformance", no other: the loader drops that type on both sides.
ReachIsRight ==
    LET asked == {m \in Recorders :
                     /\ message'.severity \in createInfo[m].severities
                     /\ message'.types \subseteq createInfo[m].types}
    IN  /\ asked \subseteq message'.to
        /\ message'.to = asked \/ "conformance" \in message'.types
ReachesWhoAsked == [][Sent => ReachIsRight]_labelVars

\* Errors about conformance fail the test if the framework has its messenger, and
\* no other message fails it.
FailureIsRight ==
    message'.failsTest <=>
        Framework \in Recorders /\ message'.severity = "error" /\ message'.types = {"conformance"}
FailureExplained == [][Sent => FailureIsRight]_labelVars

\* What loader_logger.cpp makes of a message: its names and labels, the messengers it
\* reaches, and the test it fails.
MessagesExplained == TextExplained /\ ReachesWhoAsked /\ FailureExplained
=============================================================================
