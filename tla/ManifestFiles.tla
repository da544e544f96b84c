----------------------------- MODULE ManifestFiles -----------------------------
(***************************************************************************)
(* Where the loader looks for the manifest files of API layers on Linux     *)
(* (manifest_file.cpp).  A list of directories, such as the value of        *)
(* XDG_DATA_DIRS, is the sequence of the entries between its separators; a   *)
(* directory is the sequence of an entry and of what the loader appends.    *)
(*                                                                         *)
(* Nothing else on the disk matters: a manifest file is a record            *)
(* [dir, name, enable, disable, extensions, valid] of its directory, the    *)
(* name of its layer, the environment variables of an implicit layer, the   *)
(* layer's instance extensions, and whether CreateIfValid would accept it.  *)
(* To a process with more rights than its user all lists read empty.        *)
(***************************************************************************)
EXTENDS Naturals, SequencesExt

CONSTANTS
    Files,               \* all manifest files, those of a directory as they are read;
                         \* a record stands for one file
    FallbackConfigDirs, SysConfDirs, FallbackDataDirs,
    Unset                \* "no environment variable"

ASSUME FilesAssumption ==
    /\ Files \in Seq(ToSet(Files)) /\ IsInjective(Files)
    /\ FallbackConfigDirs \in Seq(STRING) /\ SysConfDirs \in Seq(STRING)
    /\ FallbackDataDirs \in Seq(STRING)

Empty == ""
Root == "/"              \* the one entry of a single character

Manifests == ToSet(Files)

\* The environment: the lists of directories in it, and the variables that are set.
Lists == [apiLayerPath : Seq(STRING), configDirs : Seq(STRING), dataDirs : Seq(STRING),
          dataHome : Seq(STRING), home : Seq(STRING)]
Environments == [variables : SUBSET STRING, lists : Lists]

\* The entries that are kept, in their order: SelectSeq in terms that the prover expands.
Kept(s, Keep(_)) == FlattenSeq([i \in DOMAIN s |-> IF Keep(s[i]) THEN <<s[i]>> ELSE <<>>])

\* What is appended to a directory of the search path.
Implicit == "openxr/1/api_layers/implicit.d"
Explicit == "openxr/1/api_layers/explicit.d"

-----------------------------------------------------------------------------

\* Before an empty entry there is a separator, which is taken for the end of its name,
\* so that it becomes the root; a list that ends with a separator is recognised by
\* the place of the last one, where a list of one character seems to end as well.
\* A list does not start with a separator: the code would read what is before it.
CopyIncludedPaths(list, relative) ==
    LET ends == list # <<>> /\ (list = <<Root>> \/ Last(list) = Empty)
        kept == IF ends THEN Front(list) ELSE list
    IN  [i \in DOMAIN kept |-> <<IF kept[i] = Empty THEN Root ELSE kept[i]>> \o relative]

Default(list, fallback) == IF list = <<>> THEN fallback ELSE list

\* ReadDataFilesInSearchPaths.  XR_API_LAYER_PATH replaces all for explicit layers.
SearchPath(lists, kind) ==
    IF kind = Explicit /\ lists.apiLayerPath # <<>>
    THEN CopyIncludedPaths(lists.apiLayerPath, <<>>)
    ELSE CopyIncludedPaths(Default(lists.configDirs, FallbackConfigDirs), <<kind>>)
         \o FlattenSeq([i \in DOMAIN SysConfDirs |->
                            CopyIncludedPaths(<<SysConfDirs[i]>>, <<kind>>)])
         \o CopyIncludedPaths(Default(lists.dataDirs, FallbackDataDirs), <<kind>>)
         \o IF lists.dataHome # <<>> THEN CopyIncludedPaths(lists.dataHome, <<kind>>)
            ELSE CopyIncludedPaths(lists.home, <<".local/share", kind>>)

\* AddFilesInPath: a directory that is listed twice gives its files twice.
FilesIn(path) ==
    FlattenSeq([i \in DOMAIN path |-> Kept(Files, LAMBDA f : f.dir = path[i])])

\* A set variable that disables an implicit layer overrides the one that enables it.
IsEnabled(f, variables) ==
    /\ f.enable # Unset => f.enable \in variables
    /\ f.disable \notin variables

CreateIfValid(f, kind, variables) ==
    /\ f.valid
    /\ kind = Implicit => IsEnabled(f, variables)

FindManifestFiles(kind, environment) ==
    Kept(FilesIn(SearchPath(environment.lists, kind)),
         LAMBDA f : CreateIfValid(f, kind, environment.variables))
=============================================================================
