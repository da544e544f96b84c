------------------------------- MODULE ApiLayers -------------------------------
(***************************************************************************)
(* Which API layers the loader loads for xrCreateInstance, in which order,  *)
(* and whether that fails (ApiLayerInterface::LoadApiLayers); which         *)
(* extensions it reports before (GetInstanceExtensionProperties), and which *)
(* it accepts and passes on after (LoaderInstance::CreateInstance).         *)
(***************************************************************************)
EXTENDS ManifestFiles

CONSTANTS
    RuntimeExtensions,   \* the runtime's instance extensions
    DebugUtils           \* the extension that the loader supports itself

NamesOf(files) == {f.name : f \in ToSet(files)}

-----------------------------------------------------------------------------
(* Finding.                                                                *)

WithName(files, name) == Kept(files, LAMBDA f : f.name = name)

\* One name of XR_ENABLE_API_LAYERS or enabledApiLayerNames: every explicit file with
\* that name, unless the name has been found already.
EnableLayer_Again(found, name) ==
    [found EXCEPT
        !.files = @ \o WithName(found.explicit, name),
        !.all = @ /\ (name \in NamesOf(found.files) \/ WithName(found.explicit, name) # <<>>)]
EnableLayer(found, name) ==
    IF name \in NamesOf(found.files) THEN found
    ELSE [found EXCEPT !.files = @ \o WithName(found.explicit, name),
                       !.all = @ /\ WithName(found.explicit, name) # <<>>]

\* The files in the order in which their layers are loaded, and whether a file
\* was found for every name.
FindLayers(request) ==
    FoldLeft(EnableLayer,
             [files |-> FindManifestFiles(Implicit, request.environment), all |-> TRUE,
              explicit |-> FindManifestFiles(Explicit, request.environment)],
             request.named \o request.layers)

-----------------------------------------------------------------------------
(* Loading.                                                                *)

\* The library is not opened, has no negotiation function, or refuses.
Outcomes == {"loaded", "no library", "no function", "refused"}

\* The layers loaded so far, the error, and the libraries held open.
LoadLayer(loaded, f, outcome) ==
    CASE outcome = "loaded" ->
           [layers |-> Append(loaded.layers, f), failed |-> FALSE,
            libraries |-> [loaded.libraries EXCEPT ![f] = @ + 1]]
      [] outcome = "no function" -> [loaded EXCEPT !.failed = TRUE]
      [] OTHER -> [loaded EXCEPT !.failed = @ \/ loaded.layers = <<>>]

CloseLibraries(libraries, layers) ==
    [f \in Manifests |->
        libraries[f] - Cardinality({i \in DOMAIN layers : layers[i] = f})]

\* ApiLayerInterface::LoadApiLayers of what FindLayers has found, when each library has
\* its outcome.  A failure closes what has been loaded.
LoadLayers(found, outcome, libraries) ==
    LET loaded == FoldLeft(LAMBDA acc, f : LoadLayer(acc, f, outcome[f]),
                           [layers |-> <<>>, failed |-> FALSE, libraries |-> libraries],
                           found.files)
    IN  IF loaded.failed \/ ~found.all
        THEN [layers |-> <<>>, failed |-> TRUE,
              libraries |-> CloseLibraries(loaded.libraries, loaded.layers)]
        ELSE loaded

-----------------------------------------------------------------------------
(* Extensions.                                                             *)

ExtensionsOf(files) == UNION {f.extensions : f \in ToSet(files)}

\* ApiLayerInterface::GetInstanceExtensionProperties of no particular layer:
\* implicit layers, and explicit ones named in XR_ENABLE_API_LAYERS.
ReportedFiles(environment, named) ==
    FindManifestFiles(Implicit, environment)
        \o Kept(FindManifestFiles(Explicit, environment), LAMBDA f : f.name \in ToSet(named))

\* LoaderInstance::CreateInstance finds somebody who supports each extension.
Supported(extensions, layers) ==
    ToSet(extensions) \subseteq RuntimeExtensions \cup {DebugUtils} \cup ExtensionsOf(layers)

\* InstanceCreateInfoManager::FilterOutExtensions: the loader's own extension is
\* taken out, once, if the runtime lacks it.
FilterOutExtensions_Never(extensions) == extensions
FilterOutExtensions(extensions) ==
    IF DebugUtils \in RuntimeExtensions THEN extensions ELSE RemoveFirst(extensions, DebugUtils)

\* What reaches the runtime when each layer takes out its own extensions.
AskedOfRuntime(extensions, layers) ==
    Kept(FilterOutExtensions(extensions),
         LAMBDA e : e \in RuntimeExtensions \/ e \notin ExtensionsOf(layers))

=============================================================================
