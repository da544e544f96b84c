--------------------------- MODULE MCLoaderInstance ---------------------------
(* Values of LoaderInstance's constants for TLC. *)
EXTENDS LoaderInstance, TLC

Symmetry == Permutations(Threads) \cup Permutations(Instances) \cup Permutations(Messengers)

Manifest(dir, name, enable, disable, extensions) ==
    [dir |-> dir, name |-> name, enable |-> enable, disable |-> disable,
     extensions |-> extensions, valid |-> TRUE]

\* "A" is implicit and explicit, "C" needs a variable, and "B" is found twice.
MCFiles ==
    << Manifest(<<"/etc", Implicit>>, "A", "unset", "noA", {}),
       Manifest(<<"/usr/share", Implicit>>, "C", "onC", "noC", {"xC"}),
       Manifest(<<"/etc/xdg", Explicit>>, "B", "unset", "unset", {"xB"}),
       Manifest(<<"/etc", Explicit>>, "A", "unset", "unset", {"xA"}),
       [Manifest(<<"/etc", Explicit>>, "D", "unset", "unset", {}) EXCEPT !.valid = FALSE],
       Manifest(<<"/home", ".local/share", Explicit>>, "B", "unset", "unset", {"dbg"}),
       Manifest(<<"/", Implicit>>, "R", "unset", "noR", {}),
       Manifest(<<"/dev">>, "B", "unset", "unset", {}) >>

MCFallbackConfigDirs == <<"/etc/xdg">>
MCSysConfDirs == <<"/etc">>
MCFallbackDataDirs == <<"/usr/local/share", "/usr/share">>

Home == [apiLayerPath |-> <<>>, configDirs |-> <<>>, dataDirs |-> <<>>, dataHome |-> <<>>,
         home |-> <<"/home">>]

\* What is set, what XR_ENABLE_API_LAYERS names, and what is asked for.
RequestsIn(variables, lists, named, layerNames, extensions) ==
    [environment : [variables : variables, lists : lists], named : named,
     layers : layerNames, extensions : extensions]

\* Mostly one home, and some other places to look at: a directory that is listed
\* twice, lists with empty entries, the root, and XR_API_LAYER_PATH.
MCRequests ==
    RequestsIn({{}, {"noA"}, {"noA", "onC"}, {"onC", "noC"}}, {Home},
               {<<>>, <<"A">>, <<"", "B">>},
               {<<>>, <<"B", "A">>, <<"B", "B">>, <<"C">>, <<"D">>},
               {<<"x", "dbg">>, <<"x", "xB", "dbg">>, <<"xA">>, <<"xC", "xB">>,
                <<"dbg", "dbg">>})
    \cup
    RequestsIn({{}, {"noA"}},
               {[Home EXCEPT !.configDirs = <<"/etc">>],
                [Home EXCEPT !.dataDirs = <<"/usr/share", "", "/opt", "">>],
                [Home EXCEPT !.dataHome = <<"/">>], [Home EXCEPT !.home = <<"/opt", "/">>],
                [Home EXCEPT !.apiLayerPath = <<"/home", "/dev">>]},
               {<<>>, <<"A">>}, {<<>>, <<"A", "B">>}, {<<"x">>})
=============================================================================
