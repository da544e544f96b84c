------------------------------- MODULE GpuWindow -------------------------------
(***************************************************************************)
(* The windows the OpenGL plugins get their contexts from: what creating    *)
(* one takes from the system, step by step, what is given back when a step  *)
(* fails, and what destroying one gives back, on the platforms the plugins  *)
(* are built for.                                                           *)
(***************************************************************************)
EXTENDS Naturals, Sequences

Platforms == {"Win32", "Xlib", "Android"}

Nothing == "nothing"

\* A step of ksGpuWindow_Create: what it gets, and what its failure does. "return" and
\* "destroy" end the creation, the latter after a ksGpuWindow_Destroy; "ignore" goes on.
Step(gets, onFailure) == [gets |-> gets, onFailure |-> onFailure]

\* ksGpuContext_CreateForSurface, whose result nobody looks at.
Context == Step("context", "ignore")

Win32Steps ==
    <<Step("class", "return"), Step("window", "destroy"), Step("dc", "destroy"),
      Context>>

XlibSteps ==
    <<Step("display", "return"), Context, Step("visual", "destroy"),
      Step("colormap", "never"), Step("window", "destroy")>>

\* The EGL functions are loaded before the display is initialized and again after.
AndroidSteps ==
    <<Step(Nothing, "return"), Step("display", "never"), Step(Nothing, "return"),
      Context>>

Steps(platform) ==
    CASE platform = "Win32" -> Win32Steps
      [] platform = "Xlib" -> XlibSteps
      [] platform = "Android" -> AndroidSteps

\* What ksGpuContext_Destroy and ksGpuWindow_Destroy give back.
ContextReleases == {"context"}
Win32Releases_KeepsClass == {"dc", "window"}
Win32Releases == {"dc", "window", "class"}
XlibReleases == {"window", "colormap", "visual", "display"}
AndroidReleases == {"display"}

Destroy(platform, held) ==
    held \ (ContextReleases \cup
            CASE platform = "Win32" -> Win32Releases
              [] platform = "Xlib" -> XlibReleases
              [] platform = "Android" -> AndroidReleases)

MayFail(platform) ==
    {n \in DOMAIN Steps(platform) : Steps(platform)[n].onFailure # "never"}

\* ksGpuWindow_Create when the steps in fails would fail: whether it returns true, and
\* what is held then.
Create(platform, fails) ==
    LET steps == Steps(platform)
        stops == {n \in fails : steps[n].onFailure # "ignore"}
        Got(n) == {steps[m].gets : m \in (1..n) \ fails} \ {Nothing}
    IN  IF stops = {}
        THEN [created |-> TRUE, held |-> Got(Len(steps))]
        ELSE LET first == CHOOSE n \in stops : \A m \in stops : n <= m
             IN  [created |-> FALSE,
                  held |-> IF steps[first].onFailure = "destroy"
                           THEN Destroy(platform, Got(first - 1))
                           ELSE Got(first - 1)]
=============================================================================
