---------------------------- MODULE MCAppRuntime ----------------------------
(* Instances of AppRuntime: applications of one exclusive group, between    *)
(* them of every startup policy and launcher kind the manager knows.  The   *)
(* compositions register adsb and google_earth of the group, both lazy; a   *)
(* preloaded dashboard (weather) is in config/applications.toml and has a   *)
(* launcher, but no composition registers it yet.                           *)
EXTENDS AppRuntime, TLC

CONSTANTS weather, adsb, earth, aux

\* A preloaded dashboard beside the two lazy applications.
PreloadStartup == [a \in Apps |-> IF a = weather THEN "preload" ELSE "lazy"]
\* A preloaded dashboard beside a persistent application.
PersistentStartup == [a \in Apps |-> IF a = earth THEN "persistent" ELSE "preload"]
\* No step tells one caller from another, and what AppRuntime_threads checks is
\* about states and single steps.
CallerSymmetry == Permutations(Callers)
OneGroup == [a \in Apps |-> aux]
=============================================================================
