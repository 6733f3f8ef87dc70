--------------------------- MODULE MC_BuildState ---------------------------
(* Two nodes, b depending on a, so that a's rebuild changes b's input     *)
(* signature; two source versions, so that an edit can be reverted; three *)
(* invocations, enough for build, up-to-date build, and a third build.    *)
EXTENDS BuildState, TLC

CONSTANTS a, b

MCNodes == {a, b}
MCDeps == (a :> {}) @@ (b :> {a})
=============================================================================
