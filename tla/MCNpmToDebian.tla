--------------------------- MODULE MCNpmToDebian ---------------------------
(***************************************************************************)
(* NpmToDebian with a small registry that changes between runs: the target *)
(* alone, with a dependency, and with the package that is skipped.         *)
(***************************************************************************)
EXTENDS NpmToDebian

CONSTANTS root, a, serve

SmallReleases == {{root}, {root, a}, {root, serve}}
=============================================================================
