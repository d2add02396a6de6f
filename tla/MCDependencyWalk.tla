-------------------------- MODULE MCDependencyWalk --------------------------
(***************************************************************************)
(* DependencyWalk over small registries.                                   *)
(***************************************************************************)
EXTENDS DependencyWalk, FiniteSets, TLC

\* Every dependency graph over Names in which no package has more than two
\* dependencies, with cycles and packages that depend on themselves.
SmallRegistries == [Names -> {ds \in SUBSET Names : Cardinality(ds) <= 2}]

\* The packages of dumpversion_test.js (lines 11-37).
CONSTANTS direct, devdirect, leaf
TestRegistry ==
  (Root :> {direct, devdirect}) @@ (direct :> {leaf})
    @@ (devdirect :> {}) @@ (leaf :> {})
TestRegistries == {TestRegistry}
=============================================================================
