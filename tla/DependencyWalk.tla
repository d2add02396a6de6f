--------------------------- MODULE DependencyWalk ---------------------------
(***************************************************************************)
(* How npm2debian/dumpversion.js walks a package's dependencies: the       *)
(* description of every package is requested once from the registry, and   *)
(* as the answers come in, in any order, each package is listed in         *)
(* params.tree under a depth and its own dependencies are requested.       *)
(*                                                                         *)
(* The depth an answer is listed under is read from currentDepth when the  *)
(* answer arrives.  currentDepth is not declared in processDesc, so it is  *)
(* one global variable, shared by every request under way.                 *)
(***************************************************************************)
EXTENDS Naturals, FiniteSets

CONSTANTS
  Names,       \* package names
  Root,        \* params.target
  Registries   \* possible contents of the registry: package -> dependencies

ASSUME WalkAssumption ==
  /\ Root \in Names
  /\ Registries \subseteq [Names -> SUBSET Names]

VARIABLES
  registry,      \* what the registry contains; it does not change
  tree,          \* params.tree: pairs of a depth and a name listed under it
  maxDepth,      \* params.tree.maxDepth
  dependencies,  \* the names in params.dependencies
  alreadyQueued, \* params.alreadyQueued; 0 when the name is not in it
  currentDepth,  \* the global variable
  pending,       \* requests without an answer yet
  failed         \* the promise of the walk has been rejected

vars == <<registry, tree, maxDepth, dependencies, alreadyQueued, currentDepth,
          pending, failed>>

\* getTreeDependenciesPromise.
Init ==
  /\ registry \in Registries
  /\ tree = {} /\ maxDepth = 0 /\ dependencies = {}
  /\ alreadyQueued = [n \in Names |-> 0]
  /\ currentDepth = 0
  /\ pending = {Root}
  /\ failed = FALSE

Listed(depth) == \E n \in Names : <<depth, n>> \in tree

\* Lines 159-164: maxDepth is looked at only when a depth is new.
RecordLevel(name, depth) ==
  /\ tree' = tree \union {<<depth, name>>}
  /\ maxDepth' = IF ~Listed(depth) /\ maxDepth < depth THEN depth ELSE maxDepth

\* Mutant of Fresh: a name is requested again unless it has been answered.
FreshUnanswered(name) == registry[name] \ dependencies

\* The dependencies of name that have not been requested yet.
Fresh(name) == {d \in registry[name] : alreadyQueued[d] = 0}

\* Mutant of ToRequest: a package found again is not requested, nor is any
\* package found with it.
UnlessOneIsKnown(name) ==
  IF Fresh(name) = registry[name] THEN Fresh(name) ELSE {}

\* Lines 189-202: what is requested when name is processed.
ToRequest(name) == Fresh(name)

\* Mutant of ProcessDesc: the continue of line 193 is lost, so that known
\* dependencies are requested again.
ProcessDescAgain(name, depth) ==
  /\ RecordLevel(name, depth)
  /\ dependencies' = dependencies \union {name}
  /\ alreadyQueued' = [d \in Names |->
       IF d \in Fresh(name) THEN depth + 1 ELSE alreadyQueued[d]]
  /\ currentDepth' = IF Fresh(name) = {} THEN currentDepth ELSE depth + 1
  /\ pending' = (pending \ {name}) \union registry[name]

\* Mutant of ProcessDesc: the depth is counted up once for every dependency.
ProcessDescCounting(name, depth) ==
  /\ RecordLevel(name, depth)
  /\ dependencies' = dependencies \union {name}
  /\ alreadyQueued' = [d \in Names |->
       IF d \in Fresh(name) THEN depth + 1 ELSE alreadyQueued[d]]
  /\ currentDepth' = currentDepth + Cardinality(registry[name])
  /\ pending' = (pending \ {name}) \union ToRequest(name)

\* processDesc(params, desc, depth) for the description of name.
ProcessDesc(name, depth) ==
  /\ RecordLevel(name, depth)
  /\ dependencies' = dependencies \union {name}
  /\ alreadyQueued' = [d \in Names |->
       IF d \in registry[name] /\ alreadyQueued[d] < depth + 1
       THEN depth + 1 ELSE alreadyQueued[d]]
  /\ currentDepth' = IF registry[name] = {} THEN currentDepth ELSE depth + 1
  /\ pending' = (pending \ {name}) \union ToRequest(name)

\* Mutant of DepthOfAnswer: currentDepth taken for the depth below.
DepthAbove == currentDepth - 1

\* The target's own description is processed with depth 0, a dependency's
\* with the value currentDepth has by then.
DepthOfAnswer == IF dependencies = {} THEN 0 ELSE currentDepth

Answer(name) ==
  /\ name \in pending
  /\ ProcessDesc(name, DepthOfAnswer)
  /\ UNCHANGED <<registry, failed>>

\* The description names no latest version: updateTree lists the package
\* before it finds that out and throws.
FaultyAnswer(name) ==
  /\ name \in pending
  /\ RecordLevel(name, DepthOfAnswer)
  /\ pending' = pending \ {name}
  /\ failed' = TRUE
  /\ UNCHANGED <<registry, dependencies, alreadyQueued, currentDepth>>

\* The request fails; the walk's promise is rejected, while the answers to
\* other requests are still processed as they come.
RequestError(name) ==
  /\ name \in pending
  /\ pending' = pending \ {name}
  /\ failed' = TRUE
  /\ UNCHANGED <<registry, tree, maxDepth, dependencies, alreadyQueued, currentDepth>>

\* The answer is no JSON text: JSON.parse throws out of the event handler and
\* the process exits, whatever else is under way.
Unparsable(name) ==
  /\ name \in pending
  /\ pending' = {}
  /\ failed' = TRUE
  /\ UNCHANGED <<registry, tree, maxDepth, dependencies, alreadyQueued, currentDepth>>

\* Nothing is under way: the walk has ended, well or badly.
Ended == pending = {}

Idle == Ended /\ UNCHANGED vars

\* One request comes to an end.
Resolve(name) ==
  Answer(name) \/ FaultyAnswer(name) \/ RequestError(name) \/ Unparsable(name)

Next ==
  \/ \E n \in Names : Resolve(n)
  \/ Idle

Spec == Init /\ [][Next]_vars

\* Every request is answered or fails.
FairSpec == Spec /\ \A n \in Names :
  WF_vars(Resolve(n))

-----------------------------------------------------------------------------
TypeOK ==
  /\ registry \in [Names -> SUBSET Names]
  /\ \A p \in tree : p \in Nat \X Names
  /\ maxDepth \in Nat
  /\ dependencies \subseteq Names
  /\ alreadyQueued \in [Names -> Nat]
  /\ currentDepth \in Nat
  /\ pending \subseteq Names
  /\ failed \in BOOLEAN

\* debianizeTree and writeMakefile go through the depths from maxDepth to 0
\* and throw at one that is missing (lines 86-89 and 242-245).  However the
\* answers are mixed up, the depths listed have no gap.
LevelsContiguous ==
  tree # {} => {p[1] : p \in tree} = 0..maxDepth

\* Lines 255-259 and 295-305: writeMakefile looks up the package name of every
\* dependency of every package, so when the walk has ended well each of them
\* must have been described itself, the target included.
WalkClosed ==
  Ended /\ ~failed =>
    Root \in dependencies /\ \A n \in dependencies : registry[n] \subseteq dependencies

\* No package is listed twice (lines 189-202), so that debianizeTree does not
\* build it twice at the same time and writeMakefile has one rule for it.  The
\* exception is the target when it is part of a cycle: it is not put into
\* alreadyQueued when its description is requested the first time.
ListedOnce ==
  \A p, q \in tree : p[2] = q[2] /\ p[2] # Root => p = q

\* The walk ends, dependency cycles or not (lines 189-202).
WalkEnds == <>Ended

\* The tree that dumpversion_test.js (lines 4-9) gives for its packages lists
\* every package right below a package that depends on it.
RightBelowDependent ==
  \A p \in tree : p[2] # Root =>
    \E q \in tree : p[2] \in registry[q[2]] /\ p[1] = q[1] + 1
=============================================================================
