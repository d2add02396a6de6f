----------------------------- MODULE NpmToDebian -----------------------------
(***************************************************************************)
(* The pipeline of npm2debian: execute() of dumpversion.js with debianize  *)
(* of lib/cli.js.  A run reads the tree and the dependencies from two      *)
(* files, or walks the registry and writes them; reads the package names   *)
(* from a third file, or debianizes every package of the tree and writes   *)
(* the names; and writes a Makefile.  A run may be killed at any point,    *)
(* and the next one starts from the files it finds.                        *)
(*                                                                         *)
(* The handler that debianizes when the names cannot be read also gets the *)
(* failures of the steps before it: after a walk that failed it works on   *)
(* the part of the tree there is, while late answers add to it.            *)
(*                                                                         *)
(* A tree, dependencies or names are abstracted to the set of packages in  *)
(* them.  (That a walk that ended well lists and describes the same        *)
(* packages, closed under dependencies, is WalkCorrect of                  *)
(* DependencyWalkProofs.)                                                  *)
(***************************************************************************)
CONSTANTS
  Names,     \* package names
  Root,      \* params.target
  Skipped,   \* the package name 'serve'
  Releases   \* what a walk may find: sets of packages

ASSUME PipelineAssumption ==
  /\ Root \in Names
  /\ Skipped \subseteq Names
  /\ Releases \subseteq SUBSET Names

VARIABLES
  phase,     \* where execute() is
  result,    \* how the last run ended
  file,      \* tree.json, dependencies.json, pkgnames.json and the Makefile
  writing,   \* what writeFile has still to finish: files and their new packages
  tree,      \* params.tree
  deps,      \* params.dependencies
  needed,    \* the packages in params.dependencies and all they depend on
  late,      \* the packages whose answers may come after the walk has failed
  pkgNames,  \* params.pkgNames
  recorded,  \* nameToPackageName
  job,       \* how far each debianization has come
  dir,       \* the source directory of each package
  missed,    \* history: the packages whose debianization failed last time
  fellThrough \* history: a failure before readPkgNames reached its handler

walkVars == <<tree, deps, needed, late>>
nameVars == <<pkgNames, recorded>>
memoryVars == <<walkVars, nameVars>>
jobVars == <<job, dir, missed>>
vars == <<phase, result, file, writing, memoryVars, jobVars, fellThrough>>

Files == {"tree", "deps", "names", "Makefile"}

\* The contents of a file; a torn one does not parse.
Content == [state : {"absent", "torn", "whole"}, packages : SUBSET Names]
Absent == [state |-> "absent", packages |-> {}]
Torn == [state |-> "torn", packages |-> {}]
Whole(packages) == [state |-> "whole", packages |-> packages]

Readable(f) == file[f].state = "whole"

\* A call of writeFile with the text made of these packages.
Write(f, packages) == [file |-> f, packages |-> packages]
BeingWritten(f) == \E w \in writing : w.file = f

\* The packages of a tree that become Debian packages.
Listed(t) == t \ Skipped

-----------------------------------------------------------------------------
Start ==
  /\ phase = "idle"
  /\ phase' = "read" /\ result' = "none"
  /\ UNCHANGED <<file, writing, memoryVars, jobVars, fellThrough>>

\* The process ends with the outcome o, and its memory is gone; a file that it
\* was still writing stays as it is.
End(o) ==
  /\ phase' = "idle" /\ result' = o
  /\ writing' = {}
  /\ tree' = {} /\ deps' = {} /\ needed' = {} /\ late' = {}
  /\ pkgNames' = {} /\ recorded' = {}
  /\ job' = [n \in Names |-> "none"]

\* Killed, or an exception outside of all promises: what was written stays.
\* (After a power failure it need not: nothing is synced to the disk.)
Crash ==
  /\ phase # "idle"
  /\ End("crash")
  /\ UNCHANGED <<file, dir, missed, fellThrough>>

ReadTreeDependencies ==
  /\ phase = "read"
  /\ IF Readable("tree") /\ Readable("deps")
     THEN /\ tree' = file["tree"].packages
          /\ deps' = file["deps"].packages
          /\ needed' = file["deps"].packages
          /\ phase' = "readNames"
     ELSE phase' = "walk" /\ UNCHANGED <<tree, deps, needed>>
  /\ UNCHANGED <<result, file, writing, late, nameVars, jobVars, fellThrough>>

\* The walk has ended well.
Walk ==
  /\ phase = "walk"
  /\ \E packages \in Releases :
       /\ tree' = packages /\ deps' = packages /\ needed' = packages
       /\ writing' = {Write("tree", packages), Write("deps", packages)}
  /\ phase' = "writeTree"
  /\ UNCHANGED <<result, file, late, nameVars, jobVars, fellThrough>>

\* The walk has failed: some packages are described, others listed at most,
\* others not yet answered.  Nothing is described before the target is.
WalkFails ==
  /\ phase = "walk"
  /\ \E packages \in Releases : \E listed \in SUBSET packages :
     \E described \in SUBSET listed :
       /\ described # packages
       /\ IF described = {} THEN listed \subseteq {Root} ELSE Root \in described
       /\ tree' = listed /\ deps' = described
       /\ IF described = {}
          THEN needed' = {} /\ late' = {}
          ELSE needed' = packages /\ late' = packages \ listed
  /\ phase' = "debianizeTree"
  /\ fellThrough' = TRUE
  /\ UNCHANGED <<result, file, writing, nameVars, jobVars>>

\* Meanwhile the requests under way are answered, well or with a description
\* that is of no use.
LateAnswer(n) ==
  /\ phase # "idle" /\ n \in late
  /\ late' = late \ {n}
  /\ tree' = tree \union {n}
  /\ deps' \in {deps, deps \union {n}}
  /\ UNCHANGED <<phase, result, file, writing, needed, nameVars, jobVars, fellThrough>>

\* writeFile empties the file when it opens it ...
OpenFile(w) ==
  /\ w \in writing /\ file[w.file] # Torn
  /\ file' = [file EXCEPT ![w.file] = Torn]
  /\ UNCHANGED <<phase, result, writing, memoryVars, jobVars, fellThrough>>

\* ... and is done when it closes it.
CloseFile(w) ==
  /\ w \in writing /\ file[w.file] = Torn
  /\ file' = [file EXCEPT ![w.file] = Whole(w.packages)]
  /\ writing' = writing \ {w}
  /\ UNCHANGED <<phase, result, memoryVars, jobVars, fellThrough>>

\* Mutant of TreeWritten: Q.all is forgotten.
TreeBeingWritten ==
  /\ phase = "writeTree"
  /\ phase' = "readNames"
  /\ UNCHANGED <<result, file, writing, memoryVars, jobVars, fellThrough>>

\* Both files of writeTreeDependencies have been written.
TreeWritten ==
  /\ phase = "writeTree" /\ writing = {}
  /\ phase' = "readNames"
  /\ UNCHANGED <<result, file, writing, memoryVars, jobVars, fellThrough>>

\* One of the two cannot be written; the other one goes on.
TreeNotWritten ==
  /\ phase = "writeTree"
  /\ \E w \in writing : writing' = writing \ {w}
  /\ phase' = "debianizeTree"
  /\ fellThrough' = TRUE
  /\ UNCHANGED <<result, file, memoryVars, jobVars>>

\* Mutant of ReadPkgNames: the names are made anew by every run.
AlwaysDebianize ==
  /\ phase = "readNames"
  /\ phase' = "debianizeTree"
  /\ UNCHANGED <<result, file, writing, memoryVars, jobVars, fellThrough>>

ReadPkgNames ==
  /\ phase = "readNames"
  /\ IF Readable("names")
     THEN phase' = "makefile" /\ pkgNames' = file["names"].packages
     ELSE phase' = "debianizeTree" /\ UNCHANGED pkgNames
  /\ UNCHANGED <<result, file, writing, walkVars, recorded, jobVars, fellThrough>>

Schedule(packages) ==
  job' = [n \in Names |-> IF n \in packages THEN "add" ELSE "none"]

\* A debianization of every package listed is scheduled.  debianizeTree throws
\* when nothing is listed, or at a package whose dependencies are unknown;
\* what it has scheduled by then goes on until the process ends.
DebianizeTree ==
  /\ phase = "debianizeTree"
  /\ \/ /\ tree # {} /\ Listed(tree) \subseteq deps
        /\ Schedule(Listed(tree))
        /\ phase' = "debianize"
     \/ /\ tree = {} \/ ~(Listed(tree) \subseteq deps)
        /\ \E packages \in SUBSET (Listed(tree) \intersect deps) : Schedule(packages)
        /\ phase' = "failing"
  /\ UNCHANGED <<result, file, writing, memoryVars, dir, missed, fellThrough>>

Fail ==
  /\ phase = "failing"
  /\ End("failure")
  /\ UNCHANGED <<file, dir, missed, fellThrough>>

-----------------------------------------------------------------------------
(* lib/cli.js: the debianization of package n, beside those of the others. *)

Goto(n, where) == job' = [job EXCEPT ![n] = where]

Debianizing == phase \in {"debianize", "failing"}

\* cacheAdd, and makeSourcePackage up to the first test of the directory.
CacheAdd(n) ==
  /\ Debianizing /\ job[n] = "add"
  /\ recorded' = recorded \union {n}
  /\ Goto(n, "clear")
  /\ UNCHANGED <<phase, result, file, writing, walkVars, pkgNames, dir, missed, fellThrough>>

\* A directory that exists is removed.
Clear(n) ==
  /\ Debianizing /\ job[n] = "clear"
  /\ dir' = [dir EXCEPT ![n] = "absent"]
  /\ Goto(n, "unpack")
  /\ UNCHANGED <<phase, result, file, writing, memoryVars, missed, fellThrough>>

Unpack(n) ==
  /\ Debianizing /\ job[n] = "unpack"
  /\ dir' = [dir EXCEPT ![n] = "partial"]
  /\ Goto(n, "debian")
  /\ UNCHANGED <<phase, result, file, writing, memoryVars, missed, fellThrough>>

\* dh_make, dch and the three templates.
MakeDebian(n) ==
  /\ Debianizing /\ job[n] = "debian"
  /\ dir' = [dir EXCEPT ![n] = "complete"]
  /\ missed' = missed \ {n}
  /\ Goto(n, "settled")
  /\ UNCHANGED <<phase, result, file, writing, memoryVars, fellThrough>>

UnderWay(n) == job[n] \in {"add", "clear", "unpack", "debian"}

\* Mutant of JobFails: the promise of debianize is never settled.
JobHangs(n) ==
  /\ Debianizing /\ UnderWay(n)
  /\ missed' = missed \union {n}
  /\ Goto(n, "unsettled")
  /\ UNCHANGED <<phase, result, file, writing, memoryVars, dir, fellThrough>>

\* Any step may fail (that of a package without dependencies or
\* devDependencies always does, before its name is recorded); debianize logs
\* the error and resolves all the same.
JobFails(n) ==
  /\ Debianizing /\ UnderWay(n)
  /\ missed' = missed \union {n}
  /\ Goto(n, "settled")
  /\ UNCHANGED <<phase, result, file, writing, memoryVars, dir, fellThrough>>

\* Mutant of JobsDone: the debianizations that have begun are not waited for.
JobsBegun == \A n \in Names : job[n] # "add"

\* allResolved: every debianization has ended, well or badly.
JobsDone == \A n \in Names : job[n] \in {"none", "settled"}

\* Mutant of UpdatePkgNames: the packages without a name are left out.
SkipNameless ==
  /\ phase = "debianize" /\ JobsDone
  /\ pkgNames' = deps \intersect recorded
  /\ phase' = "writeNames"
  /\ writing' = writing \union {Write("names", deps \intersect recorded)}
  /\ UNCHANGED <<result, file, walkVars, recorded, jobVars, fellThrough>>

\* updatePkgNames throws at the first dependency without a name.
UpdatePkgNames ==
  /\ phase = "debianize" /\ JobsDone
  /\ IF deps \subseteq recorded
     THEN /\ pkgNames' = deps
          /\ phase' = "writeNames"
          /\ writing' = writing \union {Write("names", deps)}
     ELSE phase' = "failing" /\ UNCHANGED <<pkgNames, writing>>
  /\ UNCHANGED <<result, file, walkVars, recorded, jobVars, fellThrough>>

NamesWritten ==
  /\ phase = "writeNames" /\ ~BeingWritten("names")
  /\ phase' = "makefile"
  /\ UNCHANGED <<result, file, writing, memoryVars, jobVars, fellThrough>>

\* What writeMakefile looks up: the name and the dependencies of every
\* package listed, and the name of each dependency.
LookupsSucceed ==
  /\ Listed(tree) \subseteq pkgNames \intersect deps
  /\ Listed(needed) \subseteq pkgNames

WriteMakefile ==
  /\ phase = "makefile"
  /\ IF LookupsSucceed
     THEN /\ phase' = "writeMakefile"
          /\ writing' = writing \union {Write("Makefile", Listed(tree))}
     ELSE phase' = "failing" /\ UNCHANGED writing
  /\ UNCHANGED <<result, file, memoryVars, jobVars, fellThrough>>

MakefileWritten ==
  /\ phase = "writeMakefile" /\ ~BeingWritten("Makefile")
  /\ End("success")
  /\ UNCHANGED <<file, dir, missed, fellThrough>>

\* pkgnames.json or the Makefile cannot be written.
NotWritten ==
  /\ phase \in {"writeNames", "writeMakefile"}
  /\ \E w \in writing :
       w.file \in {"names", "Makefile"} /\ writing' = writing \ {w}
  /\ phase' = "failing"
  /\ UNCHANGED <<result, file, memoryVars, jobVars, fellThrough>>

-----------------------------------------------------------------------------
Init ==
  /\ phase = "idle" /\ result = "none"
  /\ file = [f \in Files |-> Absent]
  /\ writing = {}
  /\ tree = {} /\ deps = {} /\ needed = {} /\ late = {}
  /\ pkgNames = {} /\ recorded = {}
  /\ job = [n \in Names |-> "none"]
  /\ dir = [n \in Names |-> "absent"]
  /\ missed = {}
  /\ fellThrough = FALSE

FileStep == \E w \in writing : OpenFile(w) \/ CloseFile(w)

JobStep == \E n \in Names :
  CacheAdd(n) \/ Clear(n) \/ Unpack(n) \/ MakeDebian(n) \/ JobFails(n)

\* The steps that take a run further.
Work ==
  \/ ReadTreeDependencies \/ Walk \/ WalkFails \/ TreeWritten \/ TreeNotWritten
  \/ ReadPkgNames \/ DebianizeTree \/ Fail
  \/ FileStep \/ JobStep
  \/ UpdatePkgNames \/ NamesWritten \/ WriteMakefile \/ MakefileWritten \/ NotWritten

Next == Start \/ Work \/ (\E n \in Names : LateAnswer(n)) \/ Crash

Spec == Init /\ [][Next]_vars

\* The event loop goes on as long as it has callbacks to run; requests and
\* commands end.
FairSpec == Spec /\ WF_vars(Work)

-----------------------------------------------------------------------------
TypeOK ==
  /\ phase \in {"idle", "read", "walk", "writeTree", "readNames", "debianizeTree",
                "debianize", "writeNames", "makefile", "writeMakefile", "failing"}
  /\ result \in {"none", "crash", "failure", "success"}
  /\ file \in [Files -> Content]
  /\ writing \subseteq [file : Files, packages : SUBSET Names]
  /\ tree \subseteq Names /\ deps \subseteq Names
  /\ needed \subseteq Names /\ late \subseteq Names
  /\ pkgNames \subseteq Names /\ recorded \subseteq Names
  /\ job \in [Names -> {"none", "add", "clear", "unpack", "debian", "settled"}]
  /\ dir \in [Names -> {"absent", "partial", "complete"}]
  /\ missed \subseteq Names
  /\ fellThrough \in BOOLEAN

\* The three files that runs start from agree, whatever crashed or failed
\* before: pkgnames.json is written only when the other two stand, and names
\* the packages of both (lines 285-336).  A walk that failed once spoils it.
NamesAgree ==
  Readable("names") /\ ~fellThrough =>
    /\ Readable("tree") /\ Readable("deps")
    /\ file["names"].packages = file["deps"].packages
    /\ file["names"].packages = Listed(file["tree"].packages)

\* A run that comes to writeMakefile, with files of its own or of earlier
\* runs, finds the name of every package there (lines 251-260).
NamesFound == phase = "makefile" /\ ~fellThrough => LookupsSucceed

\* When a run has succeeded, every package of the Makefile has its complete
\* source directory, unless its debianization failed and was logged: nothing
\* that a crash interrupted is taken for done (lines 108-111, 327-335).
BuiltUnlessMissed ==
  result = "success" /\ ~fellThrough =>
    \A n \in file["Makefile"].packages : dir[n] = "complete" \/ n \in missed

\* Once pkgnames.json is complete no run changes any of the three files or the
\* directories: repeated runs only write the Makefile again (lines 312-336).
NamesAreFinal ==
  [][Readable("names") /\ ~fellThrough =>
       /\ \A f \in {"tree", "deps", "names"} : file'[f] = file[f]
       /\ dir' = dir]_vars

\* A run ends (lines 311-346).
RunEnds == phase # "idle" ~> phase = "idle"

\* updatePkgNames (lines 299-304) throws rather than let a package without a
\* name through to writeMakefile: so no run should come there without it.
EveryPackageNamed == phase = "makefile" => LookupsSucceed
=============================================================================
