-------------------------- MODULE NpmToDebianProofs --------------------------
(***************************************************************************)
(* Theorems about NpmToDebian, for every set of packages and every         *)
(* registry: the types; that the three files agree; that writeMakefile     *)
(* finds every name; that names once written are final; and that what a    *)
(* Makefile lists has been built.                                          *)
(*                                                                         *)
(* The inductive invariant says what each phase of a run implies about the *)
(* files and the memory, as long as no failure has fallen through to the   *)
(* handler that debianizes.                                                *)
(***************************************************************************)
EXTENDS NpmToDebian, TLAPS

\* From readPkgNames on, the memory holds what the two files hold.
FilesInv ==
  /\ late = {}
  /\ phase \notin {"writeTree", "writeNames", "writeMakefile"} => writing = {}
  /\ phase \in {"readNames", "debianizeTree", "debianize", "writeNames",
                "makefile", "writeMakefile"} =>
       /\ Readable("tree") /\ file["tree"].packages = tree
       /\ Readable("deps") /\ file["deps"].packages = deps
       /\ needed = deps

\* A walk is made, and its two files are written, only while there are no names.
WalkInv ==
  /\ phase \in {"walk", "writeTree"} => ~Readable("names")
  /\ phase = "writeTree" =>
       /\ tree = deps /\ needed = deps
       /\ writing \subseteq {Write("tree", tree), Write("deps", deps)}
       /\ BeingWritten("tree") \/ file["tree"] = Whole(tree)
       /\ BeingWritten("deps") \/ file["deps"] = Whole(deps)

\* The names in the file and in memory are those of the dependencies.
NamesInv ==
  /\ Readable("names") =>
       /\ Readable("tree") /\ Readable("deps")
       /\ file["names"].packages = file["deps"].packages
       /\ file["names"].packages = Listed(file["tree"].packages)
  /\ phase = "writeNames" =>
       /\ deps = Listed(tree) /\ pkgNames = deps
       /\ writing \subseteq {Write("names", deps)}
       /\ BeingWritten("names") => ~Readable("names")
       /\ BeingWritten("names") \/ file["names"] = Whole(deps)
  /\ phase \in {"makefile", "writeMakefile"} =>
       Readable("names") /\ pkgNames = file["names"].packages
  /\ phase = "writeMakefile" => writing \subseteq {Write("Makefile", Listed(tree))}

\* Debianizations are of packages listed, and under way only while there are
\* no names.
Early == {"idle", "read", "walk", "writeTree", "readNames", "debianizeTree"}

JobInv ==
  /\ phase \in Early => recorded = {} /\ \A n \in Names : job[n] = "none"
  /\ phase \in {"debianizeTree", "debianize"} => ~Readable("names")
  /\ phase \in {"writeNames", "makefile", "writeMakefile"} => JobsDone
  /\ Readable("names") => JobsDone
  /\ phase = "debianize" =>
       /\ Listed(tree) \subseteq deps
       /\ \A n \in Names : job[n] # "none" => n \in Listed(tree)
       /\ \A n \in recorded : job[n] # "none"

IInv == ~fellThrough => FilesInv /\ WalkInv /\ NamesInv /\ JobInv

-----------------------------------------------------------------------------
USE DEF Files

\* The initial state is well typed.
LEMMA TypeInit == Init => TypeOK
<1> SUFFICES ASSUME Init PROVE TypeOK
  OBVIOUS
<1>1. file \in [Files -> Content]
  <2>1. Absent \in Content
    BY DEF Absent, Content
  <2> QED
    BY <2>1 DEF Init
<1> QED
  BY <1>1 DEF Init, TypeOK

\* Every step keeps the types.
LEMMA TypeStep == TypeOK /\ [Next]_vars => TypeOK'
<1> SUFFICES ASSUME TypeOK, [Next]_vars PROVE TypeOK'
  OBVIOUS
<1> USE PipelineAssumption DEF TypeOK
<1>1. CASE Start
  BY <1>1 DEF Start, memoryVars, walkVars, nameVars, jobVars
<1>2. CASE ReadTreeDependencies
  BY <1>2 DEF ReadTreeDependencies, Content, nameVars, jobVars
<1>3. CASE Walk
  BY <1>3 DEF Walk, Write, nameVars, jobVars
<1>4. CASE WalkFails
  BY <1>4 DEF WalkFails, nameVars, jobVars
<1>5. CASE TreeWritten \/ TreeNotWritten
  BY <1>5 DEF TreeWritten, TreeNotWritten, memoryVars, walkVars, nameVars, jobVars
<1>6. CASE ReadPkgNames
  BY <1>6 DEF ReadPkgNames, Content, walkVars, jobVars
<1>7. CASE DebianizeTree
  BY <1>7 DEF DebianizeTree, Schedule, memoryVars, walkVars, nameVars
<1>8. CASE Fail \/ Crash \/ MakefileWritten
  BY <1>8 DEF Fail, Crash, MakefileWritten, End
<1>9. CASE FileStep
  <2> SUFFICES ASSUME NEW w \in writing, OpenFile(w) \/ CloseFile(w) PROVE TypeOK'
    BY <1>9 DEF FileStep
  <2>1. CASE OpenFile(w)
    BY <2>1 DEF OpenFile, Torn, Content, memoryVars, walkVars, nameVars, jobVars
  <2>2. CASE CloseFile(w)
    BY <2>2 DEF CloseFile, Whole, Content, memoryVars, walkVars, nameVars, jobVars
  <2> QED
    BY <2>1, <2>2
<1>10. CASE JobStep
  <2> SUFFICES ASSUME NEW n \in Names,
                      \/ CacheAdd(n) \/ Clear(n) \/ Unpack(n)
                      \/ MakeDebian(n) \/ JobFails(n)
               PROVE  TypeOK'
    BY <1>10 DEF JobStep
  <2>1. CASE CacheAdd(n)
    BY <2>1 DEF CacheAdd, Goto, walkVars
  <2>2. CASE Clear(n) \/ Unpack(n)
    BY <2>2 DEF Clear, Unpack, Goto, memoryVars, walkVars, nameVars
  <2>3. CASE MakeDebian(n) \/ JobFails(n)
    BY <2>3 DEF MakeDebian, JobFails, Goto, memoryVars, walkVars, nameVars
  <2> QED
    BY <2>1, <2>2, <2>3
<1>11. CASE UpdatePkgNames
  BY <1>11 DEF UpdatePkgNames, Write, walkVars, jobVars
<1>12. CASE NamesWritten \/ NotWritten
  BY <1>12 DEF NamesWritten, NotWritten, memoryVars, walkVars, nameVars, jobVars
<1>13. CASE WriteMakefile
  BY <1>13 DEF WriteMakefile, Write, Listed, memoryVars, walkVars, nameVars, jobVars
<1>14. CASE \E n \in Names : LateAnswer(n)
  BY <1>14 DEF LateAnswer, nameVars, jobVars
<1>15. CASE UNCHANGED vars
  BY <1>15 DEF vars, memoryVars, walkVars, nameVars, jobVars
<1> QED
  BY <1>1, <1>2, <1>3, <1>4, <1>5, <1>6, <1>7, <1>8, <1>9, <1>10, <1>11, <1>12,
     <1>13, <1>14, <1>15 DEF Next, Work

\* TypeOK is an invariant: every file, every phase of execute() and every
\* debianization of lib/cli.js stays within its states.
THEOREM TypeCorrect == Spec => []TypeOK
  BY TypeInit, TypeStep, PTL DEF Spec

-----------------------------------------------------------------------------
(* The inductive invariant. *)

USE DEF Readable, BeingWritten, Write, Whole, Torn

\* The inductive invariant holds when nothing has been run yet.
LEMMA InvInit == Init => IInv
  BY DEF Init, Absent, IInv, FilesInv, WalkInv, NamesInv, JobInv, JobsDone, Early

\* What the parts of IInv speak of.
tracked == <<phase, file, writing, tree, deps, needed, late, pkgNames, recorded,
             job, fellThrough>>

\* It depends on nothing else.
LEMMA InvStutter == IInv /\ UNCHANGED tracked => IInv'
  BY DEF tracked, IInv, FilesInv, WalkInv, NamesInv, JobInv, JobsDone, Early, Listed

\* The end of a run, in whatever phase: the files stay as they are.
LEMMA InvEnd == ASSUME IInv, NEW o, End(o), UNCHANGED <<file, fellThrough>> PROVE IInv'
<1> SUFFICES ASSUME ~fellThrough, IInv PROVE (FilesInv /\ WalkInv /\ NamesInv /\ JobInv)'
  BY DEF IInv
<1> USE DEF End
<1>1. FilesInv'
  BY DEF FilesInv
<1>2. WalkInv'
  BY DEF WalkInv
<1>3. NamesInv'
  BY DEF NamesInv, IInv, Listed
<1>4. JobInv'
  BY DEF JobInv, JobsDone, Early
<1> QED
  BY <1>1, <1>2, <1>3, <1>4

\* The memory of a run: what the phases before the writing of names leave alone.
LEMMA InvRead == IInv /\ TypeOK /\ (Start \/ ReadTreeDependencies \/ ReadPkgNames) => IInv'
<1> SUFFICES ASSUME ~fellThrough, FilesInv, WalkInv, NamesInv, JobInv,
                    Start \/ ReadTreeDependencies \/ ReadPkgNames
             PROVE  (FilesInv /\ WalkInv /\ NamesInv /\ JobInv)'
  BY DEF IInv, Start, ReadTreeDependencies, ReadPkgNames
<1> USE DEF memoryVars, walkVars, nameVars, jobVars
<1>1. CASE Start
  BY <1>1 DEF Start, FilesInv, WalkInv, NamesInv, JobInv, JobsDone, Early, Listed
<1>2. CASE ReadTreeDependencies
  BY <1>2 DEF ReadTreeDependencies, FilesInv, WalkInv, NamesInv, JobInv, JobsDone, Early, Listed
<1>3. CASE ReadPkgNames
  BY <1>3 DEF ReadPkgNames, FilesInv, WalkInv, NamesInv, JobInv, JobsDone, Early, Listed
<1> QED
  BY <1>1, <1>2, <1>3

\* A walk that ended well leaves two files of one set of packages.
LEMMA InvWalk == IInv /\ TypeOK /\ (Walk \/ TreeWritten) => IInv'
<1> SUFFICES ASSUME ~fellThrough, FilesInv, WalkInv, NamesInv, JobInv, Walk \/ TreeWritten
             PROVE  (FilesInv /\ WalkInv /\ NamesInv /\ JobInv)'
  BY DEF IInv, Walk, TreeWritten
<1> USE DEF memoryVars, walkVars, nameVars, jobVars
<1>1. CASE Walk
  BY <1>1 DEF Walk, FilesInv, WalkInv, NamesInv, JobInv, JobsDone, Early, Listed
<1>2. CASE TreeWritten
  BY <1>2 DEF TreeWritten, FilesInv, WalkInv, NamesInv, JobInv, JobsDone, Early, Listed
<1> QED
  BY <1>1, <1>2

\* Scheduling debianizes packages of the tree only.
LEMMA InvDebianizeTree == IInv /\ TypeOK /\ DebianizeTree => IInv'
<1> SUFFICES ASSUME ~fellThrough, FilesInv, WalkInv, NamesInv, JobInv, DebianizeTree
             PROVE  (FilesInv /\ WalkInv /\ NamesInv /\ JobInv)'
  BY DEF IInv, DebianizeTree
<1> USE DEF DebianizeTree, memoryVars, walkVars, nameVars
<1>1. FilesInv' /\ WalkInv' /\ NamesInv'
  BY DEF FilesInv, WalkInv, NamesInv, JobInv, Listed
<1>2. JobInv'
  BY DEF JobInv, JobsDone, Early, Schedule, Listed
<1> QED
  BY <1>1, <1>2

\* A debianization under way shows that there are no names.
LEMMA InvJob == ASSUME IInv, TypeOK, NEW n \in Names,
                       CacheAdd(n) \/ Clear(n) \/ Unpack(n) \/ MakeDebian(n) \/ JobFails(n)
                PROVE  IInv' /\ (~fellThrough => ~Readable("names"))
<1> SUFFICES ASSUME ~fellThrough, FilesInv, WalkInv, NamesInv, JobInv
             PROVE  (FilesInv /\ WalkInv /\ NamesInv /\ JobInv)' /\ ~Readable("names")
  BY DEF IInv, CacheAdd, Clear, Unpack, MakeDebian, JobFails, memoryVars, walkVars, nameVars
<1>1. /\ phase \in {"debianize", "failing"} /\ UnderWay(n)
      /\ \E where : job' = [job EXCEPT ![n] = where] /\ where # "none"
      /\ UNCHANGED <<phase, file, writing, walkVars, pkgNames, fellThrough>>
      /\ recorded' \in {recorded, recorded \union {n}}
  BY DEF CacheAdd, Clear, Unpack, MakeDebian, JobFails, Goto, Debianizing, UnderWay,
         memoryVars, nameVars
<1>2. ~Readable("names")
  BY <1>1 DEF JobInv, JobsDone, UnderWay
<1>3. FilesInv' /\ WalkInv' /\ NamesInv'
  BY <1>1, <1>2 DEF FilesInv, WalkInv, NamesInv, Listed, walkVars
<1>4. \A m \in Names : job'[m] # "none" => m = n \/ job[m] # "none"
  BY <1>1 DEF TypeOK
<1>5. \A m \in Names : job[m] # "none" => job'[m] # "none"
  BY <1>1 DEF TypeOK
<1>6. job'[n] # "none" /\ job[n] # "none"
  BY <1>1 DEF TypeOK, UnderWay
<1>7. recorded \subseteq Names
  BY DEF TypeOK
<1>8. JobInv'
  BY <1>1, <1>2, <1>4, <1>5, <1>6, <1>7 DEF JobInv, Early, Listed, walkVars
<1> QED
  BY <1>2, <1>3, <1>8

\* The names written are those of the tree's packages.
LEMMA InvNames == IInv /\ TypeOK /\ (UpdatePkgNames \/ NamesWritten) => IInv'
<1> SUFFICES ASSUME ~fellThrough, FilesInv, WalkInv, NamesInv, JobInv, TypeOK,
                    UpdatePkgNames \/ NamesWritten
             PROVE  (FilesInv /\ WalkInv /\ NamesInv /\ JobInv)'
  BY DEF IInv, UpdatePkgNames, NamesWritten
<1> USE DEF memoryVars, walkVars, nameVars, jobVars
<1>1. CASE UpdatePkgNames
  <2>1. FilesInv' /\ WalkInv'
    BY <1>1 DEF UpdatePkgNames, FilesInv, WalkInv
  <2>2. deps \subseteq recorded => deps = Listed(tree)
    BY <1>1 DEF UpdatePkgNames, JobInv, TypeOK
  <2>3. NamesInv'
    <3>1. CASE deps \subseteq recorded
      <4>1. ~Readable("names") /\ writing = {}
        BY <1>1 DEF UpdatePkgNames, JobInv, FilesInv
      <4>2. phase' = "writeNames" /\ pkgNames' = deps /\ writing' = {Write("names", deps)}
        BY <1>1, <3>1, <4>1 DEF UpdatePkgNames
      <4>3. UNCHANGED <<file, tree, deps>>
        BY <1>1 DEF UpdatePkgNames
      <4> QED
        BY <2>2, <3>1, <4>1, <4>2, <4>3 DEF NamesInv, Listed
    <3>2. CASE ~(deps \subseteq recorded)
      BY <1>1, <3>2 DEF UpdatePkgNames, NamesInv, Listed
    <3> QED
      BY <3>1, <3>2
  <2>4. JobInv'
    BY <1>1 DEF UpdatePkgNames, JobInv, JobsDone, Early, Listed
  <2> QED
    BY <2>1, <2>3, <2>4
<1>2. CASE NamesWritten
  BY <1>2 DEF NamesWritten, FilesInv, WalkInv, NamesInv, JobInv, JobsDone, Early, Listed
<1> QED
  BY <1>1, <1>2

\* The Makefile is written from files that stand.
LEMMA InvMakefile == IInv /\ TypeOK /\ (WriteMakefile \/ NotWritten) => IInv'
<1> SUFFICES ASSUME ~fellThrough, FilesInv, WalkInv, NamesInv, JobInv, TypeOK,
                    WriteMakefile \/ NotWritten
             PROVE  (FilesInv /\ WalkInv /\ NamesInv /\ JobInv)'
  BY DEF IInv, WriteMakefile, NotWritten
<1> USE DEF memoryVars, walkVars, nameVars, jobVars
<1>1. CASE WriteMakefile
  BY <1>1 DEF WriteMakefile, FilesInv, WalkInv, NamesInv, JobInv, JobsDone, Early, Listed
<1>2. CASE NotWritten
  BY <1>2 DEF NotWritten, FilesInv, WalkInv, NamesInv, JobInv, JobsDone, Early, Listed
<1> QED
  BY <1>1, <1>2

\* A step of writeFile: of the tree and the dependencies, of the names, or of
\* the Makefile.
LEMMA InvFile == IInv /\ TypeOK /\ FileStep => IInv'
<1> SUFFICES ASSUME ~fellThrough, FilesInv, WalkInv, NamesInv, JobInv, TypeOK,
                    NEW w \in writing, OpenFile(w) \/ CloseFile(w)
             PROVE  (FilesInv /\ WalkInv /\ NamesInv /\ JobInv)'
  BY DEF IInv, FileStep, OpenFile, CloseFile
<1>1. /\ UNCHANGED <<phase, memoryVars, jobVars, fellThrough>>
      /\ w.file \in Files
      /\ \/ /\ file[w.file] # Torn /\ writing' = writing
            /\ file' = [file EXCEPT ![w.file] = Torn]
         \/ /\ file[w.file] = Torn /\ writing' = writing \ {w}
            /\ file' = [file EXCEPT ![w.file] = Whole(w.packages)]
  BY DEF OpenFile, CloseFile, TypeOK
<1>2. phase \in {"writeTree", "writeNames", "writeMakefile"}
  BY DEF FilesInv
<1> USE DEF memoryVars, walkVars, nameVars, jobVars
<1>3. CASE phase = "writeTree"
  <2>1. w = Write("tree", tree) \/ w = Write("deps", deps)
    BY <1>3 DEF WalkInv
  <2>2. file'["names"] = file["names"] /\ ~Readable("names")
    BY <1>1, <1>3, <2>1 DEF TypeOK, WalkInv
  <2>3. WalkInv'
    <3>1. CASE writing' = writing
      BY <1>1, <1>3, <2>1, <2>2, <3>1 DEF WalkInv, TypeOK
    <3>2. CASE writing' = writing \ {w}
      BY <1>1, <1>3, <2>1, <2>2, <3>2 DEF WalkInv, TypeOK
    <3> QED
      BY <1>1, <3>1, <3>2
  <2>4. (FilesInv /\ NamesInv /\ JobInv)'
    BY <1>1, <1>3, <2>2 DEF FilesInv, NamesInv, JobInv, JobsDone, Early, Listed
  <2> QED
    BY <2>3, <2>4
<1>4. CASE phase = "writeNames"
  <2>1. w = Write("names", deps)
    BY <1>4 DEF NamesInv
  <2>2. file'["tree"] = file["tree"] /\ file'["deps"] = file["deps"]
    BY <1>1, <2>1 DEF TypeOK
  <2>3. NamesInv'
    <3>1. CASE writing' = writing
      BY <1>1, <1>4, <2>1, <2>2, <3>1 DEF NamesInv, FilesInv, Listed, TypeOK
    <3>2. CASE writing' = writing \ {w}
      BY <1>1, <1>4, <2>1, <2>2, <3>2 DEF NamesInv, FilesInv, Listed, TypeOK
    <3> QED
      BY <1>1, <3>1, <3>2
  <2>4. (FilesInv /\ WalkInv /\ JobInv)'
    BY <1>1, <1>4, <2>2 DEF FilesInv, WalkInv, JobInv, JobsDone, Early
  <2> QED
    BY <2>3, <2>4
<1>5. CASE phase = "writeMakefile"
  <2>1. w = Write("Makefile", Listed(tree))
    BY <1>5 DEF NamesInv
  <2>2. \A f \in {"tree", "deps", "names"} : file'[f] = file[f]
    BY <1>1, <2>1 DEF TypeOK
  <2> QED
    BY <1>1, <1>5, <2>2 DEF FilesInv, WalkInv, NamesInv, JobInv, JobsDone, Early, Listed
<1> QED
  BY <1>2, <1>3, <1>4, <1>5

\* Every step keeps the inductive invariant.
LEMMA InvStep == IInv /\ TypeOK /\ [Next]_vars => IInv'
<1> SUFFICES ASSUME IInv, TypeOK, [Next]_vars PROVE IInv'
  OBVIOUS
<1>1. CASE Start \/ ReadTreeDependencies \/ ReadPkgNames
  BY <1>1, InvRead
<1>2. CASE Walk \/ TreeWritten
  BY <1>2, InvWalk
<1>3. CASE WalkFails \/ TreeNotWritten
  BY <1>3 DEF IInv, WalkFails, TreeNotWritten
<1>4. CASE DebianizeTree
  BY <1>4, InvDebianizeTree
<1>5. CASE Fail \/ Crash \/ MakefileWritten
  BY <1>5, InvEnd DEF Fail, Crash, MakefileWritten
<1>6. CASE FileStep
  BY <1>6, InvFile
<1>7. CASE JobStep
  BY <1>7, InvJob DEF JobStep
<1>8. CASE UpdatePkgNames \/ NamesWritten
  BY <1>8, InvNames
<1>9. CASE WriteMakefile \/ NotWritten
  BY <1>9, InvMakefile
<1>10. CASE \E n \in Names : LateAnswer(n)
  BY <1>10 DEF LateAnswer, IInv, FilesInv
<1>11. CASE UNCHANGED vars
  BY <1>11, InvStutter DEF vars, tracked, memoryVars, walkVars, nameVars, jobVars
<1> QED
  BY <1>1, <1>2, <1>3, <1>4, <1>5, <1>6, <1>7, <1>8, <1>9, <1>10, <1>11 DEF Next, Work

\* The inductive invariant holds throughout.
LEMMA InvCorrect == Spec => []IInv
  BY InvInit, InvStep, TypeCorrect, PTL DEF Spec

-----------------------------------------------------------------------------
\* NamesAgree is an invariant: whatever crashes or failures cut short, a
\* pkgnames.json that parses names the packages of the other two files.
THEOREM NamesAgreeCorrect == Spec => []NamesAgree
<1>1. IInv => NamesAgree
  BY DEF IInv, NamesInv, NamesAgree
<1> QED
  BY <1>1, InvCorrect, PTL

\* NamesFound is an invariant: no lookup of writeMakefile fails, whether its
\* files come from this run or from runs before a crash.
THEOREM NamesFoundCorrect == Spec => []NamesFound
<1>1. IInv => NamesFound
  BY DEF IInv, FilesInv, NamesInv, NamesFound, LookupsSucceed, Listed
<1> QED
  BY <1>1, InvCorrect, PTL

\* NamesAreFinal: once pkgnames.json is complete, no step of any run changes
\* one of the three files or the directory of a package.
THEOREM NamesAreFinalCorrect == Spec => NamesAreFinal
<1> DEFINE Final == Readable("names") /\ ~fellThrough =>
                      /\ \A f \in {"tree", "deps", "names"} : file'[f] = file[f]
                      /\ dir' = dir
<1>1. IInv /\ TypeOK /\ [Next]_vars => [Final]_vars
  <2> SUFFICES ASSUME IInv, TypeOK, Next, Readable("names"), ~fellThrough
               PROVE  /\ \A f \in {"tree", "deps", "names"} : file'[f] = file[f]
                      /\ dir' = dir
    OBVIOUS
  <2>1. FilesInv /\ WalkInv /\ NamesInv /\ JobInv
    BY DEF IInv
  <2>2. CASE FileStep
    <3> SUFFICES ASSUME NEW w \in writing, OpenFile(w) \/ CloseFile(w)
                 PROVE  /\ \A f \in {"tree", "deps", "names"} : file'[f] = file[f]
                        /\ dir' = dir
      BY <2>2 DEF FileStep
    <3>1. phase = "writeMakefile"
      BY <2>1 DEF FilesInv, WalkInv, NamesInv
    <3>2. w.file = "Makefile"
      BY <2>1, <3>1 DEF NamesInv
    <3> QED
      BY <3>2 DEF OpenFile, CloseFile, TypeOK, jobVars
  <2>3. CASE JobStep
    BY <2>3, InvJob DEF JobStep
  <2>4. CASE ~FileStep /\ ~JobStep
    BY <2>4 DEF Next, Work, Start, ReadTreeDependencies, Walk, WalkFails, TreeWritten,
                TreeNotWritten, ReadPkgNames, DebianizeTree, Fail, UpdatePkgNames,
                NamesWritten, WriteMakefile, MakefileWritten, NotWritten, LateAnswer,
                Crash, End, jobVars
  <2> QED
    BY <2>2, <2>3, <2>4
<1> QED
  BY <1>1, InvCorrect, TypeCorrect, PTL DEF Spec, NamesAreFinal

-----------------------------------------------------------------------------
(* What has been built. *)

\* Package n has its whole source directory, or was logged as failed.
Built(n) == dir[n] = "complete" \/ n \in missed

\* Names stand for packages that are built: they are written only when every
\* debianization has settled, and directories are left alone from then on.
BuildInv ==
  /\ Readable("names") => \A n \in file["names"].packages : Built(n)
  /\ phase = "writeNames" => \A n \in deps : Built(n)
  /\ \A n \in Names : job[n] = "settled" => Built(n)
  /\ phase = "debianize" => \A n \in Listed(tree) : job[n] # "none"
  /\ phase = "writeMakefile" =>
       BeingWritten("Makefile") \/ file["Makefile"] = Whole(Listed(tree))
  /\ result = "success" =>
       phase = "idle" /\ \A n \in file["Makefile"].packages : Built(n)

BInv == ~fellThrough => BuildInv

\* A step of a debianization settles it only with its directory whole or its
\* failure logged, and touches no other package.
LEMMA BuildJob ==
  ASSUME IInv, BInv, TypeOK, NEW n \in Names,
         CacheAdd(n) \/ Clear(n) \/ Unpack(n) \/ MakeDebian(n) \/ JobFails(n)
  PROVE  BInv'
<1> SUFFICES ASSUME ~fellThrough, BuildInv PROVE BuildInv'
  BY DEF BInv, CacheAdd, Clear, Unpack, MakeDebian, JobFails
<1>1. ~Readable("names") /\ phase \in {"debianize", "failing"}
  BY InvJob DEF CacheAdd, Clear, Unpack, MakeDebian, JobFails, Debianizing
<1>2. UNCHANGED <<phase, result, file, writing, tree, deps>>
  BY DEF CacheAdd, Clear, Unpack, MakeDebian, JobFails, memoryVars, walkVars
<1>3. \A m \in Names \ {n} :
        /\ job'[m] = job[m] /\ dir'[m] = dir[m]
        /\ m \in missed' <=> m \in missed
  <2>1. CASE CacheAdd(n) \/ Clear(n) \/ Unpack(n)
    BY <2>1 DEF CacheAdd, Clear, Unpack, Goto, TypeOK
  <2>2. CASE MakeDebian(n) \/ JobFails(n)
    BY <2>2 DEF MakeDebian, JobFails, Goto, TypeOK
  <2> QED
    BY <2>1, <2>2
<1>4. /\ job'[n] # "none"
      /\ job'[n] = "settled" => dir'[n] = "complete" \/ n \in missed'
  <2>1. CASE CacheAdd(n) \/ Clear(n) \/ Unpack(n)
    BY <2>1 DEF CacheAdd, Clear, Unpack, Goto, TypeOK
  <2>2. CASE MakeDebian(n) \/ JobFails(n)
    BY <2>2 DEF MakeDebian, JobFails, Goto, TypeOK
  <2> QED
    BY <2>1, <2>2
<1>5. result # "success"
  BY <1>1 DEF BuildInv
<1>6. \A m \in Names : job'[m] = "settled" => Built(m)'
  BY <1>3, <1>4 DEF BuildInv, Built
<1>7. phase' = "debianize" => \A m \in Listed(tree') : job'[m] # "none"
  BY <1>2, <1>3, <1>4 DEF BuildInv, Listed, TypeOK
<1> QED
  BY <1>1, <1>2, <1>5, <1>6, <1>7 DEF BuildInv

\* The end of a run: it succeeds only when the Makefile stands for packages
\* that are built.
LEMMA BuildEnd ==
  ASSUME IInv, BInv, TypeOK, Fail \/ Crash \/ MakefileWritten
  PROVE  BInv'
<1> SUFFICES ASSUME ~fellThrough, BuildInv, FilesInv, NamesInv PROVE BuildInv'
  BY DEF BInv, IInv, Fail, Crash, MakefileWritten
<1>1. /\ UNCHANGED <<file, dir, missed>> /\ phase' = "idle"
      /\ \A n \in Names : job'[n] = "none"
  BY DEF Fail, Crash, MakefileWritten, End
<1>2. result' = "success" => \A n \in file["Makefile"].packages : Built(n)
  <2>1. CASE MakefileWritten
    <3>1. phase = "writeMakefile" /\ ~BeingWritten("Makefile")
      BY <2>1 DEF MakefileWritten
    <3>2. file["Makefile"] = Whole(Listed(tree))
      BY <3>1 DEF BuildInv
    <3>3. Readable("names") /\ file["names"].packages = Listed(tree)
      BY <3>1 DEF FilesInv, NamesInv
    <3> QED
      BY <3>2, <3>3 DEF BuildInv
  <2>2. CASE Fail \/ Crash
    BY <2>2 DEF Fail, Crash, End
  <2> QED
    BY <2>1, <2>2
<1> QED
  BY <1>1, <1>2 DEF BuildInv, Built

\* A step of writeFile: when the names are whole their packages are built.
LEMMA BuildFile == ASSUME IInv, BInv, TypeOK, FileStep PROVE BInv'
<1> SUFFICES ASSUME ~fellThrough, BuildInv, FilesInv, WalkInv, NamesInv,
                    NEW w \in writing, OpenFile(w) \/ CloseFile(w)
             PROVE  BuildInv'
  BY DEF BInv, IInv, FileStep, OpenFile, CloseFile
<1>1. /\ UNCHANGED <<phase, result, tree, deps, job, dir, missed>>
      /\ w.file \in Files
      /\ \/ /\ file[w.file] # Torn /\ writing' = writing
            /\ file' = [file EXCEPT ![w.file] = Torn]
         \/ /\ file[w.file] = Torn /\ writing' = writing \ {w}
            /\ file' = [file EXCEPT ![w.file] = Whole(w.packages)]
  BY DEF OpenFile, CloseFile, TypeOK, memoryVars, walkVars, jobVars
<1>2. phase \in {"writeTree", "writeNames", "writeMakefile"}
  BY DEF FilesInv
<1>3. result # "success"
  BY <1>2 DEF BuildInv
<1>4. \A n : Built(n)' <=> Built(n)
  BY <1>1 DEF Built
<1>5. Readable("names")' => \A n \in file'["names"].packages : Built(n)
  <2>1. CASE phase = "writeTree"
    BY <1>1, <2>1 DEF WalkInv, BuildInv, TypeOK
  <2>2. CASE phase = "writeNames"
    <3>1. w = Write("names", deps)
      BY <2>2 DEF NamesInv
    <3> QED
      BY <1>1, <2>2, <3>1 DEF BuildInv, TypeOK
  <2>3. CASE phase = "writeMakefile"
    <3>1. w = Write("Makefile", Listed(tree))
      BY <2>3 DEF NamesInv
    <3> QED
      BY <1>1, <3>1 DEF BuildInv, TypeOK
  <2> QED
    BY <1>2, <2>1, <2>2, <2>3
<1>6. phase = "writeMakefile" =>
        BeingWritten("Makefile")' \/ file'["Makefile"] = Whole(Listed(tree))
  <2> SUFFICES ASSUME phase = "writeMakefile"
               PROVE  BeingWritten("Makefile")' \/ file'["Makefile"] = Whole(Listed(tree))
    OBVIOUS
  <2>1. w = Write("Makefile", Listed(tree))
    BY DEF NamesInv
  <2> QED
    BY <1>1, <2>1 DEF TypeOK
<1> QED
  BY <1>1, <1>2, <1>3, <1>4, <1>5, <1>6 DEF BuildInv, Listed

\* execute() itself: the names are about to be written when every package
\* listed has settled.
LEMMA BuildPhase ==
  ASSUME IInv, BInv, TypeOK,
         \/ Start \/ ReadTreeDependencies \/ ReadPkgNames \/ Walk \/ TreeWritten
         \/ DebianizeTree \/ UpdatePkgNames \/ NamesWritten \/ WriteMakefile
         \/ NotWritten
  PROVE  BInv'
<1> SUFFICES ASSUME ~fellThrough, BuildInv, FilesInv, NamesInv, JobInv PROVE BuildInv'
  BY DEF BInv, IInv, Start, ReadTreeDependencies, ReadPkgNames, Walk, TreeWritten,
         DebianizeTree, UpdatePkgNames, NamesWritten, WriteMakefile, NotWritten
<1> USE DEF memoryVars, walkVars, nameVars, jobVars
<1>1. UNCHANGED <<file, dir, missed>> /\ result' # "success"
  BY DEF BuildInv, Start, ReadTreeDependencies, ReadPkgNames, Walk, TreeWritten,
         DebianizeTree, UpdatePkgNames, NamesWritten, WriteMakefile, NotWritten
<1>2. CASE \/ Start \/ ReadTreeDependencies \/ ReadPkgNames \/ Walk \/ TreeWritten
           \/ NamesWritten \/ NotWritten
  BY <1>1, <1>2 DEF BuildInv, Built, Start, ReadTreeDependencies, ReadPkgNames, Walk,
                    TreeWritten, NamesWritten, NotWritten
<1>3. CASE DebianizeTree
  <2>1. \A n \in Names : job'[n] # "settled"
    BY <1>3 DEF DebianizeTree, Schedule
  <2>2. phase' = "debianize" => \A n \in Listed(tree') : job'[n] # "none"
    BY <1>3 DEF DebianizeTree, Schedule, Listed, TypeOK
  <2>3. phase' \notin {"writeNames", "writeMakefile"}
    BY <1>3 DEF DebianizeTree
  <2> QED
    BY <1>1, <2>1, <2>2, <2>3 DEF BuildInv, Built
<1>4. CASE UpdatePkgNames
  <2>1. UNCHANGED <<deps, job>> /\ phase' \in {"writeNames", "failing"}
        /\ (phase' = "writeNames" => deps \subseteq recorded)
    BY <1>4 DEF UpdatePkgNames
  <2>2. \A n \in recorded : job[n] = "settled"
    BY <1>4 DEF UpdatePkgNames, JobInv, JobsDone, TypeOK
  <2>3. recorded \subseteq Names
    BY DEF TypeOK
  <2> QED
    BY <1>1, <2>1, <2>2, <2>3 DEF BuildInv, Built
<1>5. CASE WriteMakefile
  <2>1. UNCHANGED <<tree, job>> /\ phase' \in {"writeMakefile", "failing"}
        /\ (phase' = "writeMakefile" =>
              writing' = writing \union {Write("Makefile", Listed(tree))})
    BY <1>5 DEF WriteMakefile
  <2>2. phase' = "writeMakefile" => \E w \in writing' : w.file = "Makefile"
    <3>1. Write("Makefile", Listed(tree)).file = "Makefile"
      OBVIOUS
    <3> HIDE DEF Write
    <3> QED
      BY <2>1, <3>1
  <2> QED
    BY <1>1, <2>1, <2>2 DEF BuildInv, Built
<1> QED
  BY <1>2, <1>3, <1>4, <1>5

\* BuildInv holds as long as no failure has fallen through.
LEMMA BuildCorrect == Spec => []BInv
<1>1. Init => BInv
  BY DEF Init, Absent, BInv, BuildInv
<1>2. IInv /\ TypeOK /\ BInv /\ [Next]_vars => BInv'
  <2> SUFFICES ASSUME IInv, TypeOK, BInv, [Next]_vars PROVE BInv'
    OBVIOUS
  <2>1. CASE \/ Start \/ ReadTreeDependencies \/ ReadPkgNames \/ Walk \/ TreeWritten
             \/ DebianizeTree \/ UpdatePkgNames \/ NamesWritten \/ WriteMakefile
             \/ NotWritten
    BY <2>1, BuildPhase
  <2>2. CASE WalkFails \/ TreeNotWritten
    BY <2>2 DEF BInv, WalkFails, TreeNotWritten
  <2>3. CASE Fail \/ Crash \/ MakefileWritten
    BY <2>3, BuildEnd
  <2>4. CASE FileStep
    BY <2>4, BuildFile
  <2>5. CASE JobStep
    BY <2>5, BuildJob DEF JobStep
  <2>6. CASE \E n \in Names : LateAnswer(n)
    BY <2>6 DEF LateAnswer, IInv, FilesInv, BInv
  <2>7. CASE UNCHANGED vars
    BY <2>7 DEF vars, memoryVars, walkVars, jobVars, BInv, BuildInv, Built, Listed
  <2> QED
    BY <2>1, <2>2, <2>3, <2>4, <2>5, <2>6, <2>7 DEF Next, Work
<1> QED
  BY <1>1, <1>2, InvCorrect, TypeCorrect, PTL DEF Spec

\* BuiltUnlessMissed: after a run that succeeded, whatever crashed before it,
\* every package of the Makefile has its whole source directory or was logged
\* as failed; a directory that a crash left half made is never taken for done.
THEOREM BuiltCorrect == Spec => []BuiltUnlessMissed
<1>1. BInv => BuiltUnlessMissed
  BY DEF BInv, BuildInv, Built, BuiltUnlessMissed
<1> QED
  BY <1>1, BuildCorrect, PTL
=============================================================================
