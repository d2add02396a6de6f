------------------------ MODULE SemverToDebianProofs ------------------------
(***************************************************************************)
(* Theorems about the conversion of semver's ranges, for any set of        *)
(* versions and any fields.                                                *)
(***************************************************************************)
EXTENDS SemverToDebian, TLAPS

\* A comparator and the relation made of it hold for the same versions.
LEMMA EdgeMeaning ==
  ASSUME NEW c \in Comparators, NEW v \in Versions
  PROVE  Meets(v, Edge(c)) <=> Meets(v, c)
<1>1. CASE c = Any
  BY <1>1 DEF Meets, Edge
<1>2. CASE c # Any
  <2>1. c \in [op : {"", "<", "<=", ">", ">="}, version : Versions]
    BY <1>2 DEF Comparators
  <2>2. PICK o \in {"", "<", "<=", ">", ">="}, w \in Versions : c = [op |-> o, version |-> w]
    BY <2>1
  <2>3. /\ Edge(c).version = w
        /\ Edge(c).op = CASE o = "" -> "=" [] o = "<" -> "<<" [] o = ">" -> ">>" [] OTHER -> o
    BY <1>2, <2>2 DEF Edge
  <2>4. Edge(c) # Any
    <3>1. Edge(c) \in [op : Operators, version : Versions]
      BY <1>2, <2>2 DEF Edge, Operators
    <3> QED BY <3>1, SemverAssumption
  <2>5. Compare(Edge(c).op, v, w) <=> Compare(o, v, w)
    BY <2>3 DEF Compare
  <2> QED BY <1>2, <2>2, <2>3, <2>4, <2>5 DEF Meets
<1> QED BY <1>1, <1>2

\* What was written into the control file is the conversion of the field.
Converted ==
  /\ engines \in SUBSET SUBSET Comparators
  /\ depends # {} => depends = semverToDebian(engines)

\* The relation is only ever written by the conversion of the field.
LEMMA ConvertedInvariant == Spec => []Converted
<1>1. Init => Converted
  BY SemverAssumption DEF Init, Converted
<1>2. Converted /\ [Next]_vars => Converted'
  BY DEF Converted, Next, ReadPackage, vars
<1> QED BY <1>1, <1>2, PTL DEF Spec

\* cli.js:363-384: a package is never made impossible to install for a version
\* of node that npm accepts.
THEOREM InstallableCorrect == Spec => []Installable
<1>1. Converted => Installable
  <2> SUFFICES ASSUME Converted, depends # {}, {} \notin engines,
                      NEW v \in Versions, Accepted(v)
               PROVE  Satisfied(v)
    BY DEF Installable
  <2>1. depends = semverToDebian(engines)
    BY DEF Converted
  <2>2. CASE engines = {}
    BY <2>1, <2>2 DEF semverToDebian, Satisfied, Meets
  <2>3. CASE engines # {}
    <3>1. PICK range \in engines : \A c \in range : Meets(v, c)
      BY <2>3 DEF Accepted
    <3>2. PICK c \in range : c \in Comparators
      BY <3>1 DEF Converted
    <3>3. Edge(c) \in depends
      BY <2>1, <2>3, <3>1, <3>2 DEF semverToDebian
    <3>4. Meets(v, Edge(c))
      BY <3>1, <3>2, EdgeMeaning
    <3> QED BY <3>3, <3>4 DEF Satisfied
  <2> QED BY <2>2, <2>3
<1> QED BY <1>1, ConvertedInvariant, PTL

\* cli.js:369-383: the conversion is exact for fields whose ranges are single
\* comparators.
THEOREM ExactCorrect == Spec => []ExactForSingles
<1>1. Converted => ExactForSingles
  <2> SUFFICES ASSUME Converted, depends # {},
                      \A range \in engines : \E c \in range : range = {c},
                      NEW v \in Versions
               PROVE  Satisfied(v) <=> Accepted(v)
    BY DEF ExactForSingles
  <2>1. depends = semverToDebian(engines)
    BY DEF Converted
  <2>2. CASE engines = {}
    BY <2>1, <2>2 DEF semverToDebian, Satisfied, Meets, Accepted
  <2>3. CASE engines # {}
    <3>1. depends = {Edge(c) : c \in UNION engines}
      BY <2>1, <2>3 DEF semverToDebian
    <3>2. ASSUME NEW range \in engines
          PROVE  \E c \in Comparators : range = {c}
      BY DEF Converted
    <3>3. ASSUME Satisfied(v) PROVE Accepted(v)
      <4>1. PICK range \in engines : \E c \in range : Meets(v, Edge(c))
        BY <3>1, <3>3 DEF Satisfied
      <4>2. PICK c \in Comparators : range = {c}
        BY <3>2
      <4>3. Meets(v, c)
        BY <4>1, <4>2, EdgeMeaning
      <4> QED BY <4>2, <4>3 DEF Accepted
    <3>4. ASSUME Accepted(v) PROVE Satisfied(v)
      <4>1. PICK range \in engines : \A c \in range : Meets(v, c)
        BY <2>3, <3>4 DEF Accepted
      <4>2. PICK c \in Comparators : range = {c}
        BY <3>2
      <4>3. Meets(v, Edge(c)) /\ Edge(c) \in depends
        BY <3>1, <4>1, <4>2, EdgeMeaning
      <4> QED BY <4>3 DEF Satisfied
    <3> QED BY <3>3, <3>4
  <2> QED BY <2>2, <2>3
<1> QED BY <1>1, ConvertedInvariant, PTL
=============================================================================
