--------------------------- MODULE SemverToDebian ---------------------------
(***************************************************************************)
(* The dependency that npm2debian/lib/cli.js writes into debian/control    *)
(* for the versions of node (or npm) that a package accepts: semver's      *)
(* ranges turned into one Debian relation.                                 *)
(*                                                                         *)
(* A range is a set of comparators that must all hold, a field of engines  *)
(* a set of ranges of which one must.  semver.toComparators, which parses  *)
(* the field, is external, and so is what dpkg makes of a relation; both   *)
(* order the versions considered in the same way.                          *)
(***************************************************************************)
EXTENDS Integers

CONSTANTS
  Versions,   \* the versions, in their order
  Any,        \* the comparator '' and the relation without a version
  Fields      \* the fields considered, as sets of ranges

\* The operators of semver, then those dpkg has in their place.
Operators == {"", "<", "<=", ">", ">=", "=", "<<", ">>"}

Comparators == [op : {"", "<", "<=", ">", ">="}, version : Versions] \union {Any}

ASSUME SemverAssumption ==
  /\ Versions \subseteq Int
  /\ Any \notin [op : Operators, version : Versions]
  /\ Fields \subseteq SUBSET SUBSET Comparators

VARIABLES
  engines,  \* packageData.engines.node, parsed; {} when it is not given
  depends   \* ctx.depends: the alternatives joined by ' | '

vars == <<engines, depends>>

-----------------------------------------------------------------------------
\* Mutant of Edge: an empty comparator is written out like the others.
EdgeAlways(edge) ==
  [op |-> CASE edge = Any -> "=" [] edge.op = "" -> "=" [] edge.op = "<" -> "<<"
            [] edge.op = ">" -> ">>" [] OTHER -> edge.op,
   version |-> IF edge = Any THEN 0 ELSE edge.version]

\* Mutant of Edge: '<' and '>' stay, which dpkg takes for '<=' and '>='.
EdgeSingle(edge) ==
  IF edge = Any THEN Any
  ELSE [edge EXCEPT !.op = CASE @ = "" -> "=" [] @ = "<" -> "<=" [] @ = ">" -> ">=" [] OTHER -> @]

\* A comparator as a relation, by the replacements of lines 374-377.
Edge(edge) ==
  IF edge = Any THEN Any
  ELSE [edge EXCEPT !.op = CASE @ = "" -> "=" [] @ = "<" -> "<<" [] @ = ">" -> ">>" [] OTHER -> @]

\* The comparators of all ranges become alternatives, also those of one range.
semverToDebian(ranges) ==
  IF ranges = {} THEN {Any} ELSE {Edge(edge) : edge \in UNION ranges}

\* makeSourcePackage, once package.json is read.
ReadPackage ==
  /\ depends = {}
  /\ depends' = semverToDebian(engines)
  /\ UNCHANGED engines

Init == engines \in Fields /\ depends = {}

Next == ReadPackage

Spec == Init /\ [][Next]_vars

-----------------------------------------------------------------------------
(* What the two sides mean.                                                *)

Compare(op, v, w) ==
  CASE op \in {"", "="} -> v = w
    [] op \in {"<", "<<"} -> v < w
    [] op \in {">", ">>"} -> v > w
    [] op = "<=" -> v <= w
    [] op = ">=" -> v >= w

\* A version meets a comparator, or a relation.
Meets(v, c) == c = Any \/ Compare(c.op, v, c.version)

\* npm accepts a version.
Accepted(v) == engines = {} \/ \E range \in engines : \A c \in range : Meets(v, c)

\* dpkg finds the dependency satisfied by a version.
Satisfied(v) == \E relation \in depends : Meets(v, relation)

-----------------------------------------------------------------------------
(* Properties.                                                             *)

\* A version of node that npm accepts satisfies the Debian package's
\* dependency: the conversion never makes a package impossible to install.
\* (Ranges that hold something: toComparators leaves no empty one.)
Installable ==
  depends # {} /\ {} \notin engines => \A v \in Versions : Accepted(v) => Satisfied(v)

\* The two agree when no range has more than one comparator.  (They do not for
\* ">=0.4 <0.7": its two comparators become alternatives that every version
\* satisfies.)
ExactForSingles ==
  depends # {} /\ (\A range \in engines : \E c \in range : range = {c}) =>
    \A v \in Versions : Satisfied(v) <=> Accepted(v)
=============================================================================
