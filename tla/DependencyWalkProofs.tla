------------------------ MODULE DependencyWalkProofs ------------------------
(***************************************************************************)
(* Proofs about DependencyWalk, for every registry: the depths listed have *)
(* no gap, a walk that ends well is closed under dependencies, and only    *)
(* the target can be listed twice.                                         *)
(***************************************************************************)
EXTENDS DependencyWalk, TLAPS

\* The type invariant is inductive (lines 158-204).
LEMMA TypeStep == TypeOK /\ [Next]_vars => TypeOK'
<1> SUFFICES ASSUME TypeOK, [Next]_vars PROVE TypeOK'
  OBVIOUS
<1> USE DEF TypeOK
<1>d. DepthOfAnswer \in Nat
  BY DEF DepthOfAnswer
<1>1. ASSUME NEW name \in Names, Answer(name) PROVE TypeOK'
  <2>1. tree' = tree \union {<<DepthOfAnswer, name>>} /\ maxDepth' \in Nat
    BY <1>1, <1>d DEF Answer, ProcessDesc, RecordLevel
  <2>2. alreadyQueued' \in [Names -> Nat] /\ currentDepth' \in Nat
    BY <1>1, <1>d DEF Answer, ProcessDesc
  <2>3. dependencies' \subseteq Names /\ pending' \subseteq Names
    BY <1>1 DEF Answer, ProcessDesc, ToRequest, Fresh
  <2>4. registry' = registry /\ failed' = failed
    BY <1>1 DEF Answer
  <2> QED BY <1>d, <2>1, <2>2, <2>3, <2>4
<1>2. ASSUME NEW name \in Names, FaultyAnswer(name) PROVE TypeOK'
  BY <1>2, <1>d DEF FaultyAnswer, RecordLevel
<1>3. ASSUME NEW name \in Names, RequestError(name) \/ Unparsable(name) PROVE TypeOK'
  BY <1>3 DEF RequestError, Unparsable
<1>4. CASE UNCHANGED vars
  BY <1>4 DEF vars
<1> QED BY <1>1, <1>2, <1>3, <1>4 DEF Next, Resolve, Idle

\* The variables of the walk (lines 206-212) keep their types.
THEOREM TypeCorrect == Spec => []TypeOK
<1>1. ASSUME Init PROVE TypeOK
  <2>1. registry \in [Names -> SUBSET Names]
    BY <1>1, WalkAssumption DEF Init
  <2>2. alreadyQueued \in [Names -> Nat]
    BY <1>1 DEF Init
  <2>3. pending \subseteq Names
    BY <1>1, WalkAssumption DEF Init
  <2>4. tree = {} /\ maxDepth = 0 /\ dependencies = {} /\ currentDepth = 0 /\ failed = FALSE
    BY <1>1 DEF Init
  <2> QED BY <2>1, <2>2, <2>3, <2>4 DEF TypeOK
<1> QED BY <1>1, TypeStep, PTL DEF Spec

-----------------------------------------------------------------------------
\* Before the first answer nothing is listed; a bad first answer ends the walk.
AtTarget == dependencies = {} => pending \subseteq {Root} /\ (tree = {} \/ pending = {})

\* currentDepth is the depth of the last package listed or the next one, so
\* that an answer lists its package at a depth already reached or just below.
NextLevel ==
  IF tree = {}
  THEN dependencies = {} /\ maxDepth = 0 /\ currentDepth = 0
  ELSE /\ {p[1] : p \in tree} = 0..maxDepth
       /\ currentDepth \in {maxDepth, maxDepth + 1}

LevelInv == AtTarget /\ NextLevel

\* An answer lists its package either at a depth reached before or at the one
\* that follows.
LEMMA RecordStep ==
  ASSUME TypeOK, LevelInv, NEW name \in pending, RecordLevel(name, DepthOfAnswer)
  PROVE  /\ tree' # {}
         /\ {p[1] : p \in tree'} = 0..maxDepth'
         /\ maxDepth' = DepthOfAnswer
<1> DEFINE depth == DepthOfAnswer
<1>0. tree' = tree \union {<<depth, name>>} /\ depth \in Nat /\ maxDepth \in Nat
  BY DEF RecordLevel, DepthOfAnswer, TypeOK
<1>1. {p[1] : p \in tree'} = {p[1] : p \in tree} \union {depth}
  <2>1. \A p \in tree' : p \in tree \/ p[1] = depth
    BY <1>0
  <2>2. <<depth, name>> \in tree' /\ <<depth, name>>[1] = depth
    BY <1>0
  <2>3. tree \subseteq tree'
    BY <1>0
  <2>4. ASSUME NEW e \in {p[1] : p \in tree'} PROVE e \in {p[1] : p \in tree} \union {depth}
    BY <2>1, <2>4
  <2>5. ASSUME NEW e \in {p[1] : p \in tree} PROVE e \in {p[1] : p \in tree'}
    BY <2>3, <2>5
  <2>6. depth \in {p[1] : p \in tree'}
    BY <2>2
  <2> QED BY <2>4, <2>5, <2>6
<1>2. CASE tree = {}
  <2>1. depth = 0 /\ maxDepth' = 0
    BY <1>2 DEF LevelInv, NextLevel, DepthOfAnswer, RecordLevel
  <2> QED BY <1>0, <1>1, <1>2, <2>1
<1>3. CASE tree # {}
  <2>1. depth = currentDepth
    BY <1>3 DEF LevelInv, AtTarget, DepthOfAnswer
  <2>2. Listed(depth) <=> depth \in {p[1] : p \in tree}
    <3>1. \A p \in tree : p \in Nat \X Names
      BY DEF TypeOK
    <3>2. ASSUME NEW p \in tree, p[1] = depth PROVE Listed(depth)
      <4>1. p = <<depth, p[2]>> /\ p[2] \in Names
        BY <3>1, <3>2
      <4> QED BY <4>1 DEF Listed
    <3>3. ASSUME NEW n \in Names, <<depth, n>> \in tree
          PROVE depth \in {p[1] : p \in tree}
      BY <3>3
    <3> QED BY <3>2, <3>3 DEF Listed
  <2>3. {p[1] : p \in tree} = 0..maxDepth /\ depth \in {maxDepth, maxDepth + 1}
    BY <1>3, <2>1 DEF LevelInv, NextLevel
  <2>4. maxDepth' = depth
    BY <1>0, <2>2, <2>3 DEF RecordLevel
  <2>5. (0..maxDepth) \union {depth} = 0..depth
    <3>1. CASE depth = maxDepth
      BY <1>0, <3>1
    <3>2. CASE depth = maxDepth + 1
      BY <1>0, <3>2
    <3> QED BY <2>3, <3>1, <3>2
  <2>6. {p[1] : p \in tree'} = 0..maxDepth'
    BY <1>1, <2>3, <2>4, <2>5
  <2> QED BY <1>0, <2>4, <2>6
<1> QED BY <1>2, <1>3

\* LevelInv is inductive: only answers move currentDepth, by one at most.
LEMMA LevelStep == TypeOK /\ LevelInv /\ [Next]_vars => LevelInv'
<1> SUFFICES ASSUME TypeOK, LevelInv, [Next]_vars PROVE LevelInv'
  OBVIOUS
<1>d. DepthOfAnswer \in Nat
  BY DEF DepthOfAnswer, TypeOK
<1>1. ASSUME NEW name \in Names, Answer(name) PROVE LevelInv'
  <2>1. name \in pending /\ RecordLevel(name, DepthOfAnswer)
    BY <1>1 DEF Answer, ProcessDesc
  <2>2. dependencies' # {}
    BY <1>1 DEF Answer, ProcessDesc
  <2>3. currentDepth' \in {currentDepth, DepthOfAnswer + 1}
    BY <1>1 DEF Answer, ProcessDesc
  <2>4. currentDepth = DepthOfAnswer
    BY <2>1 DEF LevelInv, AtTarget, NextLevel, DepthOfAnswer
  <2> QED BY <2>1, <2>2, <2>3, <2>4, RecordStep DEF LevelInv, AtTarget, NextLevel
<1>2. ASSUME NEW name \in Names, FaultyAnswer(name) PROVE LevelInv'
  <2>1. name \in pending /\ RecordLevel(name, DepthOfAnswer)
    BY <1>2 DEF FaultyAnswer
  <2>2. /\ dependencies' = dependencies /\ currentDepth' = currentDepth
        /\ pending' = pending \ {name}
    BY <1>2 DEF FaultyAnswer
  <2>3. currentDepth = DepthOfAnswer
    BY <2>1 DEF LevelInv, AtTarget, NextLevel, DepthOfAnswer
  <2> QED BY <2>1, <2>2, <2>3, RecordStep DEF LevelInv, AtTarget, NextLevel
<1>3. ASSUME NEW name \in Names, RequestError(name) \/ Unparsable(name) PROVE LevelInv'
  BY <1>3 DEF RequestError, Unparsable, LevelInv, AtTarget, NextLevel
<1>4. CASE UNCHANGED vars
  BY <1>4 DEF vars, LevelInv, AtTarget, NextLevel
<1> QED BY <1>1, <1>2, <1>3, <1>4 DEF Next, Resolve, Idle

\* However the answers are ordered, debianizeTree (lines 86-89) and
\* writeMakefile (lines 242-245) find every depth up to maxDepth.
THEOREM LevelsCorrect == Spec => []LevelsContiguous
<1>1. Init => LevelInv
  BY DEF Init, LevelInv, AtTarget, NextLevel
<1>2. LevelInv => LevelsContiguous
  BY DEF LevelInv, NextLevel, LevelsContiguous
<1> QED BY <1>1, <1>2, LevelStep, TypeCorrect, PTL DEF Spec

-----------------------------------------------------------------------------
Queued == {d \in Names : alreadyQueued[d] # 0}

\* What has been queued has been described or will be.
ClosedInv ==
  /\ \A n \in dependencies : registry[n] \subseteq Queued
  /\ ~failed => Queued \union {Root} \subseteq dependencies \union pending

\* ClosedInv is inductive.
LEMMA ClosedStep == TypeOK /\ ClosedInv /\ [Next]_vars => ClosedInv'
<1> SUFFICES ASSUME TypeOK, ClosedInv, [Next]_vars PROVE ClosedInv'
  OBVIOUS
<1>1. ASSUME NEW name \in Names, Answer(name) PROVE ClosedInv'
  <2>1. DepthOfAnswer \in Nat /\ \A d \in Names : alreadyQueued[d] \in Nat
    BY DEF TypeOK, DepthOfAnswer
  <2>2. Queued' = Queued \union registry[name]
    <3>1. \A d \in Names : alreadyQueued'[d] = IF d \in registry[name]
             /\ alreadyQueued[d] < DepthOfAnswer + 1
             THEN DepthOfAnswer + 1 ELSE alreadyQueued[d]
      BY <1>1 DEF Answer, ProcessDesc
    <3>2. \A d \in Names : alreadyQueued'[d] # 0
             <=> d \in registry[name] \/ alreadyQueued[d] # 0
      BY <2>1, <3>1
    <3>3. registry[name] \subseteq Names
      BY DEF TypeOK
    <3> QED BY <3>2, <3>3 DEF Queued
  <2>3. /\ registry' = registry /\ failed' = failed
        /\ dependencies' = dependencies \union {name}
        /\ pending' = (pending \ {name}) \union Fresh(name)
    BY <1>1 DEF Answer, ProcessDesc, ToRequest
  <2>4. registry[name] \subseteq Queued \union Fresh(name)
    BY DEF Queued, Fresh, TypeOK
  <2> QED BY <2>2, <2>3, <2>4 DEF ClosedInv
<1>2. ASSUME NEW name \in Names,
             FaultyAnswer(name) \/ RequestError(name) \/ Unparsable(name)
      PROVE ClosedInv'
  BY <1>2 DEF FaultyAnswer, RequestError, Unparsable, ClosedInv, Queued
<1>3. CASE UNCHANGED vars
  BY <1>3 DEF vars, ClosedInv, Queued
<1> QED BY <1>1, <1>2, <1>3 DEF Next, Resolve, Idle

\* When the walk has ended well, writeMakefile (lines 255-260) finds the
\* package name of every dependency.
THEOREM WalkCorrect == Spec => []WalkClosed
<1>1. Init => ClosedInv
  BY DEF Init, ClosedInv, Queued
<1>2. ClosedInv => WalkClosed
  BY DEF ClosedInv, WalkClosed, Ended
<1> QED BY <1>1, <1>2, ClosedStep, TypeCorrect, PTL DEF Spec

-----------------------------------------------------------------------------
\* Packages other than the target are listed once, when their only request is
\* answered.
OnceInv ==
  /\ \A n \in pending \ {Root} : alreadyQueued[n] # 0
  /\ \A p \in tree : p[2] # Root => alreadyQueued[p[2]] # 0 /\ p[2] \notin pending
  /\ ListedOnce

\* Listing the package of an answered request lists no other one again.
LEMMA ListStep ==
  ASSUME TypeOK, OnceInv, NEW name \in pending, RecordLevel(name, DepthOfAnswer)
  PROVE  /\ \A p \in tree' : p \in tree \/ p[2] = name
         /\ ListedOnce'
<1>1. tree' = tree \union {<<DepthOfAnswer, name>>}
  BY DEF RecordLevel
<1>2. \A p \in tree : p[2] = name => name = Root
  BY DEF OnceInv
<1> QED BY <1>1, <1>2 DEF OnceInv, ListedOnce

\* OnceInv is inductive.
LEMMA OnceStep == TypeOK /\ OnceInv /\ [Next]_vars => OnceInv'
<1> SUFFICES ASSUME TypeOK, OnceInv, [Next]_vars PROVE OnceInv'
  OBVIOUS
<1>t. \A p \in tree : p[2] \in Names
  BY DEF TypeOK
<1>1. ASSUME NEW name \in Names, Answer(name) PROVE OnceInv'
  <2>1. name \in pending /\ RecordLevel(name, DepthOfAnswer)
    BY <1>1 DEF Answer, ProcessDesc
  <2>2. pending' = (pending \ {name}) \union Fresh(name)
    BY <1>1 DEF Answer, ProcessDesc, ToRequest
  <2>3. \A d \in Names : alreadyQueued[d] # 0 \/ d \in Fresh(name) => alreadyQueued'[d] # 0
    <3>1. DepthOfAnswer \in Nat /\ \A d \in Names : alreadyQueued[d] \in Nat
      BY DEF TypeOK, DepthOfAnswer
    <3>2. \A d \in Names : alreadyQueued'[d] = IF d \in registry[name]
             /\ alreadyQueued[d] < DepthOfAnswer + 1
             THEN DepthOfAnswer + 1 ELSE alreadyQueued[d]
      BY <1>1 DEF Answer, ProcessDesc
    <3> QED BY <3>1, <3>2 DEF Fresh
  <2>4. \A d \in Fresh(name) : d \in Names /\ alreadyQueued[d] = 0
    BY DEF Fresh, TypeOK
  <2>5. pending \subseteq Names
    BY DEF TypeOK
  <2>6. \A n \in pending' \ {Root} : alreadyQueued'[n] # 0
    BY <2>2, <2>3, <2>4, <2>5 DEF OnceInv
  <2>7. \A p \in tree' : p[2] # Root => alreadyQueued'[p[2]] # 0 /\ p[2] \notin pending'
    BY <1>t, <2>1, <2>2, <2>3, <2>4, <2>5, ListStep DEF OnceInv
  <2> QED BY <2>1, <2>6, <2>7, ListStep DEF OnceInv
<1>2. ASSUME NEW name \in Names, FaultyAnswer(name) PROVE OnceInv'
  <2>1. name \in pending /\ RecordLevel(name, DepthOfAnswer)
    BY <1>2 DEF FaultyAnswer
  <2>2. pending' = pending \ {name} /\ alreadyQueued' = alreadyQueued
    BY <1>2 DEF FaultyAnswer
  <2> QED BY <2>1, <2>2, ListStep DEF OnceInv
<1>3. ASSUME NEW name \in Names, RequestError(name) \/ Unparsable(name) PROVE OnceInv'
  BY <1>3 DEF RequestError, Unparsable, OnceInv, ListedOnce
<1>4. CASE UNCHANGED vars
  BY <1>4 DEF vars, OnceInv, ListedOnce
<1> QED BY <1>1, <1>2, <1>3, <1>4 DEF Next, Resolve, Idle

\* No package but the target is listed twice, whatever cycles the registry has
\* (lines 189-196).
THEOREM ListedOnceCorrect == Spec => []ListedOnce
<1>1. Init => OnceInv
  BY DEF Init, OnceInv, ListedOnce
<1>2. OnceInv => ListedOnce
  BY DEF OnceInv
<1> QED BY <1>1, <1>2, OnceStep, TypeCorrect, PTL DEF Spec
=============================================================================
