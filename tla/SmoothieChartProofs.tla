------------------------ MODULE SmoothieChartProofs ------------------------
(***************************************************************************)
(* Theorems about the chart of the oscilloscope's page, for every set of   *)
(* series, every size of the canvas and every clock: the types, that what  *)
(* crosses the chart is never deleted, and that every point is drawn, to   *)
(* the chart's scale.                                                      *)
(*                                                                         *)
(* The loops of smoothie.js (the bounds of a series, the scale of the      *)
(* chart, the deletion of old points) look for a greatest or a least       *)
(* number; that there is one is shown first.                               *)
(***************************************************************************)
EXTENDS SmoothieChart, TLAPS, FiniteSetTheorems, SequenceTheorems,
        WellFoundedInduction

-----------------------------------------------------------------------------
(* Greatest and least numbers.                                             *)

\* Every non-empty set of natural numbers has a least element.
LEMMA LeastNumber ==
  ASSUME NEW T \in SUBSET Nat, T # {}
  PROVE  \E n \in T : \A m \in T : n <= m
<1> DEFINE R == OpToRel(<, Nat)
<1>1. IsWellFoundedOn(R, Nat)
  BY NatLessThanWellFounded
<1>2. \A m, n \in Nat : m < n => <<m, n>> \in R
  BY DEF OpToRel
<1> HIDE DEF R
<1>3. PICK n \in T : \A m \in T : ~(<<m, n>> \in R)
  BY <1>1, WFMin
<1>4. ASSUME NEW m \in T PROVE n <= m
  <2>1. m \in Nat /\ n \in Nat
    OBVIOUS
  <2>2. ~(<<m, n>> \in R)
    BY <1>3
  <2>3. ~(m < n)
    BY <1>2, <2>1, <2>2, Zenon
  <2> QED BY <2>1, <2>3
<1> QED BY <1>4

\* Of finitely many numbers, some of which may be NaN, one is the greatest
\* unless all of them are NaN.
LEMMA GreatestAmong ==
  ASSUME NEW n \in Nat, NEW f \in [1..n -> Int \union {NaN}],
         NEW i \in 1..n, f[i] # NaN
  PROVE  \E k \in 1..n : f[k] # NaN /\ \A j \in 1..n : f[j] # NaN => f[j] <= f[k]
<1> DEFINE Good(m) == \/ \A j \in 1..m : f[j] = NaN
                      \/ \E k \in 1..m : /\ f[k] # NaN
                                         /\ \A j \in 1..m : f[j] # NaN => f[j] <= f[k]
           Bad == {m \in 0..n : ~Good(m)}
<1>1. SUFFICES Bad = {}
  <2>1. n \in 0..n
    OBVIOUS
  <2>2. Good(n)
    BY <1>1, <2>1
  <2> QED BY <2>2
<1>2. SUFFICES ASSUME Bad # {} PROVE FALSE
  OBVIOUS
<1>3. PICK m \in Bad : \A x \in Bad : m <= x
  <2>1. Bad \in SUBSET Nat
    OBVIOUS
  <2> HIDE DEF Bad
  <2> QED BY <1>2, <2>1, LeastNumber
<1>4. m \in 0..n /\ ~Good(m)
  OBVIOUS
<1>5. m # 0
  <2>1. \A j \in 1..0 : f[j] = NaN
    OBVIOUS
  <2> QED BY <1>4, <2>1
<1>6. m - 1 \in 0..n /\ m \in 1..n
  BY <1>4, <1>5
<1>7. Good(m - 1)
  <2>1. ~(m <= m - 1)
    BY <1>6
  <2>2. m - 1 \notin Bad
    BY <1>3, <2>1
  <2> QED BY <1>6, <2>2
<1>8. \A j \in 1..m : j = m \/ j \in 1..(m - 1)
  BY <1>6
<1>9. 1..(m - 1) \subseteq 1..m /\ m \in 1..m /\ 1..m \subseteq 1..n
  BY <1>6
<1>10. CASE \A j \in 1..(m - 1) : f[j] = NaN
  <2>1. CASE f[m] = NaN
    <3>1. \A j \in 1..m : f[j] = NaN
      BY <1>8, <1>10, <2>1
    <3> QED BY <1>4, <3>1
  <2>2. CASE f[m] # NaN
    <3>1. f[m] \in Int
      BY <1>6, <2>2
    <3>2. \A j \in 1..m : f[j] # NaN => f[j] <= f[m]
      BY <1>8, <1>10, <3>1
    <3> QED BY <1>4, <1>9, <2>2, <3>2
  <2> QED BY <2>1, <2>2
<1>11. CASE \E k \in 1..(m - 1) : /\ f[k] # NaN
                                  /\ \A j \in 1..(m - 1) : f[j] # NaN => f[j] <= f[k]
  <2>1. PICK k \in 1..(m - 1) : /\ f[k] # NaN
                                /\ \A j \in 1..(m - 1) : f[j] # NaN => f[j] <= f[k]
    BY <1>11
  <2>2. k \in 1..m /\ f[k] \in Int
    BY <1>9, <2>1
  <2>3. CASE f[m] = NaN \/ f[m] <= f[k]
    <3>1. \A j \in 1..m : f[j] # NaN => f[j] <= f[k]
      BY <1>8, <2>1, <2>3
    <3> QED BY <1>4, <2>1, <2>2, <3>1
  <2>4. CASE f[m] # NaN /\ ~(f[m] <= f[k])
    <3>1. f[m] \in Int
      BY <1>6, <2>4
    <3>2. \A j \in 1..m : f[j] # NaN => f[j] \in Int
      BY <1>9
    <3>3. \A j \in 1..m : f[j] # NaN => f[j] <= f[m]
      BY <1>8, <2>1, <2>2, <2>4, <3>1, <3>2
    <3> QED BY <1>4, <1>9, <2>4, <3>3
  <2> QED BY <2>3, <2>4
<1> QED BY <1>7, <1>10, <1>11

\* The same for the least.
LEMMA LeastAmong ==
  ASSUME NEW n \in Nat, NEW f \in [1..n -> Int \union {NaN}],
         NEW i \in 1..n, f[i] # NaN
  PROVE  \E k \in 1..n : f[k] # NaN /\ \A j \in 1..n : f[j] # NaN => f[k] <= f[j]
<1> DEFINE g == [j \in 1..n |-> IF f[j] = NaN THEN NaN ELSE 0 - f[j]]
<1>1. NaN \notin Int
  BY ChartAssumption
<1>2. \A j \in 1..n : f[j] # NaN => f[j] \in Int /\ 0 - f[j] \in Int
  OBVIOUS
<1>3. g \in [1..n -> Int \union {NaN}]
  BY <1>2
<1>4. \A j \in 1..n : /\ f[j] = NaN => g[j] = NaN
                      /\ f[j] # NaN => g[j] = 0 - f[j] /\ g[j] # NaN
  BY <1>1, <1>2
<1> HIDE DEF g
<1>5. PICK k \in 1..n : g[k] # NaN /\ \A j \in 1..n : g[j] # NaN => g[j] <= g[k]
  BY <1>3, <1>4, GreatestAmong
<1>6. f[k] # NaN
  BY <1>4, <1>5
<1>7. ASSUME NEW j \in 1..n, f[j] # NaN PROVE f[k] <= f[j]
  <2>1. g[j] <= g[k] /\ g[j] = 0 - f[j] /\ g[k] = 0 - f[k]
    BY <1>4, <1>5, <1>6, <1>7
  <2>2. f[j] \in Int /\ f[k] \in Int
    BY <1>2, <1>6, <1>7
  <2> QED BY <2>1, <2>2
<1> QED BY <1>6, <1>7

\* What Math.max makes of a list of numbers is one of them, and above them all.
LEMMA HighestOf ==
  ASSUME NEW n \in Nat, NEW f \in [1..n -> Int \union {NaN}],
         NEW V, V = {f[i] : i \in 1..n} \ {NaN}
  PROVE  /\ V # {} => Highest(V) \in V /\ \A v \in V : v <= Highest(V)
         /\ V = {} => Highest(V) = NaN
         /\ Highest(V) = NaN => V = {}
<1>1. V \subseteq Int /\ NaN \notin Int
  BY ChartAssumption
<1>2. ASSUME V # {} PROVE Highest(V) \in V /\ \A v \in V : v <= Highest(V)
  <2>1. PICK i \in 1..n : f[i] # NaN
    BY <1>2
  <2>2. PICK k \in 1..n : f[k] # NaN /\ \A j \in 1..n : f[j] # NaN => f[j] <= f[k]
    BY <2>1, GreatestAmong
  <2>3. f[k] \in V /\ \A y \in V : y <= f[k]
    BY <2>2
  <2>4. \E x \in V : \A y \in V : x >= y
    BY <1>1, <2>3
  <2>5. Highest(V) = CHOOSE x \in V : \A y \in V : x >= y
    BY <1>2 DEF Highest, Max
  <2>6. Highest(V) \in V /\ \A y \in V : Highest(V) >= y
    BY <2>4, <2>5, Zenon
  <2> QED BY <1>1, <2>6
<1> QED BY <1>1, <1>2 DEF Highest

\* And what Math.min makes of it is one of them, and below them all.
LEMMA LowestOf ==
  ASSUME NEW n \in Nat, NEW f \in [1..n -> Int \union {NaN}],
         NEW V, V = {f[i] : i \in 1..n} \ {NaN}
  PROVE  /\ V # {} => Lowest(V) \in V /\ \A v \in V : Lowest(V) <= v
         /\ V = {} => Lowest(V) = NaN
         /\ Lowest(V) = NaN => V = {}
<1>1. V \subseteq Int /\ NaN \notin Int
  BY ChartAssumption
<1>2. ASSUME V # {} PROVE Lowest(V) \in V /\ \A v \in V : Lowest(V) <= v
  <2>1. PICK i \in 1..n : f[i] # NaN
    BY <1>2
  <2>2. PICK k \in 1..n : f[k] # NaN /\ \A j \in 1..n : f[j] # NaN => f[k] <= f[j]
    BY <2>1, LeastAmong
  <2>3. f[k] \in V /\ \A y \in V : f[k] <= y
    BY <2>2
  <2>4. \E x \in V : \A y \in V : x <= y
    BY <1>1, <2>3
  <2>5. Lowest(V) = CHOOSE x \in V : \A y \in V : x <= y
    BY <1>2 DEF Lowest, Min
  <2> QED BY <2>4, <2>5, Zenon
<1> QED BY <1>1, <1>2 DEF Lowest

\* The bounds resetBounds computes from the points of a series.
LEMMA BoundsOfPoints ==
  ASSUME NEW s \in Series, data[s] \in Seq(Point)
  PROVE  /\ Highest(ValuesOf(s)) \in Values \union {NaN}
         /\ Lowest(ValuesOf(s)) \in Values \union {NaN}
         /\ \A i \in DOMAIN data[s] :
              /\ Highest(ValuesOf(s)) # NaN /\ data[s][i].value <= Highest(ValuesOf(s))
              /\ Lowest(ValuesOf(s)) # NaN /\ Lowest(ValuesOf(s)) <= data[s][i].value
<1> DEFINE n == Len(data[s])
           f == [i \in 1..n |-> data[s][i].value]
           V == {f[i] : i \in 1..n} \ {NaN}
<1>1. Values \subseteq Int /\ NaN \notin Int
  BY ChartAssumption
<1>2. n \in Nat /\ DOMAIN data[s] = 1..n /\ \A i \in 1..n : data[s][i] \in Point
  OBVIOUS
<1>3. \A i \in 1..n : data[s][i].value \in Values
  BY <1>2 DEF Point
<1>4. f \in [1..n -> Int \union {NaN}]
  BY <1>1, <1>3
<1>5. V = ValuesOf(s)
  BY <1>1, <1>2, <1>3 DEF ValuesOf
<1>6. V \subseteq Values /\ \A i \in 1..n : data[s][i].value \in V
  BY <1>1, <1>3
<1> HIDE DEF n
<1>7. V = {f[i] : i \in 1..n} \ {NaN}
  OBVIOUS
<1> HIDE DEF V, f
<1>8. /\ V # {} => Highest(V) \in V /\ \A v \in V : v <= Highest(V)
      /\ V = {} => Highest(V) = NaN
      /\ Highest(V) = NaN => V = {}
  BY <1>2, <1>4, <1>7, HighestOf
<1>9. /\ V # {} => Lowest(V) \in V /\ \A v \in V : Lowest(V) <= v
      /\ V = {} => Lowest(V) = NaN
      /\ Lowest(V) = NaN => V = {}
  BY <1>2, <1>4, <1>7, LowestOf
<1>10. Highest(V) \in Values \union {NaN} /\ Lowest(V) \in Values \union {NaN}
  BY <1>6, <1>8, <1>9
<1>11. ASSUME NEW i \in 1..n
       PROVE  /\ Highest(V) # NaN /\ data[s][i].value <= Highest(V)
              /\ Lowest(V) # NaN /\ Lowest(V) <= data[s][i].value
  BY <1>6, <1>8, <1>9, <1>11
<1> QED BY <1>2, <1>5, <1>10, <1>11

-----------------------------------------------------------------------------
(* Which points the chart deletes.                                         *)

\* How many points the loop of render may delete, for it to stop there.
Stops(d) == {n \in 0..Len(d) : Len(d) - n < 2 \/ ~HasLeft(d[n + 2])}

\* Points are in the order of their ages, the oldest first.
ByAge(d) == \A i, j \in DOMAIN d : i <= j => d[j].age <= d[i].age

Sorted == \A s \in Series : ByAge(data[s])

\* What is left is the list without its first n points.
LEMMA ExpireCuts ==
  ASSUME NEW d \in Seq(Point)
  PROVE  \E n \in Stops(d) : /\ Expire(d) = SubSeq(d, n + 1, Len(d))
                             /\ \A m \in Stops(d) : n <= m
<1>1. Len(d) \in Stops(d) /\ Stops(d) \in SUBSET Nat
  BY DEF Stops
<1>2. \E n \in Stops(d) : \A m \in Stops(d) : n <= m
  BY <1>1, LeastNumber
<1>3. Min(Stops(d)) = CHOOSE n \in Stops(d) : \A m \in Stops(d) : n <= m
  BY DEF Min
<1>4. Min(Stops(d)) \in Stops(d) /\ \A m \in Stops(d) : Min(Stops(d)) <= m
  BY <1>2, <1>3, Zenon
<1>5. Expire(d) = SubSeq(d, Min(Stops(d)) + 1, Len(d))
  BY DEF Expire, Stops
<1> QED BY <1>4, <1>5

\* The end of a list of points is a list of points in the same order.
LEMMA SuffixOfPoints ==
  ASSUME NEW d \in Seq(Point), NEW n \in 0..Len(d)
  PROVE  /\ SubSeq(d, n + 1, Len(d)) \in Seq(Point)
         /\ Len(SubSeq(d, n + 1, Len(d))) = Len(d) - n
         /\ \A i \in 1..(Len(d) - n) : i + n \in 1..Len(d)
                                       /\ SubSeq(d, n + 1, Len(d))[i] = d[i + n]
<1>1. Len(d) \in Nat /\ n \in Nat /\ n <= Len(d)
  OBVIOUS
<1>2. Len(SubSeq(d, n + 1, Len(d))) = Len(d) - n
  BY <1>1
<1>3. \A i \in 1..(Len(d) - n) : i + n \in 1..Len(d)
                                 /\ SubSeq(d, n + 1, Len(d))[i] = d[i + n]
  BY <1>1
<1>4. SubSeq(d, n + 1, Len(d)) \in Seq(Point)
  <2>1. n + 1 \in Int /\ Len(d) \in Int /\ \A i \in (n + 1)..Len(d) : d[i] \in Point
    BY <1>1
  <2> QED BY <2>1, SubSeqProperties
<1> QED BY <1>2, <1>3, <1>4

\* The points an expired list has are points it had.
LEMMA ExpiredPoints ==
  ASSUME NEW d \in Seq(Point)
  PROVE  /\ Expire(d) \in Seq(Point)
         /\ \E n \in 0..Len(d) : /\ Len(Expire(d)) = Len(d) - n
                                 /\ \A i \in 1..(Len(d) - n) :
                                      i + n \in 1..Len(d) /\ Expire(d)[i] = d[i + n]
<1>1. PICK n \in Stops(d) : Expire(d) = SubSeq(d, n + 1, Len(d))
  BY ExpireCuts
<1>2. n \in 0..Len(d)
  BY DEF Stops
<1> QED BY <1>1, <1>2, SuffixOfPoints

\* Of points in the order of their ages, the loop deletes those that have left
\* the chart, all but the last of them.
LEMMA ExpireKeepsLast ==
  ASSUME NEW d \in Seq(Point), ByAge(d), Len(Expire(d)) < Len(d),
         timer \in Nat, phase \in Nat
  PROVE  LET left == Cardinality({i \in DOMAIN d : HasLeft(d[i])})
         IN  left # 0 /\ Expire(d) = SubSeq(d, left, Len(d))
<1> DEFINE edge == timer + ((phase - timer) % MillisPerPixel) + Span
<1>1. \A p \in Point : HasLeft(p) <=> p.age > edge
  BY DEF HasLeft
<1>2. edge \in Int
  <2>1. MillisPerPixel \in Nat \ {0} /\ Width \in Nat
    BY ChartAssumption
  <2>2. (phase - timer) % MillisPerPixel \in Int
    BY <2>1
  <2>3. Span \in Int
    BY <2>1 DEF Span
  <2> QED BY <2>2, <2>3
<1> HIDE DEF edge
<1>3. Len(d) \in Nat /\ DOMAIN d = 1..Len(d)
      /\ \A i \in 1..Len(d) : d[i] \in Point /\ d[i].age \in Int
  <2>1. Len(d) \in Nat /\ DOMAIN d = 1..Len(d) /\ \A i \in 1..Len(d) : d[i] \in Point
    OBVIOUS
  <2> QED BY <2>1 DEF Point
<1>4. PICK n \in Stops(d) : /\ Expire(d) = SubSeq(d, n + 1, Len(d))
                            /\ \A m \in Stops(d) : n <= m
  BY ExpireCuts
<1>5. n \in 0..Len(d) /\ (Len(d) - n < 2 \/ ~HasLeft(d[n + 2]))
  BY <1>4 DEF Stops
<1>6. n \in Nat /\ n # 0 /\ n <= Len(d)
  <2>1. Len(Expire(d)) = Len(d) - n
    BY <1>4, <1>5, SuffixOfPoints
  <2> QED BY <1>3, <1>5, <2>1
<1>7. n + 1 <= Len(d) /\ HasLeft(d[n + 1])
  <2>1. n - 1 \in 0..Len(d) /\ ~(n <= n - 1) /\ (n - 1) + 2 = n + 1
    BY <1>3, <1>6
  <2>2. n - 1 \notin Stops(d)
    BY <1>4, <2>1
  <2>3. ~(Len(d) - (n - 1) < 2) /\ HasLeft(d[n + 1])
    BY <2>1, <2>2 DEF Stops
  <2> QED BY <1>3, <1>6, <2>3
<1>8. ASSUME NEW i \in 1..Len(d) PROVE HasLeft(d[i]) <=> i <= n + 1
  <2>1. n + 1 \in 1..Len(d) /\ d[n + 1].age > edge /\ d[n + 1].age \in Int
    BY <1>1, <1>3, <1>6, <1>7
  <2>2. i \in Nat /\ d[i].age \in Int /\ (HasLeft(d[i]) <=> d[i].age > edge)
    BY <1>1, <1>3
  <2>3. CASE i <= n + 1
    <3>1. d[n + 1].age <= d[i].age
      BY <1>3, <2>1, <2>3 DEF ByAge
    <3> QED BY <1>2, <2>1, <2>2, <2>3, <3>1
  <2>4. CASE ~(i <= n + 1)
    <3>1. n + 2 \in 1..Len(d) /\ n + 2 <= i /\ ~(Len(d) - n < 2)
      BY <1>3, <1>6, <2>4
    <3>2. ~HasLeft(d[n + 2]) /\ d[n + 2].age \in Int /\ ~(d[n + 2].age > edge)
      BY <1>1, <1>3, <1>5, <3>1
    <3>3. d[i].age <= d[n + 2].age
      BY <1>3, <3>1 DEF ByAge
    <3> QED BY <1>2, <2>2, <2>4, <3>2, <3>3
  <2> QED BY <2>3, <2>4
<1>9. {i \in DOMAIN d : HasLeft(d[i])} = 1..(n + 1)
  BY <1>3, <1>6, <1>7, <1>8
<1>10. Cardinality(1..(n + 1)) = n + 1
  <2>1. 1 \in Int /\ n + 1 \in Int /\ ~(1 > n + 1) /\ (n + 1) - 1 + 1 = n + 1
    BY <1>6
  <2> QED BY <2>1, FS_Interval
<1>11. n + 1 # 0
  BY <1>6
<1> QED BY <1>4, <1>9, <1>10, <1>11

-----------------------------------------------------------------------------
(* A tick of the browser's clock.                                          *)

\* The points of a list after a tick.
Aged(d) == [i \in DOMAIN d |-> [d[i] EXCEPT !.age = IF @ < MaxAge THEN @ + 1 ELSE @]]

\* A tick adds no point and moves none in front of another; values stay.
LEMMA AgesTick ==
  ASSUME NEW d \in Seq(Point)
  PROVE  /\ Aged(d) \in Seq(Point) /\ Len(Aged(d)) = Len(d) /\ DOMAIN Aged(d) = DOMAIN d
         /\ \A i \in DOMAIN d :
              /\ Aged(d)[i].value = d[i].value
              /\ Aged(d)[i].age = IF d[i].age < MaxAge THEN d[i].age + 1 ELSE d[i].age
<1>1. Len(d) \in Nat /\ DOMAIN d = 1..Len(d) /\ \A i \in 1..Len(d) : d[i] \in Point
  OBVIOUS
<1>2. MaxAge \in Nat
  BY ChartAssumption
<1> DEFINE aged(p) == [p EXCEPT !.age = IF @ < MaxAge THEN @ + 1 ELSE @]
<1>3. ASSUME NEW p \in Point
      PROVE  /\ aged(p) \in Point
             /\ aged(p).value = p.value
             /\ aged(p).age = IF p.age < MaxAge THEN p.age + 1 ELSE p.age
  BY <1>2 DEF Point
<1>4. Aged(d) = [i \in 1..Len(d) |-> aged(d[i])]
  BY <1>1 DEF Aged
<1> HIDE DEF aged
<1>5. Aged(d) \in [1..Len(d) -> Point]
  BY <1>1, <1>3, <1>4
<1>6. Aged(d) \in Seq(Point) /\ Len(Aged(d)) = Len(d) /\ DOMAIN Aged(d) = DOMAIN d
  BY <1>1, <1>5
<1> QED BY <1>1, <1>3, <1>4, <1>6

-----------------------------------------------------------------------------
(* The types.                                                              *)

\* Every variable keeps its type: in particular the bounds of a series are
\* values of points or NaN, never anything between.
THEOREM TypeCorrect == Spec => []TypeOK
<1>1. Init => TypeOK
  <2>1. 0 \in 0..(MillisPerPixel - 1)
    BY ChartAssumption
  <2> QED BY <2>1 DEF Init, TypeOK
<1>2. TypeOK /\ [Next]_vars => TypeOK'
  <2> SUFFICES ASSUME TypeOK, [Next]_vars PROVE TypeOK'
    OBVIOUS
  <2>0. /\ data \in [Series -> Seq(Point)]
        /\ maxValue \in [Series -> Values \union {NaN}]
        /\ minValue \in [Series -> Values \union {NaN}]
        /\ seriesSet \in Seq(Series)
        /\ onTick \in Delays \union {Off} /\ timer \in Delays \union {Off}
        /\ phase \in 0..(MillisPerPixel - 1)
    BY DEF TypeOK
  <2>1. CASE UNCHANGED vars
    BY <2>1 DEF TypeOK, vars, bounds, chart
  <2>2. ASSUME NEW s \in Series, AppendPoint(s) PROVE TypeOK'
    <3>1. PICK age \in FirstAges, value \in Values :
            /\ data' = [data EXCEPT ![s] = Append(@, [age |-> age, value |-> value])]
            /\ maxValue' = [maxValue EXCEPT ![s] = Higher(@, value)]
            /\ minValue' = [minValue EXCEPT ![s] = Lower(@, value)]
            /\ UNCHANGED <<chart, phase>>
      BY <2>2 DEF AppendPoint
    <3>2. [age |-> age, value |-> value] \in Point
      BY ChartAssumption DEF Point
    <3>3. data' \in [Series -> Seq(Point)]
      BY <2>0, <3>1, <3>2
    <3>4. maxValue' \in [Series -> Values \union {NaN}]
      BY <2>0, <3>1 DEF Higher
    <3>5. minValue' \in [Series -> Values \union {NaN}]
      BY <2>0, <3>1 DEF Lower
    <3> QED BY <3>1, <3>3, <3>4, <3>5 DEF TypeOK, chart
  <2>3. ASSUME NEW s \in Series, ResetBounds(s) PROVE TypeOK'
    <3>1. /\ Highest(ValuesOf(s)) \in Values \union {NaN}
          /\ Lowest(ValuesOf(s)) \in Values \union {NaN}
      BY <2>0, BoundsOfPoints
    <3>2. maxValue' \in [Series -> Values \union {NaN}]
      BY <2>0, <2>3, <3>1 DEF ResetBounds
    <3>3. minValue' \in [Series -> Values \union {NaN}]
      BY <2>0, <2>3, <3>1 DEF ResetBounds
    <3> QED BY <2>3, <3>2, <3>3 DEF ResetBounds, TypeOK, chart
  <2>4. ASSUME NEW s \in Series, AddTimeSeries(s) PROVE TypeOK'
    <3>1. seriesSet' \in Seq(Series)
      BY <2>0, <2>4 DEF AddTimeSeries
    <3> QED BY <2>4, <3>1 DEF AddTimeSeries, TypeOK, bounds
  <2>5. CASE RemoveTimeSeries
    <3>1. seriesSet' \in Seq(Series)
      BY <2>0, <2>5 DEF RemoveTimeSeries, Front
    <3> QED BY <2>5, <3>1 DEF RemoveTimeSeries, TypeOK, bounds
  <2>6. CASE StreamTo
    BY <2>6 DEF StreamTo, TypeOK, bounds
  <2>7. CASE Start \/ Stop
    BY <2>7 DEF Start, Stop, TypeOK, bounds
  <2>8. CASE Render
    <3>1. \A s \in Series : Expire(data[s]) \in Seq(Point)
      BY <2>0, ExpiredPoints
    <3>2. data' \in [Series -> Seq(Point)]
      BY <2>0, <2>8, <3>1 DEF Render
    <3> QED BY <2>8, <3>2 DEF Render, TypeOK, bounds, chart
  <2>9. CASE Tick
    <3>1. phase' \in 0..(MillisPerPixel - 1)
      <4>1. MillisPerPixel \in Nat \ {0} /\ phase' = (phase + 1) % MillisPerPixel
        BY <2>9, ChartAssumption DEF Tick
      <4> QED BY <2>0, <4>1
    <3>2. data' \in [Series -> Seq(Point)]
      <4>1. \A s \in Series : Aged(data[s]) \in Seq(Point)
        BY <2>0, AgesTick
      <4>2. data' = [s \in Series |-> Aged(data[s])]
        BY <2>9 DEF Tick, Aged
      <4> QED BY <4>1, <4>2
    <3> QED BY <2>9, <3>1, <3>2 DEF Tick, TypeOK, bounds, chart
  <2> QED BY <2>1, <2>2, <2>3, <2>4, <2>5, <2>6, <2>7, <2>8, <2>9 DEF Next
<1> QED BY <1>1, <1>2, PTL DEF Spec

-----------------------------------------------------------------------------
(* What crosses the chart is kept.                                         *)

\* The points of a series stay in the order of their ages.
LEMMA SortedInvariant == Spec => [](TypeOK /\ Sorted)
<1>1. Init => Sorted
  BY DEF Init, Sorted, ByAge
<1>2. TypeOK /\ Sorted /\ [Next]_vars => Sorted'
  <2> SUFFICES ASSUME TypeOK, Sorted, [Next]_vars, NEW t \in Series
               PROVE  ByAge(data'[t])
    BY DEF Sorted, ByAge
  <2>0. /\ data \in [Series -> Seq(Point)] /\ data[t] \in Seq(Point) /\ ByAge(data[t])
        /\ \A s \in Series : data[s] \in Seq(Point)
    BY DEF TypeOK, Sorted
  <2>1. /\ Len(data[t]) \in Nat /\ DOMAIN data[t] = 1..Len(data[t])
        /\ \A i \in 1..Len(data[t]) : data[t][i].age \in Int
    <3>1. \A i \in 1..Len(data[t]) : data[t][i] \in Point
      BY <2>0
    <3> QED BY <2>0, <3>1 DEF Point
  <2>2. ASSUME NEW s \in Series, AppendPoint(s) PROVE ByAge(data'[t])
    <3>1. PICK age \in FirstAges, value \in Values :
            /\ InOrder(s, age)
            /\ data' = [data EXCEPT ![s] = Append(@, [age |-> age, value |-> value])]
      BY <2>2 DEF AppendPoint
    <3>2. CASE s # t
      <4>1. data'[t] = data[t]
        BY <2>0, <3>1, <3>2
      <4> QED BY <2>0, <4>1
    <3>3. CASE s = t
      <4> DEFINE n == Len(data[t])
                 d == data'[t]
      <4>1. d = Append(data[t], [age |-> age, value |-> value])
        BY <2>0, <3>1, <3>3
      <4>2. DOMAIN d = 1..(n + 1)
        BY <2>0, <2>1, <4>1
      <4>3. \A i \in 1..n : d[i] = data[t][i]
        BY <2>0, <2>1, <4>1
      <4>4. d[n + 1].age = age /\ age \in Int
        <5>1. d[n + 1] = [age |-> age, value |-> value]
          BY <2>0, <2>1, <4>1
        <5> QED BY <5>1, ChartAssumption
      <4>5. \A i \in 1..n : age <= data[t][i].age
        <5> SUFFICES ASSUME NEW i \in 1..n PROVE age <= data[t][i].age
          OBVIOUS
        <5>1. n \in 1..n /\ i <= n
          BY <2>1
        <5>2. data[t][n].age <= data[t][i].age
          BY <2>0, <2>1, <5>1 DEF ByAge
        <5>3. data[t] # <<>>
          BY <2>1, <5>1
        <5>4. age <= data[t][n].age
          BY <3>1, <3>3, <5>3 DEF InOrder, Last
        <5> QED BY <2>1, <4>4, <5>1, <5>2, <5>4
      <4>6. n \in Nat
        BY <2>1
      <4> HIDE DEF d, n
      <4>7. ASSUME NEW i \in 1..(n + 1), NEW j \in 1..(n + 1), i <= j
            PROVE  d[j].age <= d[i].age
        <5>1. CASE j # n + 1
          <6>1. j \in 1..n /\ i \in 1..n
            BY <4>6, <4>7, <5>1
          <6>2. data[t][j].age <= data[t][i].age
            BY <2>0, <2>1, <4>7, <6>1 DEF ByAge, n
          <6> QED BY <4>3, <6>1, <6>2
        <5>2. CASE j = n + 1 /\ i # n + 1
          <6>1. i \in 1..n
            BY <4>6, <5>2
          <6> QED BY <4>3, <4>4, <4>5, <5>2, <6>1
        <5>3. CASE j = n + 1 /\ i = n + 1
          BY <4>4, <5>3
        <5> QED BY <5>1, <5>2, <5>3
      <4>8. ByAge(d)
        BY <4>2, <4>7 DEF ByAge
      <4> QED BY <4>8 DEF d
    <3> QED BY <3>2, <3>3
  <2>3. CASE Render
    <3>1. CASE t \notin OnChart
      <4>1. data'[t] = data[t]
        BY <2>3, <3>1 DEF Render
      <4> QED BY <2>0, <4>1
    <3>2. CASE t \in OnChart
      <4> DEFINE d == Expire(data[t])
      <4>1. data'[t] = d
        BY <2>3, <3>2 DEF Render
      <4>2. PICK n \in 0..Len(data[t]) :
              /\ Len(d) = Len(data[t]) - n
              /\ \A i \in 1..(Len(data[t]) - n) :
                   i + n \in 1..Len(data[t]) /\ d[i] = data[t][i + n]
        BY <2>0, ExpiredPoints
      <4>3. d \in Seq(Point) /\ DOMAIN d = 1..(Len(data[t]) - n)
        <5>1. d \in Seq(Point)
          BY <2>0, ExpiredPoints
        <5> HIDE DEF d
        <5>2. DOMAIN d = 1..Len(d)
          BY <5>1
        <5> QED BY <4>2, <5>1, <5>2
      <4> HIDE DEF d
      <4>4. ASSUME NEW i \in DOMAIN d, NEW j \in DOMAIN d, i <= j
            PROVE  d[j].age <= d[i].age
        <5>1. /\ i + n \in 1..Len(data[t]) /\ d[i] = data[t][i + n]
              /\ j + n \in 1..Len(data[t]) /\ d[j] = data[t][j + n]
          BY <4>2, <4>3, <4>4
        <5>2. i + n <= j + n
          BY <2>1, <4>2, <4>3, <4>4
        <5>3. data[t][j + n].age <= data[t][i + n].age
          BY <2>0, <2>1, <5>1, <5>2 DEF ByAge
        <5> QED BY <5>1, <5>3
      <4> QED BY <4>1, <4>4 DEF ByAge
    <3> QED BY <3>1, <3>2
  <2>4. CASE Tick
    <3>1. data'[t] = Aged(data[t])
      BY <2>4 DEF Tick, Aged
    <3>2. /\ DOMAIN Aged(data[t]) = DOMAIN data[t]
          /\ \A i \in DOMAIN data[t] : Aged(data[t])[i].age =
               IF data[t][i].age < MaxAge THEN data[t][i].age + 1 ELSE data[t][i].age
      BY <2>0, AgesTick
    <3>3. ASSUME NEW i \in DOMAIN data[t], NEW j \in DOMAIN data[t], i <= j
          PROVE  Aged(data[t])[j].age <= Aged(data[t])[i].age
      <4>1. data[t][j].age <= data[t][i].age
        BY <2>0, <3>3 DEF ByAge
      <4>2. data[t][i].age \in Int /\ data[t][j].age \in Int /\ MaxAge \in Nat
        BY <2>1, ChartAssumption
      <4> QED BY <3>2, <4>1, <4>2
    <3> QED BY <3>1, <3>2, <3>3 DEF ByAge
  <2>5. CASE UNCHANGED data
    BY <2>0, <2>5
  <2>6. (\E s \in Series : ResetBounds(s) \/ AddTimeSeries(s)) => UNCHANGED data
    BY DEF ResetBounds, AddTimeSeries
  <2>7. RemoveTimeSeries \/ StreamTo \/ Start \/ Stop \/ UNCHANGED vars => UNCHANGED data
    BY DEF RemoveTimeSeries, StreamTo, Start, Stop, vars
  <2> QED BY <2>2, <2>3, <2>4, <2>5, <2>6, <2>7 DEF Next
<1> QED BY <1>1, <1>2, TypeCorrect, PTL DEF Spec

\* Only points that have left the chart are deleted, and never the last of
\* them, from which the line enters it (smoothie.js:211-213).
THEOREM LineCorrect == Spec => LineKept
<1> DEFINE Kept == \A s \in Series : Len(data'[s]) < Len(data[s]) =>
             LET left == Cardinality({i \in DOMAIN data[s] : HasLeft(data[s][i])})
             IN  left # 0 /\ data'[s] = SubSeq(data[s], left, Len(data[s]))
<1>1. TypeOK /\ Sorted /\ [Next]_vars => [Kept]_vars
  <2> SUFFICES ASSUME TypeOK, Sorted, [Next]_vars, NEW t \in Series,
                      Len(data'[t]) < Len(data[t])
               PROVE  LET left == Cardinality({i \in DOMAIN data[t] : HasLeft(data[t][i])})
                      IN  left # 0 /\ data'[t] = SubSeq(data[t], left, Len(data[t]))
    OBVIOUS
  <2>1. /\ data \in [Series -> Seq(Point)] /\ data[t] \in Seq(Point)
        /\ Len(data[t]) \in Nat /\ ByAge(data[t])
    BY DEF TypeOK, Sorted
  <2>2. data'[t] # data[t]
    BY <2>1
  <2>3. ~(\E s \in Series : AppendPoint(s))
    <3> SUFFICES ASSUME NEW s \in Series, AppendPoint(s) PROVE FALSE
      OBVIOUS
    <3>1. PICK age \in FirstAges, value \in Values :
            data' = [data EXCEPT ![s] = Append(@, [age |-> age, value |-> value])]
      BY DEF AppendPoint
    <3>2. CASE s # t
      BY <2>1, <2>2, <3>1, <3>2
    <3>3. CASE s = t
      <4>1. data'[t] = Append(data[t], [age |-> age, value |-> value])
        BY <2>1, <3>1, <3>3
      <4>2. Len(data'[t]) = Len(data[t]) + 1
        BY <2>1, <4>1
      <4> QED BY <2>1, <4>2
    <3> QED BY <3>2, <3>3
  <2>4. ~Tick
    <3> SUFFICES ASSUME Tick PROVE FALSE
      OBVIOUS
    <3>1. data'[t] = Aged(data[t])
      BY DEF Tick, Aged
    <3>2. Len(Aged(data[t])) = Len(data[t])
      BY <2>1, AgesTick
    <3> QED BY <2>1, <3>1, <3>2
  <2>5. Render
    BY <2>2, <2>3, <2>4 DEF Next, vars, ResetBounds, AddTimeSeries, RemoveTimeSeries,
                            StreamTo, Start, Stop
  <2>6. data'[t] = Expire(data[t]) /\ timer # Off
    BY <2>2, <2>5 DEF Render
  <2>7. timer \in Nat /\ phase \in Nat
    BY <2>6, ChartAssumption DEF TypeOK
  <2> HIDE DEF Kept
  <2>8. Len(Expire(data[t])) < Len(data[t])
    BY <2>6
  <2> QED BY <2>1, <2>6, <2>7, <2>8, ExpireKeepsLast
<1> QED BY <1>1, SortedInvariant, PTL DEF Spec, LineKept

-----------------------------------------------------------------------------
(* Every point is drawn to scale.                                          *)

\* The bounds of a series have room for its points.  This is what the steps
\* preserve: bounds are widened when a point is appended, computed anew from
\* the points there are, and kept when points are deleted.
InBounds(s) == \A i \in DOMAIN data[s] :
  /\ maxValue[s] # NaN /\ data[s][i].value <= maxValue[s]
  /\ minValue[s] # NaN /\ minValue[s] <= data[s][i].value

BoundsInv == \A s \in Series : InBounds(s)

\* Every step leaves every point within the bounds of its series.
LEMMA BoundsInvariant == Spec => [](TypeOK /\ BoundsInv)
<1>1. Init => BoundsInv
  BY DEF Init, BoundsInv, InBounds
<1>2. TypeOK /\ BoundsInv /\ [Next]_vars => BoundsInv'
  <2> SUFFICES ASSUME TypeOK, BoundsInv, [Next]_vars, NEW t \in Series
               PROVE  InBounds(t)'
    BY DEF BoundsInv
  <2>0. /\ data \in [Series -> Seq(Point)] /\ data[t] \in Seq(Point) /\ InBounds(t)
        /\ maxValue \in [Series -> Values \union {NaN}]
        /\ minValue \in [Series -> Values \union {NaN}]
        /\ Values \subseteq Int /\ NaN \notin Int
    BY ChartAssumption DEF TypeOK, BoundsInv
  <2>1. /\ Len(data[t]) \in Nat /\ DOMAIN data[t] = 1..Len(data[t])
        /\ \A i \in 1..Len(data[t]) : data[t][i].value \in Int
    <3>1. /\ Len(data[t]) \in Nat /\ DOMAIN data[t] = 1..Len(data[t])
          /\ \A i \in 1..Len(data[t]) : data[t][i] \in Point
      BY <2>0
    <3>2. \A p \in Point : p.value \in Int
      BY <2>0 DEF Point
    <3> QED BY <3>1, <3>2
  <2>2. ASSUME NEW s \in Series, AppendPoint(s) PROVE InBounds(t)'
    <3>1. PICK age \in FirstAges, value \in Values :
            /\ data' = [data EXCEPT ![s] = Append(@, [age |-> age, value |-> value])]
            /\ maxValue' = [maxValue EXCEPT ![s] = Higher(@, value)]
            /\ minValue' = [minValue EXCEPT ![s] = Lower(@, value)]
      BY <2>2 DEF AppendPoint
    <3>2. CASE s # t
      <4>1. data'[t] = data[t] /\ maxValue'[t] = maxValue[t] /\ minValue'[t] = minValue[t]
        BY <2>0, <3>1, <3>2
      <4> QED BY <2>0, <4>1 DEF InBounds
    <3>3. CASE s = t
      <4> DEFINE n == Len(data[t])
      <4>1. /\ data'[t] = Append(data[t], [age |-> age, value |-> value])
            /\ maxValue'[t] = Higher(maxValue[t], value)
            /\ minValue'[t] = Lower(minValue[t], value)
        BY <2>0, <3>1, <3>3
      <4>2. DOMAIN data'[t] = 1..(n + 1) /\ \A i \in 1..n : data'[t][i] = data[t][i]
        BY <2>0, <2>1, <4>1
      <4>3. data'[t][n + 1].value = value
        <5>1. data'[t][n + 1] = [age |-> age, value |-> value]
          BY <2>0, <2>1, <4>1
        <5> QED BY <5>1
      <4>4. /\ maxValue'[t] \in Int /\ value <= maxValue'[t]
            /\ maxValue[t] # NaN => maxValue[t] <= maxValue'[t]
        <5>1. /\ value \in Int /\ NaN \notin Int
              /\ maxValue[t] # NaN => maxValue[t] \in Int
          BY <2>0
        <5>2. CASE maxValue[t] = NaN
          BY <4>1, <5>1, <5>2 DEF Higher
        <5>3. CASE maxValue[t] # NaN
          BY <4>1, <5>1, <5>3 DEF Higher
        <5> QED BY <5>2, <5>3
      <4>5. /\ minValue'[t] \in Int /\ minValue'[t] <= value
            /\ minValue[t] # NaN => minValue'[t] <= minValue[t]
        <5>1. /\ value \in Int /\ NaN \notin Int
              /\ minValue[t] # NaN => minValue[t] \in Int
          BY <2>0
        <5>2. CASE minValue[t] = NaN
          BY <4>1, <5>1, <5>2 DEF Lower
        <5>3. CASE minValue[t] # NaN
          BY <4>1, <5>1, <5>3 DEF Lower
        <5> QED BY <5>2, <5>3
      <4>6. ASSUME NEW i \in 1..n
            PROVE  data[t][i].value <= maxValue'[t] /\ minValue'[t] <= data[t][i].value
        <5>1. /\ maxValue[t] # NaN /\ data[t][i].value <= maxValue[t]
              /\ minValue[t] # NaN /\ minValue[t] <= data[t][i].value
          BY <2>0, <2>1 DEF InBounds
        <5>2. maxValue[t] \in Int /\ minValue[t] \in Int /\ data[t][i].value \in Int
          BY <2>0, <2>1, <5>1
        <5> QED BY <4>4, <4>5, <5>1, <5>2
      <4>7. n \in Nat
        BY <2>1
      <4> HIDE DEF n
      <4>8. \A i \in 1..(n + 1) : i \in 1..n \/ i = n + 1
        BY <4>7
      <4>9. \A i \in 1..(n + 1) :
              data'[t][i].value <= maxValue'[t] /\ minValue'[t] <= data'[t][i].value
        BY <4>2, <4>3, <4>4, <4>5, <4>6, <4>8
      <4> QED BY <2>0, <4>2, <4>4, <4>5, <4>9 DEF InBounds
    <3> QED BY <3>2, <3>3
  <2>3. ASSUME NEW s \in Series, ResetBounds(s) PROVE InBounds(t)'
    <3>1. /\ data' = data
          /\ maxValue' = [maxValue EXCEPT ![s] = Highest(ValuesOf(s))]
          /\ minValue' = [minValue EXCEPT ![s] = Lowest(ValuesOf(s))]
      BY <2>3 DEF ResetBounds
    <3>2. CASE s # t
      <4>1. data'[t] = data[t] /\ maxValue'[t] = maxValue[t] /\ minValue'[t] = minValue[t]
        BY <2>0, <3>1, <3>2
      <4> QED BY <2>0, <4>1 DEF InBounds
    <3>3. CASE s = t
      <4>1. /\ data'[t] = data[t]
            /\ maxValue'[t] = Highest(ValuesOf(t)) /\ minValue'[t] = Lowest(ValuesOf(t))
        BY <2>0, <3>1, <3>3
      <4> QED BY <2>0, <4>1, BoundsOfPoints DEF InBounds
    <3> QED BY <3>2, <3>3
  <2>4. CASE Render
    <3>1. UNCHANGED bounds
      BY <2>4 DEF Render
    <3>2. CASE t \notin OnChart
      <4>1. data'[t] = data[t]
        BY <2>4, <3>2 DEF Render
      <4> QED BY <2>0, <3>1, <4>1 DEF InBounds, bounds
    <3>3. CASE t \in OnChart
      <4> DEFINE d == Expire(data[t])
      <4>1. data'[t] = d
        BY <2>4, <3>3 DEF Render
      <4>2. PICK n \in 0..Len(data[t]) :
              /\ Len(d) = Len(data[t]) - n
              /\ \A i \in 1..(Len(data[t]) - n) :
                   i + n \in 1..Len(data[t]) /\ d[i] = data[t][i + n]
        BY <2>0, ExpiredPoints
      <4>3. d \in Seq(Point)
        BY <2>0, ExpiredPoints
      <4> HIDE DEF d
      <4>4. \A i \in DOMAIN d : i + n \in DOMAIN data[t] /\ d[i] = data[t][i + n]
        BY <2>1, <4>2, <4>3
      <4> QED BY <2>0, <3>1, <4>1, <4>4 DEF InBounds, bounds
    <3> QED BY <3>2, <3>3
  <2>5. CASE Tick
    <3>1. data'[t] = Aged(data[t]) /\ UNCHANGED bounds
      BY <2>5 DEF Tick, Aged
    <3>2. /\ DOMAIN Aged(data[t]) = DOMAIN data[t]
          /\ \A i \in DOMAIN data[t] : Aged(data[t])[i].value = data[t][i].value
      BY <2>0, AgesTick
    <3> QED BY <2>0, <3>1, <3>2 DEF InBounds, bounds
  <2>6. CASE UNCHANGED <<data, bounds>>
    BY <2>0, <2>6 DEF InBounds, bounds
  <2>7. (\E s \in Series : AddTimeSeries(s)) \/ RemoveTimeSeries \/ StreamTo
        \/ Start \/ Stop \/ UNCHANGED vars => UNCHANGED <<data, bounds>>
    BY DEF AddTimeSeries, RemoveTimeSeries, StreamTo, Start, Stop, vars
  <2> QED BY <2>2, <2>3, <2>4, <2>5, <2>6, <2>7 DEF Next
<1> QED BY <1>1, <1>2, TypeCorrect, PTL DEF Spec

\* The bounds of the chart's series have room for those of each of them.
LEMMA SeriesBounds ==
  ASSUME TypeOK, NEW s \in OnChart, maxValue[s] # NaN, minValue[s] # NaN
  PROVE  /\ SeriesMax \in Int /\ maxValue[s] <= SeriesMax
         /\ SeriesMin \in Int /\ SeriesMin <= minValue[s]
<1> DEFINE n == Len(seriesSet)
           f == [i \in 1..n |-> maxValue[seriesSet[i]]]
           g == [i \in 1..n |-> minValue[seriesSet[i]]]
           Maxes == {maxValue[r] : r \in OnChart} \ {NaN}
           Mins == {minValue[r] : r \in OnChart} \ {NaN}
<1>1. /\ n \in Nat /\ DOMAIN seriesSet = 1..n /\ \A i \in 1..n : seriesSet[i] \in Series
      /\ OnChart = {seriesSet[i] : i \in 1..n}
      /\ maxValue \in [Series -> Int \union {NaN}] /\ minValue \in [Series -> Int \union {NaN}]
  <2>1. seriesSet \in Seq(Series)
    BY DEF TypeOK
  <2>2. n \in Nat /\ DOMAIN seriesSet = 1..n /\ \A i \in 1..n : seriesSet[i] \in Series
    BY <2>1
  <2>3. maxValue \in [Series -> Int \union {NaN}]
    BY ChartAssumption DEF TypeOK
  <2>4. minValue \in [Series -> Int \union {NaN}]
    BY ChartAssumption DEF TypeOK
  <2> QED BY <2>2, <2>3, <2>4 DEF OnChart
<1>2. f \in [1..n -> Int \union {NaN}] /\ g \in [1..n -> Int \union {NaN}]
  BY <1>1
<1>3. Maxes = {f[i] : i \in 1..n} \ {NaN} /\ Mins = {g[i] : i \in 1..n} \ {NaN}
  BY <1>1
<1>4. /\ maxValue[s] \in Maxes /\ Maxes \subseteq Int
      /\ minValue[s] \in Mins /\ Mins \subseteq Int
  BY <1>1
<1>5. SeriesMax = Highest(Maxes) /\ SeriesMin = Lowest(Mins)
  BY DEF SeriesMax, SeriesMin
<1>6. n \in Nat
  BY <1>1
<1> HIDE DEF n, f, g, Maxes, Mins
<1>7. Highest(Maxes) \in Maxes /\ \A v \in Maxes : v <= Highest(Maxes)
  <2>1. Maxes # {} => Highest(Maxes) \in Maxes /\ \A v \in Maxes : v <= Highest(Maxes)
    BY <1>2, <1>3, <1>6, HighestOf
  <2> QED BY <1>4, <2>1
<1>8. Lowest(Mins) \in Mins /\ \A v \in Mins : Lowest(Mins) <= v
  <2>1. Mins # {} => Lowest(Mins) \in Mins /\ \A v \in Mins : Lowest(Mins) <= v
    BY <1>2, <1>3, <1>6, LowestOf
  <2> QED BY <1>4, <2>1
<1> QED BY <1>4, <1>5, <1>7, <1>8

\* A part d of a range r, scaled to a height h and rounded, is within it.
LEMMA ScaledWithin ==
  ASSUME NEW r \in Nat, r # 0, NEW d \in 0..r, NEW h \in Nat
  PROVE  (2 * d * h + r) \div (2 * r) \in 0..h
<1> DEFINE q == (2 * d * h + r) \div (2 * r)
<1>1. d * h \in Nat /\ d * h <= r * h
  <2>1. d \in Nat /\ r - d \in Nat
    OBVIOUS
  <2>2. d * h \in Nat /\ r * h \in Nat /\ (r - d) * h \in Nat
    BY <2>1
  <2>3. (r - d) * h = r * h - d * h
    BY <2>1
  <2> QED BY <2>2, <2>3
<1>2. 2 * d * h = 2 * (d * h)
  OBVIOUS
<1>3. q \in Int /\ 2 * r * q <= 2 * d * h + r /\ 2 * d * h + r < 2 * r * q + 2 * r
  OBVIOUS
<1> HIDE DEF q
<1>4. 2 * r * q = 2 * (r * q) /\ r * q \in Int /\ r * h \in Nat
  BY <1>3
<1>5. 0 <= q
  <2> SUFFICES ASSUME q <= 0 - 1 PROVE FALSE
    BY <1>3
  <2>1. r * q <= 0 - r
    BY <1>3
  <2> QED BY <1>1, <1>2, <1>3, <1>4, <2>1
<1>6. q <= h
  <2> SUFFICES ASSUME q >= h + 1 PROVE FALSE
    BY <1>3
  <2>1. r * q >= r * h + r
    BY <1>3
  <2> QED BY <1>1, <1>2, <1>3, <1>4, <2>1
<1> QED BY <1>3, <1>5, <1>6 DEF q

\* A quotient of integers and what it leaves.
LEMMA Quotient ==
  ASSUME NEW a \in Int, NEW b \in Nat, b # 0
  PROVE  /\ a \div b \in Int
         /\ b * (a \div b) <= a /\ a < b * (a \div b) + b
OBVIOUS

\* A value within the scale is drawn within a pixel of its exact height: half
\* a pixel is lost by rounding, and the other half at the chart's edges.
LEMMA PlacedToScale ==
  ASSUME NEW value \in Int, ScaleMin \in Int, ScaleMax \in Int,
         ScaleMin <= value, value <= ScaleMax
  PROVE  Place(value) * (ScaleMax - ScaleMin) - (ScaleMax - value) * Height
           \in (-(ScaleMax - ScaleMin))..(ScaleMax - ScaleMin)
<1> DEFINE r == ScaleMax - ScaleMin
           d == ScaleMax - value
           y == ToScale(value)
           z == Place(value)
<1>1. Height \in Nat /\ Height >= 2
  BY ChartAssumption
<1>2. r \in Nat /\ d \in 0..r
  OBVIOUS
<1>3. y = IF r = 0 THEN 0 ELSE (2 * d * Height + r) \div (2 * r)
  BY DEF ToScale
<1>4. z = IF y < 1 THEN 1 ELSE IF y > Height - 1 THEN Height - 1 ELSE y
  BY DEF Place
<1> SUFFICES z * r - d * Height \in (-r)..r
  OBVIOUS
<1> HIDE DEF r, d, y, z
<1>5. CASE r = 0
  <2>1. d = 0 /\ z = 1
    BY <1>1, <1>2, <1>3, <1>4, <1>5
  <2> QED BY <1>1, <1>5, <2>1
<1>6. CASE r # 0
  <2>1. y \in 0..Height
    BY <1>1, <1>2, <1>3, <1>6, ScaledWithin
  <2>2. /\ 2 * r * y <= 2 * d * Height + r
        /\ 2 * d * Height + r < 2 * r * y + 2 * r
    <3>1. 2 * d * Height + r \in Int /\ 2 * r \in Nat /\ 2 * r # 0
      BY <1>1, <1>2, <1>6
    <3> QED BY <1>3, <1>6, <3>1, Quotient
  <2> DEFINE p == d * Height
             q == r * y
  <2>3. /\ p \in Int /\ q \in Int
        /\ 2 * d * Height = 2 * p /\ 2 * r * y = 2 * q
    BY <1>1, <1>2, <2>1
  <2>4. 2 * q <= 2 * p + r /\ 2 * p + r < 2 * q + 2 * r
    BY <2>2, <2>3
  <2>5. 0 <= p /\ p <= r * Height /\ r * Height \in Int
    <3>1. r - d \in Nat /\ d \in Nat
      BY <1>2
    <3>2. (r - d) * Height \in Nat /\ d * Height \in Nat /\ r * Height \in Nat
      BY <1>1, <1>2, <3>1
    <3>3. (r - d) * Height = r * Height - d * Height
      BY <1>1, <1>2, <3>1
    <3> QED BY <3>2, <3>3
  <2>6. CASE y = 0
    <3>1. q = 0 /\ z * r = r
      BY <1>1, <1>2, <1>4, <2>6
    <3> HIDE DEF p, q
    <3>2. r - p \in (-r)..r
      BY <1>2, <2>3, <2>4, <2>5, <3>1
    <3> QED BY <3>1, <3>2 DEF p
  <2>7. CASE y = Height
    <3>1. q = r * Height /\ z * r = r * Height - r
      BY <1>1, <1>2, <1>4, <2>7
    <3> HIDE DEF p, q
    <3>2. (r * Height - r) - p \in (-r)..r
      BY <1>2, <2>3, <2>4, <2>5, <3>1
    <3> QED BY <3>1, <3>2 DEF p
  <2>8. CASE y # 0 /\ y # Height
    <3>1. z = y /\ z * r = q
      BY <1>1, <1>2, <1>4, <2>1, <2>8
    <3> HIDE DEF p, q
    <3>2. q - p \in (-r)..r
      BY <1>2, <2>3, <2>4
    <3> QED BY <3>1, <3>2 DEF p
  <2> QED BY <2>6, <2>7, <2>8
<1> QED BY <1>5, <1>6

\* A value above the scale is drawn at the chart's upper edge.
LEMMA PlacedAtTop ==
  ASSUME NEW value \in Int, ScaleMin \in Int, ScaleMax \in Int,
         ScaleMax - ScaleMin >= 0, value > ScaleMax
  PROVE  Place(value) = 1
<1> DEFINE r == ScaleMax - ScaleMin
           k == value - ScaleMax
           y == ToScale(value)
<1>1. Height \in Nat /\ Height >= 2
  BY ChartAssumption
<1>2. r \in Nat /\ k \in Nat /\ ScaleMax - value = -k
  OBVIOUS
<1>3. y = IF r = 0 THEN 0 ELSE (2 * (-k) * Height + r) \div (2 * r)
  BY <1>2 DEF ToScale
<1>4. Place(value) = IF y < 1 THEN 1 ELSE IF y > Height - 1 THEN Height - 1 ELSE y
  BY DEF Place
<1> HIDE DEF r, k, y
<1>5. CASE r # 0
  <2>1. k * Height \in Nat /\ 2 * (-k) * Height + r = r - 2 * (k * Height)
    BY <1>1, <1>2
  <2>2. 2 * r \in Nat /\ 2 * r # 0 /\ 2 * (-k) * Height + r \in Int
    BY <1>2, <1>5, <2>1
  <2>3. y \in Int /\ 2 * r * y <= r - 2 * (k * Height)
    BY <1>3, <1>5, <2>1, <2>2, Quotient
  <2>4. 2 * r * y <= r
    <3> HIDE <1>5
    <3> QED BY <1>2, <2>1, <2>3
  <2>5. y < 1
    <3> SUFFICES ASSUME y >= 1 PROVE FALSE
      BY <2>3
    <3>1. r * y >= r /\ 2 * r * y = 2 * (r * y) /\ r * y \in Int
      BY <1>2, <2>3
    <3> QED BY <1>2, <1>5, <2>4, <3>1
  <2> QED BY <1>4, <2>5
<1> QED BY <1>3, <1>4, <1>5

\* A value below it is drawn at the lower edge.
LEMMA PlacedAtBottom ==
  ASSUME NEW value \in Int, ScaleMin \in Int, ScaleMax \in Int,
         ScaleMax - ScaleMin > 0, value < ScaleMin
  PROVE  Place(value) = Height - 1
<1> DEFINE r == ScaleMax - ScaleMin
           k == ScaleMin - value
           d == ScaleMax - value
           y == ToScale(value)
<1>1. Height \in Nat /\ Height >= 2
  BY ChartAssumption
<1>2. r \in Nat /\ r # 0 /\ k \in Nat /\ k > 0 /\ d = r + k
  OBVIOUS
<1>3. y = (2 * d * Height + r) \div (2 * r)
  BY <1>2 DEF ToScale
<1>4. Place(value) = IF y < 1 THEN 1 ELSE IF y > Height - 1 THEN Height - 1 ELSE y
  BY DEF Place
<1> HIDE DEF r, k, d, y
<1>5. /\ r * Height \in Nat /\ k * Height \in Nat
      /\ 2 * d * Height = 2 * (r * Height) + 2 * (k * Height)
  BY <1>1, <1>2
<1>6. y \in Int /\ 2 * d * Height + r < 2 * r * y + 2 * r
  <2>1. 2 * r \in Nat /\ 2 * r # 0 /\ 2 * d * Height + r \in Int
    BY <1>1, <1>2, <1>5
  <2> QED BY <1>3, <2>1, Quotient
<1>7. y >= Height
  <2> SUFFICES ASSUME y <= Height - 1 PROVE FALSE
    BY <1>1, <1>6
  <2>1. r * (Height - 1 - y) \in Nat /\ r * (Height - 1 - y) = r * Height - r - r * y
    BY <1>1, <1>2, <1>6
  <2>2. r * y \in Int /\ 2 * r * y = 2 * (r * y)
    BY <1>2, <1>6
  <2> QED BY <1>2, <1>5, <1>6, <2>1, <2>2
<1> QED BY <1>1, <1>4, <1>6, <1>7

\* A chart with a point on it is drawn, whatever timers did to the bounds of
\* its series, and its points are drawn to scale or at the edge they are beyond.
THEOREM ScaleCorrect == Spec => []DrawnToScale
<1>1. TypeOK /\ BoundsInv => DrawnToScale
  <2> SUFFICES ASSUME TypeOK, BoundsInv, NEW s \in OnChart, NEW i \in DOMAIN data[s]
               PROVE  LET value == data[s][i].value
                          range == ScaleMax - ScaleMin
                      IN  /\ ~Empty
                          /\ range >= 0 /\ value > ScaleMax => Place(value) = 1
                          /\ range > 0 /\ value < ScaleMin => Place(value) = Height - 1
                          /\ ScaleMin <= value /\ value <= ScaleMax =>
                               Place(value) * range - (ScaleMax - value) * Height
                                 \in (-range)..range
    BY DEF DrawnToScale
  <2>1. s \in Series
    BY DEF TypeOK, OnChart
  <2>2. data[s] \in Seq(Point)
    BY <2>1 DEF TypeOK
  <2>3. data[s][i] \in Point
    BY <2>2
  <2>4. data[s][i].value \in Int
    BY <2>3, ChartAssumption DEF Point
  <2>5. maxValue[s] # NaN /\ minValue[s] # NaN
    BY <2>1 DEF BoundsInv, InBounds
  <2>6. SeriesMax \in Int /\ SeriesMin \in Int
    BY <2>5, SeriesBounds
  <2>7. ~Empty
    BY <2>6, ChartAssumption DEF Empty
  <2>8. ScaleMax \in Int /\ ScaleMin \in Int
    BY <2>6, ChartAssumption DEF ScaleMax, ScaleMin
  <2> QED BY <2>4, <2>7, <2>8, PlacedToScale, PlacedAtTop, PlacedAtBottom
<1> QED BY <1>1, BoundsInvariant, PTL

-----------------------------------------------------------------------------
(* The loops over points and over series.                                  *)

\* A set that has 0 and, with every number below N, the next has all up to N.
LEMMA Reach ==
  ASSUME NEW N \in Nat, NEW T, 0 \in T, \A n \in 0..N : n \in T /\ n < N => n + 1 \in T
  PROVE  \A n \in 0..N : n \in T
<1> DEFINE Out == {n \in 0..N : n \notin T}
<1> SUFFICES ASSUME Out # {} PROVE FALSE
  OBVIOUS
<1>1. Out \in SUBSET Nat
  OBVIOUS
<1> HIDE DEF Out
<1>2. PICK n \in Out : \A m \in Out : n <= m
  BY <1>1, LeastNumber
<1> USE DEF Out
<1>3. n \in 0..N /\ n # 0 /\ n \notin T
  OBVIOUS
<1>4. n - 1 \in 0..N /\ n - 1 < N /\ (n - 1) + 1 = n /\ ~(n <= n - 1)
  BY <1>3
<1>5. n - 1 \in T
  BY <1>2, <1>4
<1> QED BY <1>3, <1>4, <1>5

\* The loop that keeps the higher of what it has and the next value, skipping NaN
\* (smoothie.js:60, 178-188), computes the highest of them all.
LEMMA LoopHighest ==
  ASSUME NEW n \in Nat, NEW f \in [1..n -> Int \union {NaN}],
         NEW loop, loop[0] = NaN, \A i \in 1..n : loop[i] = Higher(loop[i - 1], f[i])
  PROVE  loop[n] = Highest({f[i] : i \in 1..n} \ {NaN})
<1> DEFINE V == {f[i] : i \in 1..n} \ {NaN}
           Seen(m) == IF \A i \in 1..m : f[i] = NaN THEN loop[m] = NaN
                      ELSE /\ loop[m] # NaN /\ \E i \in 1..m : loop[m] = f[i]
                           /\ \A i \in 1..m : f[i] # NaN => f[i] <= loop[m]
           T == {m \in 0..n : Seen(m)}
<1>1. 0 \in T
  BY ChartAssumption
<1>2. ASSUME NEW m \in 0..n, m \in T, m < n PROVE m + 1 \in T
  <2> DEFINE k == m + 1
  <2>1. /\ k \in 1..n /\ k \in 0..n /\ loop[k] = Higher(loop[m], f[k])
        /\ \A i \in 1..k : i \in 1..m \/ i = k
        /\ \A i \in 1..m : i \in 1..k
        /\ k \in 1..k
    <3>1. k \in 1..n /\ k - 1 = m
      BY <1>2
    <3> QED BY <3>1
  <2>2. Seen(m)
    BY <1>2
  <2>3. NaN \notin Int /\ \A i \in 1..k : f[i] # NaN => f[i] \in Int
    BY <2>1, ChartAssumption
  <2> HIDE DEF k
  <2>4. CASE \A i \in 1..m : f[i] = NaN
    <3>1. loop[m] = NaN /\ loop[k] = f[k]
      BY <2>1, <2>2, <2>4 DEF Higher
    <3>2. CASE f[k] = NaN
      <4>1. (\A i \in 1..k : f[i] = NaN) /\ loop[k] = NaN
        BY <2>1, <2>4, <3>1, <3>2
      <4>2. Seen(k)
        BY <4>1
      <4> QED BY <2>1, <4>2 DEF k
    <3>3. CASE f[k] # NaN
      <4>1. /\ loop[k] # NaN /\ \E i \in 1..k : loop[k] = f[i]
            /\ ~(\A i \in 1..k : f[i] = NaN)
        BY <2>1, <3>1, <3>3
      <4>2. \A i \in 1..k : f[i] # NaN => f[i] <= loop[k]
        <5>1. \A i \in 1..k : f[i] # NaN => i = k
          BY <2>1, <2>4
        <5>2. f[k] \in Int /\ f[k] <= loop[k]
          BY <2>1, <2>3, <3>1, <3>3
        <5> QED BY <5>1, <5>2
      <4>3. Seen(k)
        BY <4>1, <4>2
      <4> QED BY <2>1, <4>3 DEF k
    <3> QED BY <3>2, <3>3
  <2>5. CASE ~(\A i \in 1..m : f[i] = NaN)
    <3>1. PICK i \in 1..m : loop[m] = f[i]
      BY <2>2, <2>5
    <3>2. loop[m] # NaN /\ loop[m] \in Int
      BY <2>1, <2>2, <2>3, <2>5, <3>1
    <3>3. \A j \in 1..m : f[j] # NaN => f[j] <= loop[m]
      BY <2>2, <2>5
    <3>4. ~(\A j \in 1..k : f[j] = NaN)
      BY <2>1, <2>5
    <3>5. /\ loop[k] \in Int /\ loop[k] \in {loop[m], f[k]} /\ loop[m] <= loop[k]
          /\ f[k] # NaN => f[k] <= loop[k]
      <4>1. CASE f[k] = NaN
        BY <2>1, <2>3, <3>2, <4>1 DEF Higher
      <4>2. CASE f[k] # NaN
        <5>1. f[k] \in Int
          BY <2>1, <2>3, <4>2
        <5> QED BY <2>1, <3>2, <4>2, <5>1 DEF Higher
      <4> QED BY <4>1, <4>2
    <3>6. \E j \in 1..k : loop[k] = f[j]
      BY <2>1, <3>1, <3>5
    <3>7. ASSUME NEW j \in 1..k, f[j] # NaN PROVE f[j] <= loop[k]
      <4>1. CASE j = k
        BY <3>5, <3>7, <4>1
      <4>2. CASE j \in 1..m
        <5>1. f[j] <= loop[m] /\ f[j] \in Int
          BY <2>3, <3>3, <3>7, <4>2
        <5> QED BY <3>2, <3>5, <5>1
      <4> QED BY <2>1, <4>1, <4>2
    <3>8. Seen(k)
      BY <2>3, <3>4, <3>5, <3>6, <3>7
    <3> QED BY <2>1, <3>8 DEF k
  <2> QED BY <2>4, <2>5
<1>3. Seen(n)
  <2> HIDE DEF T
  <2>1. \A m \in 0..n : m \in T
    BY <1>1, <1>2, Reach
  <2> QED BY <2>1 DEF T
<1>4. /\ V # {} => Highest(V) \in V /\ \A v \in V : v <= Highest(V)
      /\ V = {} => Highest(V) = NaN
  <2>1. V = {f[i] : i \in 1..n} \ {NaN}
    OBVIOUS
  <2> HIDE DEF V
  <2> QED BY <2>1, HighestOf
<1>5. CASE \A i \in 1..n : f[i] = NaN
  <2>1. V = {}
    BY <1>5
  <2> QED BY <1>3, <1>4, <1>5, <2>1
<1>6. CASE ~(\A i \in 1..n : f[i] = NaN)
  <2>1. PICK k \in 1..n : loop[n] = f[k]
    BY <1>3, <1>6
  <2>2. loop[n] \in V /\ \A i \in 1..n : f[i] # NaN => f[i] <= loop[n]
    BY <1>3, <1>6, <2>1
  <2>3. V \subseteq Int /\ \A v \in V : v <= loop[n]
    BY <2>2, ChartAssumption
  <2>4. Highest(V) \in V /\ loop[n] <= Highest(V)
    BY <1>4, <2>2
  <2> HIDE DEF V
  <2>5. Highest(V) \in Int /\ loop[n] \in Int /\ Highest(V) <= loop[n]
    BY <2>2, <2>3, <2>4
  <2>6. Highest(V) = loop[n]
    BY <2>4, <2>5
  <2> QED BY <2>6 DEF V
<1> QED BY <1>5, <1>6

\* And the one that keeps the lower, the lowest (smoothie.js:61, 178-188).
LEMMA LoopLowest ==
  ASSUME NEW n \in Nat, NEW f \in [1..n -> Int \union {NaN}],
         NEW loop, loop[0] = NaN, \A i \in 1..n : loop[i] = Lower(loop[i - 1], f[i])
  PROVE  loop[n] = Lowest({f[i] : i \in 1..n} \ {NaN})
<1> DEFINE V == {f[i] : i \in 1..n} \ {NaN}
           Seen(m) == IF \A i \in 1..m : f[i] = NaN THEN loop[m] = NaN
                      ELSE /\ loop[m] # NaN /\ \E i \in 1..m : loop[m] = f[i]
                           /\ \A i \in 1..m : f[i] # NaN => loop[m] <= f[i]
           T == {m \in 0..n : Seen(m)}
<1>1. 0 \in T
  BY ChartAssumption
<1>2. ASSUME NEW m \in 0..n, m \in T, m < n PROVE m + 1 \in T
  <2> DEFINE k == m + 1
  <2>1. /\ k \in 1..n /\ k \in 0..n /\ loop[k] = Lower(loop[m], f[k])
        /\ \A i \in 1..k : i \in 1..m \/ i = k
        /\ \A i \in 1..m : i \in 1..k
        /\ k \in 1..k
    <3>1. k \in 1..n /\ k - 1 = m
      BY <1>2
    <3> QED BY <3>1
  <2>2. Seen(m)
    BY <1>2
  <2>3. NaN \notin Int /\ \A i \in 1..k : f[i] # NaN => f[i] \in Int
    BY <2>1, ChartAssumption
  <2> HIDE DEF k
  <2>4. CASE \A i \in 1..m : f[i] = NaN
    <3>1. loop[m] = NaN /\ loop[k] = f[k]
      BY <2>1, <2>2, <2>4 DEF Lower
    <3>2. CASE f[k] = NaN
      <4>1. (\A i \in 1..k : f[i] = NaN) /\ loop[k] = NaN
        BY <2>1, <2>4, <3>1, <3>2
      <4>2. Seen(k)
        BY <4>1
      <4> QED BY <2>1, <4>2 DEF k
    <3>3. CASE f[k] # NaN
      <4>1. /\ loop[k] # NaN /\ \E i \in 1..k : loop[k] = f[i]
            /\ ~(\A i \in 1..k : f[i] = NaN)
        BY <2>1, <3>1, <3>3
      <4>2. \A i \in 1..k : f[i] # NaN => loop[k] <= f[i]
        <5>1. \A i \in 1..k : f[i] # NaN => i = k
          BY <2>1, <2>4
        <5>2. f[k] \in Int /\ loop[k] <= f[k]
          BY <2>1, <2>3, <3>1, <3>3
        <5> QED BY <5>1, <5>2
      <4>3. Seen(k)
        BY <4>1, <4>2
      <4> QED BY <2>1, <4>3 DEF k
    <3> QED BY <3>2, <3>3
  <2>5. CASE ~(\A i \in 1..m : f[i] = NaN)
    <3>1. PICK i \in 1..m : loop[m] = f[i]
      BY <2>2, <2>5
    <3>2. loop[m] # NaN /\ loop[m] \in Int
      BY <2>1, <2>2, <2>3, <2>5, <3>1
    <3>3. \A j \in 1..m : f[j] # NaN => loop[m] <= f[j]
      BY <2>2, <2>5
    <3>4. ~(\A j \in 1..k : f[j] = NaN)
      BY <2>1, <2>5
    <3>5. /\ loop[k] \in Int /\ loop[k] \in {loop[m], f[k]} /\ loop[k] <= loop[m]
          /\ f[k] # NaN => loop[k] <= f[k]
      <4>1. CASE f[k] = NaN
        BY <2>1, <2>3, <3>2, <4>1 DEF Lower
      <4>2. CASE f[k] # NaN
        <5>1. f[k] \in Int
          BY <2>1, <2>3, <4>2
        <5> QED BY <2>1, <3>2, <4>2, <5>1 DEF Lower
      <4> QED BY <4>1, <4>2
    <3>6. \E j \in 1..k : loop[k] = f[j]
      BY <2>1, <3>1, <3>5
    <3>7. ASSUME NEW j \in 1..k, f[j] # NaN PROVE loop[k] <= f[j]
      <4>1. CASE j = k
        BY <3>5, <3>7, <4>1
      <4>2. CASE j \in 1..m
        <5>1. loop[m] <= f[j] /\ f[j] \in Int
          BY <2>3, <3>3, <3>7, <4>2
        <5> QED BY <3>2, <3>5, <5>1
      <4> QED BY <2>1, <4>1, <4>2
    <3>8. Seen(k)
      BY <2>3, <3>4, <3>5, <3>6, <3>7
    <3> QED BY <2>1, <3>8 DEF k
  <2> QED BY <2>4, <2>5
<1>3. Seen(n)
  <2> HIDE DEF T
  <2>1. \A m \in 0..n : m \in T
    BY <1>1, <1>2, Reach
  <2> QED BY <2>1 DEF T
<1>4. /\ V # {} => Lowest(V) \in V /\ \A v \in V : Lowest(V) <= v
      /\ V = {} => Lowest(V) = NaN
  <2>1. V = {f[i] : i \in 1..n} \ {NaN}
    OBVIOUS
  <2> HIDE DEF V
  <2> QED BY <2>1, LowestOf
<1>5. CASE \A i \in 1..n : f[i] = NaN
  <2>1. V = {}
    BY <1>5
  <2> QED BY <1>3, <1>4, <1>5, <2>1
<1>6. CASE ~(\A i \in 1..n : f[i] = NaN)
  <2>1. PICK k \in 1..n : loop[n] = f[k]
    BY <1>3, <1>6
  <2>2. loop[n] \in V /\ \A i \in 1..n : f[i] # NaN => loop[n] <= f[i]
    BY <1>3, <1>6, <2>1
  <2>3. V \subseteq Int /\ \A v \in V : loop[n] <= v
    BY <2>2, ChartAssumption
  <2>4. Lowest(V) \in V /\ Lowest(V) <= loop[n]
    BY <1>4, <2>2
  <2> HIDE DEF V
  <2>5. Lowest(V) \in Int /\ loop[n] \in Int /\ loop[n] <= Lowest(V)
    BY <2>2, <2>3, <2>4
  <2>6. Lowest(V) = loop[n]
    BY <2>4, <2>5
  <2> QED BY <2>6 DEF V
<1> QED BY <1>5, <1>6
=============================================================================
