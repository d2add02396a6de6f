--------------------------- MODULE SmoothieChart ---------------------------
(***************************************************************************)
(* The chart of the oscilloscope's page, demos/oscilloscope/public/        *)
(* smoothie.js: time series that keep their points and the bounds of their *)
(* values, and a chart that draws them at every tick of an interval timer  *)
(* and deletes what has moved off its left edge.                           *)
(*                                                                         *)
(* Two timers (the chart's and each series' own) and the page's code run   *)
(* one at a time in the page's event loop, in any order.                   *)
(*                                                                         *)
(* A point is kept with its age, the browser's time less its time stamp;   *)
(* where it is drawn is a matter of its age alone.                         *)
(***************************************************************************)
EXTENDS Integers, Sequences, FiniteSets, SequencesExt

CONSTANTS
  Series,          \* the time series of the page
  NaN,             \* Number.NaN
  Off,             \* undefined
  MaxOption,       \* options.maxValue, the top of a fixed scale, or Off
  MinOption,       \* options.minValue, its bottom, or Off
  Delays,          \* the delays streamTo is called with, in milliseconds
  MillisPerPixel,  \* options.millisPerPixel
  Width,           \* canvas.clientWidth, in pixels
  Height,          \* canvas.clientHeight, in pixels
  Values,          \* the values of the points
  FirstAges,       \* how old a point may be when it is appended (below 0 when
                   \* the clock that stamped it is ahead of the browser's)
  MaxAge,          \* bound: older points are all off the chart
  MaxPoints        \* bound on the points kept at a time

Span == Width * MillisPerPixel

ASSUME ChartAssumption ==
  /\ NaN \notin Int /\ Off \notin Int
  /\ MaxOption \in Int \union {Off} /\ MinOption \in Int \union {Off}
  /\ Delays \subseteq Nat
  /\ MillisPerPixel \in Nat \ {0} /\ Width \in Nat \ {0}
  /\ Height \in Nat \ {0, 1}
  /\ Values \subseteq Int
  /\ MaxAge \in Nat
  /\ \A delay \in Delays : delay + MillisPerPixel + Span <= MaxAge
  /\ FirstAges \subseteq Int /\ \A age \in FirstAges : age <= MaxAge
  /\ MaxPoints \in Nat

VARIABLES
  data,       \* the points of each series, in the order they were appended
  maxValue,   \* the bounds each series keeps for the chart's scale
  minValue,
  seriesSet,  \* the series on the chart
  onTick,     \* the delay render_on_tick was made with
  timer,      \* the delay of the function the interval timer calls
  phase       \* the browser's clock, modulo MillisPerPixel

bounds == <<maxValue, minValue>>
chart == <<seriesSet, onTick, timer>>
vars == <<data, bounds, chart, phase>>

Point == [age : Int, value : Values]

-----------------------------------------------------------------------------
(* TimeSeries.                                                             *)

\* Math.max and Math.min where NaN stands for no value yet.
Higher(a, b) == IF a = NaN \/ (b # NaN /\ b > a) THEN b ELSE a
Lower(a, b) == IF a = NaN \/ (b # NaN /\ b < a) THEN b ELSE a

\* The points come in the order of their time stamps: the board's clock is
\* not set back while it samples.
InOrder(s, age) == data[s] # <<>> => age <= Last(data[s]).age

\* (The number of points is bounded here, by nothing in the code.)
Room == Cardinality(UNION {{s} \X DOMAIN data[s] : s \in Series}) < MaxPoints

\* Mutant of AppendPoint: the bounds are left to the timer that resets them.
AppendUntracked(s) == \E age \in FirstAges, value \in Values :
  /\ Room /\ InOrder(s, age)
  /\ data' = [data EXCEPT ![s] = Append(@, [age |-> age, value |-> value])]
  /\ UNCHANGED <<bounds, chart, phase>>

AppendPoint(s) == \E age \in FirstAges, value \in Values :
  /\ Room /\ InOrder(s, age)
  /\ data' = [data EXCEPT ![s] = Append(@, [age |-> age, value |-> value])]
  /\ maxValue' = [maxValue EXCEPT ![s] = Higher(@, value)]
  /\ minValue' = [minValue EXCEPT ![s] = Lower(@, value)]
  /\ UNCHANGED <<chart, phase>>

\* What Math.max and Math.min make of several values, NaN when there is none.
Highest(values) == IF values = {} THEN NaN ELSE Max(values)
Lowest(values) == IF values = {} THEN NaN ELSE Min(values)

ValuesOf(s) == {data[s][i].value : i \in DOMAIN data[s]}

\* Mutant of ResetBounds: the new bounds start from 0.
ResetBoundsZero(s) ==
  /\ maxValue' = [maxValue EXCEPT ![s] = Highest(ValuesOf(s) \union {0})]
  /\ minValue' = [minValue EXCEPT ![s] = Lowest(ValuesOf(s) \union {0})]
  /\ UNCHANGED <<data, chart, phase>>

\* The series' interval timer calls resetBounds.  (It always runs: line 42
\* takes an option resetBounds of false for one that is not given.)
ResetBounds(s) ==
  /\ maxValue' = [maxValue EXCEPT ![s] = Highest(ValuesOf(s))]
  /\ minValue' = [minValue EXCEPT ![s] = Lowest(ValuesOf(s))]
  /\ UNCHANGED <<data, chart, phase>>

-----------------------------------------------------------------------------
(* SmoothieChart.                                                          *)

OnChart == {seriesSet[i] : i \in DOMAIN seriesSet}

\* (As many places as there are series is a bound.)
AddTimeSeries(s) ==
  /\ Len(seriesSet) < Cardinality(Series)
  /\ seriesSet' = Append(seriesSet, s)
  /\ UNCHANGED <<data, bounds, onTick, timer, phase>>

\* Whichever series is to be removed, the one added last is: the list holds
\* wrappers around the series, so indexOf finds none, and splice(-1, 1) takes
\* the last one out.
RemoveTimeSeries ==
  /\ seriesSet # <<>>
  /\ seriesSet' = Front(seriesSet)
  /\ UNCHANGED <<data, bounds, onTick, timer, phase>>

\* A chart that is running goes on with the function it was started with.
StreamTo == \E delay \in Delays :
  /\ onTick' = delay
  /\ timer' = IF timer = Off THEN delay ELSE timer
  /\ UNCHANGED <<data, bounds, seriesSet, phase>>

\* (A chart is started after it was given a canvas by streamTo.)
Start ==
  /\ onTick # Off /\ timer = Off
  /\ timer' = onTick
  /\ UNCHANGED <<data, bounds, seriesSet, onTick, phase>>

Stop ==
  /\ timer # Off
  /\ timer' = Off
  /\ UNCHANGED <<data, bounds, seriesSet, onTick, phase>>

\* A point is off the chart's left edge.  The chart's time is the browser's
\* less the delay, rounded down to a whole pixel.
HasLeft(p) == p.age > timer + ((phase - timer) % MillisPerPixel) + Span

\* Mutants of Expire: the loop looks at the first point, not the second.
ExpireFirst(d) ==
  SubSeq(d, Min({n \in 0..Len(d) : n = Len(d) \/ ~HasLeft(d[n + 1])}) + 1, Len(d))

\* The loop that deletes the first point while the second has left.
Expire(d) ==
  SubSeq(d, Min({n \in 0..Len(d) : Len(d) - n < 2 \/ ~HasLeft(d[n + 2])}) + 1, Len(d))

\* The bounds of all the series on the chart ...
SeriesMax == Highest({maxValue[s] : s \in OnChart} \ {NaN})
SeriesMin == Lowest({minValue[s] : s \in OnChart} \ {NaN})

\* ... by which the chart tells whether there is anything to draw, before it
\* looks at its options ...
Empty == SeriesMax = NaN /\ SeriesMin = NaN

\* ... and which are the chart's scale as far as the options do not fix it.
\* (maxValueScale is its default, 1.)
ScaleMax == IF MaxOption # Off THEN MaxOption ELSE SeriesMax
ScaleMin == IF MinOption # Off THEN MinOption ELSE SeriesMin

\* Mutant of Render: a chart of which one series is empty is not drawn.
RenderIfAll ==
  /\ timer # Off /\ \A s \in Series : maxValue[s] # NaN
  /\ data' = [s \in Series |-> IF s \in OnChart THEN Expire(data[s]) ELSE data[s]]
  /\ UNCHANGED <<bounds, chart, phase>>

\* An empty chart is not drawn, and nothing is deleted.
Render ==
  /\ timer # Off /\ ~Empty
  /\ data' = [s \in Series |-> IF s \in OnChart THEN Expire(data[s]) ELSE data[s]]
  /\ UNCHANGED <<bounds, chart, phase>>

\* The height at which a value is drawn, counted from the top: to scale, and
\* then moved into the chart.
ToScale(value) ==
  LET range == ScaleMax - ScaleMin
  IN  IF range = 0 THEN 0
      ELSE (2 * (ScaleMax - value) * Height + range) \div (2 * range)

\* Mutant of Place: a value above the scale is drawn above the chart.
PlaceBelowTop(value) ==
  LET y == ToScale(value)
  IN  IF y > Height - 1 THEN Height - 1 ELSE y

Place(value) ==
  LET y == ToScale(value)
  IN  IF y < 1 THEN 1 ELSE IF y > Height - 1 THEN Height - 1 ELSE y

\* The browser's clock.
Tick ==
  /\ phase' = (phase + 1) % MillisPerPixel
  /\ data' = [s \in Series |-> [i \in DOMAIN data[s] |->
       [data[s][i] EXCEPT !.age = IF @ < MaxAge THEN @ + 1 ELSE @]]]
  /\ UNCHANGED <<bounds, chart>>

-----------------------------------------------------------------------------
Init ==
  /\ data = [s \in Series |-> <<>>]
  /\ maxValue = [s \in Series |-> NaN] /\ minValue = [s \in Series |-> NaN]
  /\ seriesSet = <<>> /\ onTick = Off /\ timer = Off
  /\ phase = 0

Next ==
  \/ \E s \in Series : AppendPoint(s) \/ ResetBounds(s) \/ AddTimeSeries(s)
  \/ RemoveTimeSeries \/ StreamTo \/ Start \/ Stop \/ Render \/ Tick

Spec == Init /\ [][Next]_vars

\* Time passes, and the event loop serves the chart's interval timer.
FairSpec == Spec /\ WF_vars(Tick) /\ WF_vars(Render)

-----------------------------------------------------------------------------
(* Properties.                                                             *)

TypeOK ==
  /\ data \in [Series -> Seq(Point)]
  /\ maxValue \in [Series -> Values \union {NaN}]
  /\ minValue \in [Series -> Values \union {NaN}]
  /\ seriesSet \in Seq(Series)
  /\ onTick \in Delays \union {Off}
  /\ timer \in Delays \union {Off}
  /\ phase \in 0..(MillisPerPixel - 1)

\* Lines 211-213: a series only ever loses points that have left the chart,
\* and never the last one that has, from which the line enters it: what is
\* on the chart, and the segment that crosses its edge, is always drawn.
LineKept == [][\A s \in Series : Len(data'[s]) < Len(data[s]) =>
  LET left == Cardinality({i \in DOMAIN data[s] : HasLeft(data[s][i])})
  IN  left # 0 /\ data'[s] = SubSeq(data[s], left, Len(data[s]))]_vars

\* Lines 190, 232: bounds are reset, points appended and deleted at times
\* of their own, yet a chart with a point on it is always drawn, though its own
\* scale is fixed and does not need the bounds.  On a scale that is the right
\* way up a reading is drawn within a pixel of its exact height, the wave's
\* ends included, which are the scale's; and one beyond the scale, as a process
\* may store it, at the edge it is beyond.  (A reading that wrapped below 0
\* reaches the page as a negative number, lophilo.js:32.)
DrawnToScale == \A s \in OnChart : \A i \in DOMAIN data[s] :
  LET value == data[s][i].value
      range == ScaleMax - ScaleMin
  IN  /\ ~Empty
      /\ range >= 0 /\ value > ScaleMax => Place(value) = 1
      /\ range > 0 /\ value < ScaleMin => Place(value) = Height - 1
      /\ ScaleMin <= value /\ value <= ScaleMax =>
           Place(value) * range - (ScaleMax - value) * Height \in (-range)..range

\* Points that have left a chart that is running are deleted, all but the
\* last: a series on such a chart does not grow for ever.
OldPointsGo == \A s \in Series :
  (timer # Off /\ s \in OnChart) ~>
    \/ timer = Off \/ s \notin OnChart
    \/ Cardinality({i \in DOMAIN data[s] : HasLeft(data[s][i])}) < 2
=============================================================================
