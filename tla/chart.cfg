CONSTANTS
  Series = {s1, s2}
  NaN = NaN
  Off = Off
  MaxOption = 4
  MinOption = 2
  Delays = {1}
  MillisPerPixel = 2
  Width = 1
  Height = 3
  Values = {1, 3, 5}
  FirstAges = {0, 5}
  MaxAge = 5
  MaxPoints = 3
SPECIFICATION FairSpec
INVARIANTS
  TypeOK
  DrawnToScale
PROPERTIES
  LineKept
  OldPointsGo
