CONSTANTS
  Pages = {p1}
  NoPoint = NoPoint
  Capacity = 5
  InFlight = 3
  MaxDead = 2
SPECIFICATION FairSpec
INVARIANTS
  TypeOK
  StampedOnPage
  OnceInOrder
PROPERTY
  UpdatesArrive
