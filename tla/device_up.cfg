CONSTANTS
  Readers = {r1}
  FifoSize = 4
  IndexMod = 8
  Top = 1
  WordMod = 8
  TickMod = 2
  Counts = {0, 2, 4}
  Stores = {}
  SMP = FALSE
  Signals = FALSE
  Faults = TRUE
SPECIFICATION Spec
INVARIANT TypeOK
INVARIANT InWave
INVARIANT NoEmptyRead
INVARIANT PollTruth
INVARIANT StampedByOwnTick
PROPERTY ImplementsStream
