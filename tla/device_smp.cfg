CONSTANTS
  Readers = {r1}
  FifoSize = 4
  IndexMod = 8
  Top = 1
  WordMod = 8
  TickMod = 2
  Counts = {3}
  Stores = {}
  SMP = TRUE
  Signals = FALSE
  Faults = FALSE
SPECIFICATION Spec
INVARIANT NoUseAfterFree
INVARIANT FifoIntact
INVARIANT NoLostWakeup
PROPERTY ImplementsStream
