CONSTANTS
  Readers = {r1, r2}
  FifoSize = 4
  IndexMod = 8
  Top = 1
  WordMod = 8
  TickMod = 1
  Counts = {4}
  Stores = {}
  SMP = FALSE
  Signals = FALSE
  Faults = FALSE
SPECIFICATION Spec
INVARIANT NoEmptyRead
