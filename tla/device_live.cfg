CONSTANTS
  Readers = {r1}
  FifoSize = 4
  IndexMod = 8
  Top = 1
  WordMod = 8
  TickMod = 1
  Counts = {3}
  Stores = {0, 2, 7}
  SMP = FALSE
  Signals = TRUE
  Faults = FALSE
SPECIFICATION FairSpec
PROPERTY SleeperReturns
PROPERTY WaveHeals
