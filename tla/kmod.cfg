CONSTANTS
  Observers = {o1, o2}
  Nobody = Nobody
  RcvBuf = 2
  CountMod = 3
  Failures = TRUE
  Removable = TRUE
  Shortage = TRUE
  SMP = FALSE
SPECIFICATION FairSpec
INVARIANTS
  TypeOK
  NoUseAfterFree
  NothingLeftBehind
  OwnerKept
  NoGap
PROPERTY
  OwnerNotified
