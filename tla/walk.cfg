SPECIFICATION FairSpec
CONSTANTS
  root = root
  direct = direct
  devdirect = devdirect
  leaf = leaf
  Root = root
  Names = {root, direct, devdirect, leaf}
  Registries <- SmallRegistries
INVARIANTS
  TypeOK
  LevelsContiguous
  WalkClosed
  ListedOnce
PROPERTY
  WalkEnds
