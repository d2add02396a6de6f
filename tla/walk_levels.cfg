SPECIFICATION Spec
CONSTANTS
  root = root
  direct = direct
  devdirect = devdirect
  leaf = leaf
  Root = root
  Names = {root, direct, devdirect, leaf}
  Registries <- TestRegistries
INVARIANT
  RightBelowDependent
