SPECIFICATION Spec
CONSTANTS
  root = root
  a = a
  serve = serve
  Names = {root, a, serve}
  Root = root
  Skipped = {serve}
  Releases <- SmallReleases
INVARIANT
  EveryPackageNamed
