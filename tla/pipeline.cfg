SPECIFICATION FairSpec
CONSTANTS
  root = root
  a = a
  serve = serve
  Names = {root, a, serve}
  Root = root
  Skipped = {serve}
  Releases <- SmallReleases
INVARIANTS
  TypeOK
  NamesAgree
  NamesFound
  BuiltUnlessMissed
PROPERTIES
  NamesAreFinal
  RunEnds
