CONSTANTS
  main = main
  pprof = pprof
  mainBase = mainBase
  pprofBase = pprofBase
  Servers = {main, pprof}
  Bases = {mainBase, pprofBase}
  Sidecars = {pprof}
  Main = main
  NoServer = NoServer
  BaseOf <- MCBaseOf
  SidecarOf <- MCSidecarOf
SPECIFICATION FairSpec
CHECK_DEADLOCK FALSE
INVARIANTS
  CleanReturn
  SidecarHarmless
PROPERTY
  CancelEnds
