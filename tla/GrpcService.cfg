CONSTANTS
  Base = Base
  pprofBase = pprofBase
  Bases = {Base, pprofBase}
  Servers = {pprof}
  Sidecars = {pprof}
  NoServer = NoServer
  WithHealth = TRUE
  BaseOf <- MCBaseOf
  SidecarOf <- MCSidecarOf
SPECIFICATION FairSpec
CHECK_DEADLOCK FALSE
INVARIANTS
  NotServingWhenStopped
  PublishedIsLastOutcome
  CleanReturn
PROPERTY
  ShutsDown
