CONSTANTS
  Base = Base
  Sidecar = Sidecar
  Bases = {Base}
  Servers = {Sidecar}
  Sidecars = {Sidecar}
  NoServer = NoServer
  BaseOf <- MCBaseOf
  SidecarOf <- MCSidecarOf
SPECIFICATION FairSpec
CHECK_DEADLOCK FALSE
INVARIANTS
  NothingLeft
  StaleStatusOnlyIfOvertaken
PROPERTY
  ProcessRunsAndEnds
