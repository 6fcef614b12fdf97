CONSTANTS
  Starters = {s1, s2}
  Addrs = {s1, s2}
  MaxCalls = 3
  MaxRuns = 3
  Procs = {p1, p2}
  Items = {x1, x2, x3}
  Sizes <- MCSizes
  Idle = Idle
  BlockSize = 2
  Wanted = {0, 1, 2}
  Contents <- MCContents
  Appended = {"a", "n"}
  MaxSize = 4
SPECIFICATION Spec
INVARIANT
  ReturnsLastLines
PROPERTIES
  ResultsTrue
  ListenFailsOnlyIfSpent
  OwnerReturns
  TwoLocksSafe
  TailReturns
CHECK_DEADLOCK FALSE
