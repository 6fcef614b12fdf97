CONSTANTS
  Files = {f1, f2, f3}
  Count = 2
  SmallSlices = {2, 3}
  MaxTime = 1
  MaxBlock = 4
  MaxRuns = 3
  Names = {"APP_ENV", "svc.addr"}
  Environments = {"development", "production", "test"}
  Unset = Unset
SPECIFICATION Spec
SYMMETRY Symmetry
INVARIANTS
  ReturnsOldestWhole
  GuestMemoryKept
  FirstSourceWins
CHECK_DEADLOCK FALSE
