\* Two callers of ListenerForEvents race with Close; the cache does not change.
CONSTANTS
  Callers = {c1, c2}
  Changes = {}
  None = None
  ChanCap = 1
  WindowSize = 1
SPECIFICATION Spec
SYMMETRY Symmetry
INVARIANTS
  OpenAfterCloseOnlyIfRaced
\* Every call and every stream comes to an end.
CHECK_DEADLOCK FALSE
