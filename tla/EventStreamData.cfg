\* One stream, two changes.
CONSTANTS
  Callers = {c1}
  Changes = {m1, m2}
  None = None
  ChanCap = 1
  WindowSize = 1
SPECIFICATION FairSpec
INVARIANTS
  NothingLostInTransit
  LeakOnlyAfterFailedSend
PROPERTY
  StreamsEnd
\* Every call and every stream comes to an end.
CHECK_DEADLOCK FALSE
