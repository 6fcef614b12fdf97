\* Two concurrent callers, two messages, two listeners, one Start.
CONSTANTS
  Callers = {c1, c2}
  Messages = {m1, m2}
  Listeners = {l1, l2}
  Worker = Worker
  None = None
  Calls <- AllCalls
  MaxStartCalls = 1
SPECIFICATION Spec
SYMMETRY Symmetry
INVARIANTS
  NobodyWaitsInACircle
  NoPanicBeforeRestart
  StopQuiesces
  NoSkippedListener
PROPERTY
  RefinesOrderedBroadcast
