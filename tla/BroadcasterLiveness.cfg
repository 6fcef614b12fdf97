\* Two callers, two messages, one listener whose owner may never receive; Start
\* may be called again after Stop, and a panic then ends the program.
CONSTANTS
  Callers = {c1, c2}
  Messages = {m1, m2}
  Listeners = {l1}
  Worker = Worker
  None = None
  Calls <- OwnerAndClient
  MaxStartCalls = 2
SPECIFICATION FairSpec
CHECK_DEADLOCK FALSE
INVARIANT
  InOrder
PROPERTIES
  CallsReturn
  WorkerEnds
  SentIsTaken
  RestartDeliversNothing
