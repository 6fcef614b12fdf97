---------------------------- MODULE ServiceBase ----------------------------
(***************************************************************************)
(* pkg/service/base.go: what every service embeds.  A base owns a context  *)
(* derived from the one its creator passed in, a status guarded by a lock, *)
(* and a goroutine that waits for the context and then closes the          *)
(* telemetry and the log.                                                  *)
(***************************************************************************)
CONSTANT Bases

VARIABLES
  parentDone,   \* the context given to WithContext is cancelled
  cancelled,    \* s.cancel was called, for each base
  status,       \* s.status
  waiter        \* waitForDoneAndEndTheWorld: "waiting" or "ended"

baseVars == <<parentDone, cancelled, status, waiter>>

BaseTypeOK ==
  /\ parentDone \in BOOLEAN
  /\ cancelled \in [Bases -> BOOLEAN]
  /\ status \in [Bases -> {"starting", "started", "stopped"}]
  /\ waiter \in [Bases -> {"waiting", "ended"}]

\* New
BaseInit ==
  /\ parentDone = FALSE
  /\ cancelled = [b \in Bases |-> FALSE]
  /\ status = [b \in Bases |-> "starting"]
  /\ waiter = [b \in Bases |-> "waiting"]

\* <-s.Ctx.Done() would not block.
CtxDone(b) == parentDone \/ cancelled[b]

\* The owner of the parent context cancels it.
CancelParent ==
  /\ ~parentDone
  /\ parentDone' = TRUE
  /\ UNCHANGED <<cancelled, status, waiter>>

Stop(b) == cancelled' = [cancelled EXCEPT ![b] = TRUE]

SetStartedNow(b) == status' = [status EXCEPT ![b] = "started"]

Stopped(b) == status' = [status EXCEPT ![b] = "stopped"]

\* The providers are shut down within five seconds, successfully or not;
\* the deferred cancel follows.
waitForDoneAndEndTheWorld(b) ==
  /\ waiter[b] = "waiting"
  /\ CtxDone(b)
  /\ waiter' = [waiter EXCEPT ![b] = "ended"]
  /\ Stop(b)
  /\ UNCHANGED <<parentDone, status>>
=============================================================================
