---------------------------- MODULE GrpcService ----------------------------
(***************************************************************************)
(* pkg/service/grpc/service.go: a gRPC service from Serve to its return,   *)
(* with the goroutine that stops the server when the context is done, the  *)
(* health goroutine and, when profiling is enabled, the pprof sidecar: an  *)
(* HTTP service whose base derives from the parent context and not from    *)
(* the base of the service.  The server and the health server of           *)
(* google.golang.org/grpc are modelled by what this code relies on.        *)
(***************************************************************************)
EXTENDS HttpService

CONSTANTS
  Base,         \* g.base
  WithHealth    \* a health check function was configured

ASSUME GrpcWiring == Base \in Bases /\ WithHealth \in BOOLEAN /\ Servers = Sidecars

VARIABLES
  gpc,          \* the goroutine in Serve
  gresult,      \* what Serve returned
  stopper,      \* the goroutine that waits for the context
  gstopped,     \* grpcServer.Stop was called
  hpc,          \* healthcheckIt
  outcome,      \* what the last health check said
  current,      \* the status healthcheckIt believes to have published
  published,    \* the status the health server answers with
  hshutdown     \* healthCheckSrv.Shutdown was called

grpcVars == <<gpc, gresult, stopper, gstopped>>
healthVars == <<hpc, outcome, current, published, hshutdown>>
vars == <<baseVars, httpVars, grpcVars, healthVars>>

TypeOK ==
  /\ BaseTypeOK /\ HttpTypeOK
  /\ gpc \in {"new", "DoServe", "SetStartedNow", "spawn", "serving", "wait", "returned"}
  /\ gresult \in {"none", "nil", "err"}
  /\ stopper \in {"none", "waiting", "stopServer", "ended"}
  /\ gstopped \in BOOLEAN
  /\ hpc \in {"none", "check", "set", "select", "ended"}
  /\ outcome \in {"none", "ok", "err"}
  /\ current \in {"UNKNOWN", "SERVING", "NOT_SERVING"}
  /\ published \in {"SERVING", "NOT_SERVING"}
  /\ hshutdown \in BOOLEAN

\* New registers the health server as NOT_SERVING.
Init ==
  /\ BaseInit /\ HttpInit
  /\ gpc = "new" /\ gresult = "none"
  /\ stopper = "none" /\ gstopped = FALSE
  /\ hpc = "none" /\ outcome = "none"
  /\ current = "UNKNOWN" /\ published = "NOT_SERVING" /\ hshutdown = FALSE

-----------------------------------------------------------------------------
(* The health server of the library. *)

\* SetServingStatus does nothing after Shutdown.
SetServingStatus(st) == published' = IF hshutdown THEN published ELSE st

Shutdown ==
  /\ published' = "NOT_SERVING"
  /\ hshutdown' = TRUE

-----------------------------------------------------------------------------
\* Serve: listen, or return the error of Listen.
GrpcServe ==
  /\ gpc = "new"
  /\ \/ gpc' = "DoServe" /\ UNCHANGED gresult
     \/ gpc' = "returned" /\ gresult' = "err"
  /\ UNCHANGED <<baseVars, httpVars, stopper, gstopped, healthVars>>

\* DoServe returns: the deferred g.base.Stop().
GrpcReturn(err) ==
  /\ gpc' = "returned"
  /\ gresult' = err
  /\ Stop(Base)
  /\ UNCHANGED <<parentDone, status, waiter>>

\* An unconfigured address is an error; otherwise the stopper is started.
GrpcDoServe ==
  /\ gpc = "DoServe"
  /\ \/ GrpcReturn("err") /\ UNCHANGED stopper
     \/ gpc' = "SetStartedNow" /\ stopper' = "waiting" /\ UNCHANGED <<baseVars, gresult>>
  /\ UNCHANGED <<httpVars, gstopped, healthVars>>

GrpcSetStarted ==
  /\ gpc = "SetStartedNow"
  /\ SetStartedNow(Base)
  /\ gpc' = "spawn"
  /\ UNCHANGED <<parentDone, cancelled, waiter, httpVars, gresult, stopper, gstopped, healthVars>>

\* The health goroutine and the sidecar's, then grpcServer.Serve.
GrpcSpawn ==
  /\ gpc = "spawn"
  /\ gpc' = "serving"
  /\ hpc' = IF WithHealth THEN "check" ELSE hpc
  /\ pc' = [s \in Servers |-> "Serve"]
  /\ UNCHANGED <<baseVars, result, closing, shutter, errCh, gresult, stopper, gstopped,
                 outcome, current, published, hshutdown>>

\* grpcServer.Serve returns an error: the sidecar is not waited for.
GrpcServeFails ==
  /\ gpc = "serving" /\ ~gstopped
  /\ GrpcReturn("err")
  /\ UNCHANGED <<httpVars, stopper, gstopped, healthVars>>

\* grpcServer.Serve returns nil or ErrServerStopped.
GrpcServeStopped ==
  /\ gpc = "serving" /\ gstopped
  /\ gpc' = "wait"
  /\ UNCHANGED <<baseVars, httpVars, gresult, stopper, gstopped, healthVars>>

\* Mutant: the sidecar is not waited for.
GrpcWaitNobody ==
  /\ gpc = "wait"
  /\ GrpcReturn("nil")
  /\ UNCHANGED <<httpVars, stopper, gstopped, healthVars>>

\* w.Wait() and return nil
GrpcWaitSidecar ==
  /\ gpc = "wait"
  /\ \A s \in Servers : pc[s] = "returned"
  /\ GrpcReturn("nil")
  /\ UNCHANGED <<httpVars, stopper, gstopped, healthVars>>

\* Service.Stop, by any goroutine.
GrpcStop ==
  /\ ~cancelled[Base]
  /\ Stop(Base)
  /\ UNCHANGED <<parentDone, status, waiter, httpVars, grpcVars, healthVars>>

-----------------------------------------------------------------------------
\* Mutant: the stopper leaves the health server alone.
StopperNoHealth ==
  /\ stopper = "waiting"
  /\ CtxDone(Base)
  /\ stopper' = "stopServer"
  /\ UNCHANGED <<baseVars, httpVars, gpc, gresult, gstopped, healthVars>>

\* The stopper: health first, so that no client is sent to a stopped server.
StopperHealth ==
  /\ stopper = "waiting"
  /\ CtxDone(Base)
  /\ stopper' = "stopServer"
  /\ IF WithHealth THEN Shutdown ELSE UNCHANGED <<published, hshutdown>>
  /\ UNCHANGED <<baseVars, httpVars, gpc, gresult, gstopped, hpc, outcome, current>>

\* Mutant: the stopper does not stop the server.
StopperNoServer ==
  /\ stopper = "stopServer"
  /\ stopper' = "ended"
  /\ UNCHANGED <<baseVars, httpVars, gpc, gresult, gstopped, healthVars>>

StopperServer ==
  /\ stopper = "stopServer"
  /\ stopper' = "ended"
  /\ gstopped' = TRUE
  /\ UNCHANGED <<baseVars, httpVars, gpc, gresult, healthVars>>

-----------------------------------------------------------------------------
\* checkAndSetServingStatus: the user's function is called ...
HealthCheck(o) ==
  /\ hpc = "check"
  /\ outcome' = o
  /\ hpc' = "set"
  /\ UNCHANGED <<baseVars, httpVars, grpcVars, current, published, hshutdown>>

\* Mutant: a first check that succeeds is not published.
NextStatusForgetsUnknown(o, cur) ==
  IF o = "err" /\ cur \in {"SERVING", "UNKNOWN"} THEN "NOT_SERVING"
  ELSE IF o = "ok" /\ cur = "NOT_SERVING" THEN "SERVING"
  ELSE cur

\* The status after a check, given the last one.
NextStatus(o, cur) ==
  IF o = "err" /\ cur \in {"SERVING", "UNKNOWN"} THEN "NOT_SERVING"
  ELSE IF o = "ok" /\ cur \in {"NOT_SERVING", "UNKNOWN"} THEN "SERVING"
  ELSE cur

\* ... and its outcome is published when it differs from the last one.
checkAndSetServingStatus ==
  /\ hpc = "set"
  /\ hpc' = "select"
  /\ current' = NextStatus(outcome, current)
  /\ IF current' # current THEN SetServingStatus(current') ELSE UNCHANGED published
  /\ UNCHANGED <<baseVars, httpVars, grpcVars, outcome, hshutdown>>

\* case <-timer.C
HealthTick ==
  /\ hpc = "select"
  /\ hpc' = "check"
  /\ UNCHANGED <<baseVars, httpVars, grpcVars, outcome, current, published, hshutdown>>

\* case <-ctx.Done()
HealthDone ==
  /\ hpc = "select"
  /\ CtxDone(Base)
  /\ hpc' = "ended"
  /\ Shutdown
  /\ UNCHANGED <<baseVars, httpVars, grpcVars, outcome, current>>

-----------------------------------------------------------------------------
DoServeStep ==
  GrpcDoServe \/ GrpcSetStarted \/ GrpcSpawn \/ GrpcServeStopped \/ GrpcWaitSidecar

StopperStep == StopperHealth \/ StopperServer

HealthStep ==
  \/ \E o \in {"ok", "err"} : HealthCheck(o)
  \/ checkAndSetServingStatus \/ HealthTick \/ HealthDone

Next ==
  \/ CancelParent /\ UNCHANGED <<httpVars, grpcVars, healthVars>>
  \/ \E b \in Bases : waitForDoneAndEndTheWorld(b) /\ UNCHANGED <<httpVars, grpcVars, healthVars>>
  \/ \E s \in Servers : HttpStep(s) /\ UNCHANGED <<grpcVars, healthVars>>
  \/ GrpcServe \/ GrpcServeFails \/ GrpcStop
  \/ DoServeStep \/ StopperStep \/ HealthStep

Spec == Init /\ [][Next]_vars

\* The goroutines run, health checks return, the ticker fires, and select
\* does not ignore a cancelled context for ever.
FairSpec ==
  /\ Spec
  /\ WF_vars(DoServeStep) /\ WF_vars(StopperStep) /\ WF_vars(HealthStep) /\ SF_vars(HealthDone)
  /\ \A s \in Servers : WF_vars(ServeStep(s) /\ UNCHANGED <<grpcVars, healthVars>>)
  /\ \A s \in Servers : WF_vars(ShutdownStep(s) /\ UNCHANGED <<grpcVars, healthVars>>)

-----------------------------------------------------------------------------
\* A server that is stopped never answers SERVING: Shutdown comes before Stop
\* and a check that was under way cannot publish its outcome afterwards.
NotServingWhenStopped == (WithHealth /\ gstopped) => published = "NOT_SERVING"

\* Between checks the published status is the outcome of the last check,
\* although it is only published on a change; after Shutdown it is not
\* changed any more.
PublishedIsLastOutcome ==
  (hpc = "select" /\ ~hshutdown) => (published = "SERVING" <=> outcome = "ok")

\* Serve returns nil only after the context was cancelled, the server was
\* stopped and the sidecar has returned.
CleanReturn ==
  gresult = "nil" =>
    /\ CtxDone(Base) /\ gstopped
    /\ \A s \in Servers : pc[s] = "returned"

\* However it ends, Serve leaves the context cancelled, so that the stopper
\* and the health goroutine end too.
ReturnCancels ==
  (gpc = "returned" /\ stopper # "none") ~>
    (CtxDone(Base) /\ stopper = "ended" /\ hpc \in {"none", "ended"})

\* Stop stops the server; Serve then returns, unless it waits for a sidecar
\* that only the parent context (or its own failure) can end.
StopEnds ==
  (cancelled[Base] /\ gpc # "new") ~>
    (gpc = "returned" \/ (gpc = "wait" /\ ~parentDone /\ \E s \in Servers : pc[s] # "returned"))

\* Cancelling the parent context ends the service and its sidecar.
CancelEnds == (parentDone /\ gpc # "new") ~> (gpc = "returned")

\* The whole of it: Stop, the parent context and a failing server each end the
\* service, and Serve takes its goroutines with it (service.go:133-165).
ShutsDown == StopEnds /\ CancelEnds /\ ReturnCancels
=============================================================================
