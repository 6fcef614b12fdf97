---------------------------- MODULE HttpServer -----------------------------
(***************************************************************************)
(* A stand-alone HTTP service (http.New and Serve): the service and, when  *)
(* profiling is enabled, its pprof sidecar with a base of its own, derived *)
(* from the same parent context.                                           *)
(***************************************************************************)
EXTENDS HttpService

CONSTANT Main   \* the service; the other server, if any, is its sidecar

ASSUME MainAssumption == Main \in Servers \ Sidecars /\ Servers \subseteq {Main, SidecarOf[Main]}

vars == <<baseVars, httpVars>>

TypeOK == BaseTypeOK /\ HttpTypeOK

Init == BaseInit /\ HttpInit

CallServe ==
  /\ pc[Main] = "new"
  /\ Goto(Main, "Serve")
  /\ UNCHANGED <<baseVars, result, closing, shutter, errCh>>

Next ==
  \/ CancelParent /\ UNCHANGED httpVars
  \/ CallServe
  \/ \E b \in Bases : waitForDoneAndEndTheWorld(b) /\ UNCHANGED httpVars
  \/ \E s \in Servers : HttpStep(s)

Spec == Init /\ [][Next]_vars

FairSpec ==
  /\ Spec
  /\ \A s \in Servers : WF_vars(ServeStep(s)) /\ WF_vars(ShutdownStep(s))
  /\ \A b \in Bases : WF_vars(waitForDoneAndEndTheWorld(b) /\ UNCHANGED httpVars)

\* When Serve returns nil the shutdown was asked for and is complete, the
\* sidecar has returned as well, and no goroutine of the service is left (a
\* sidecar whose listener failed leaves its shutdown goroutine to the context).
CleanReturn ==
  result[Main] = "nil" =>
    /\ CtxDone(BaseOf[Main])
    /\ \A s \in Servers : pc[s] = "returned" /\ (result[s] = "nil" => shutter[s] = "ended")

\* A sidecar that fails to listen, to serve or to shut down leaves the
\* service alone: while nobody cancelled the context, only a failure of its
\* own listener ends it.
SidecarHarmless ==
  (~CtxDone(BaseOf[Main]) /\ result[Main] # "err") =>
    pc[Main] \in {"new", "Serve", "DoServe", "SetStartedNow", "serving"} /\ ~closing[Main]

\* Once its context is cancelled, before or after it began to serve, the
\* service returns; every goroutine that Base.New started ends.
CancelEnds ==
  /\ (parentDone /\ pc[Main] # "new") ~> (pc[Main] = "returned")
  /\ \A b \in Bases : parentDone ~> (waiter[b] = "ended")
=============================================================================
