--------------------------- MODULE ProcessService ---------------------------
(***************************************************************************)
(* pkg/service/process/service.go: a background process with an HTTP       *)
(* sidecar that serves its health.  Both share one base: the process       *)
(* function marks it started and cancels it, the sidecar marks it stopped. *)
(***************************************************************************)
EXTENDS HttpService

CONSTANTS Base, Sidecar   \* svc.Base and svc.sidecarService

ASSUME ProcessWiring ==
  /\ Bases = {Base}
  /\ Servers = {Sidecar} /\ Sidecars = {Sidecar}

VARIABLES
  caller,      \* ServeWithDelay: "new", "waiting" or "returned"
  proc,        \* the goroutine that runs the process function
  err,         \* what the function returned, or the error of Listen
  overtaken    \* history: the sidecar had marked the base stopped before
               \* the process marked it started

procVars == <<caller, proc, err, overtaken>>
vars == <<baseVars, httpVars, procVars>>

TypeOK ==
  /\ BaseTypeOK /\ HttpTypeOK
  /\ caller \in {"new", "waiting", "returned"}
  /\ proc \in {"none", "sleep", "check", "start", "running", "stop", "ended"}
  /\ err \in {"nil", "err"}
  /\ overtaken \in BOOLEAN

Init ==
  /\ BaseInit /\ HttpInit
  /\ caller = "new"
  /\ proc = "none"
  /\ err = "nil"
  /\ overtaken = FALSE

\* Listen on the sidecar's address; then both goroutines are started.
ServeWithDelay ==
  /\ caller = "new"
  /\ \/ /\ caller' = "waiting"
        /\ proc' = "sleep"
        /\ Goto(Sidecar, "DoServe")
        /\ UNCHANGED err
     \/ /\ caller' = "returned"
        /\ err' = "err"
        /\ UNCHANGED <<proc, pc>>
  /\ UNCHANGED <<baseVars, result, closing, shutter, errCh, overtaken>>

\* sleep: the timer fires or the context is done.
Sleep ==
  /\ proc = "sleep"
  /\ proc' = "check"
  /\ UNCHANGED <<baseVars, httpVars, caller, err, overtaken>>

\* if s.Base.Ctx.Err() == nil
CheckContext ==
  /\ proc = "check"
  /\ proc' = IF CtxDone(Base) THEN "stop" ELSE "start"
  /\ UNCHANGED <<baseVars, httpVars, caller, err, overtaken>>

\* s.Base.SetStartedNow(), and the process function is called.
StartFunction ==
  /\ proc = "start"
  /\ SetStartedNow(Base)
  /\ overtaken' = (status[Base] = "stopped")
  /\ proc' = "running"
  /\ UNCHANGED <<parentDone, cancelled, waiter, httpVars, caller, err>>

\* The process function returns, because it is done or because of its context.
FunctionReturns(e) ==
  /\ proc = "running"
  /\ err' = e
  /\ proc' = "stop"
  /\ UNCHANGED <<baseVars, httpVars, caller, overtaken>>

\* Mutant: the end of the process function does not cancel the base.
StopNothing ==
  /\ proc = "stop"
  /\ proc' = "ended"
  /\ UNCHANGED <<baseVars, httpVars, caller, err, overtaken>>

\* s.Base.Stop()
StopBase ==
  /\ proc = "stop"
  /\ Stop(Base)
  /\ proc' = "ended"
  /\ UNCHANGED <<parentDone, status, waiter, httpVars, caller, err, overtaken>>

\* Mutant: w.Add(1).
WaitForOne ==
  /\ caller = "waiting"
  /\ proc = "ended" \/ pc[Sidecar] = "returned"
  /\ caller' = "returned"
  /\ UNCHANGED <<baseVars, httpVars, proc, err, overtaken>>

\* w.Wait() and return err
Wait ==
  /\ caller = "waiting"
  /\ proc = "ended"
  /\ pc[Sidecar] = "returned"
  /\ caller' = "returned"
  /\ UNCHANGED <<baseVars, httpVars, proc, err, overtaken>>

\* What the code does on its own; the process function is the user's.
ProcessStep == ServeWithDelay \/ Sleep \/ CheckContext \/ StartFunction \/ StopBase \/ Wait

FunctionStep == \E e \in {"nil", "err"} : FunctionReturns(e)

Next ==
  \/ CancelParent /\ UNCHANGED <<httpVars, procVars>>
  \/ waitForDoneAndEndTheWorld(Base) /\ UNCHANGED <<httpVars, procVars>>
  \/ HttpStep(Sidecar) /\ UNCHANGED procVars
  \/ ProcessStep
  \/ FunctionStep

Spec == Init /\ [][Next]_vars

\* The goroutines run; the process function obeys its context but need not
\* end before; the owner need not cancel, nor call Serve.
FairSpec ==
  /\ Spec
  /\ WF_vars(ServeStep(Sidecar) /\ UNCHANGED procVars)
  /\ WF_vars(ShutdownStep(Sidecar) /\ UNCHANGED procVars)
  /\ WF_vars(waitForDoneAndEndTheWorld(Base) /\ UNCHANGED <<httpVars, procVars>>)
  /\ WF_vars(Sleep \/ CheckContext \/ StartFunction \/ StopBase \/ Wait)
  /\ WF_vars(CtxDone(Base) /\ FunctionStep)

-----------------------------------------------------------------------------
\* When Serve returned, the process function and the sidecar have ended and
\* the context is cancelled, so that nothing derived from it goes on.
NothingLeft ==
  (caller = "returned" /\ proc # "none") =>
    /\ proc = "ended" /\ pc[Sidecar] = "returned" /\ cancelled[Base]

\* After Serve the status is "started" only if the sidecar was already gone
\* when the function began: it failed, or the context was cancelled between
\* the check and SetStartedNow.
StaleStatusOnlyIfOvertaken ==
  (caller = "returned" /\ status[Base] = "started") => overtaken

\* A process whose function returned, or whose context is cancelled, takes
\* its sidecar down and Serve returns.
ServeReturns ==
  (caller = "waiting" /\ (proc = "stop" \/ CtxDone(Base))) ~> (caller = "returned")

\* Whatever happens to the sidecar, the function is called unless the owner
\* cancels the context first.
FunctionRuns == (proc = "sleep") ~> (proc = "running" \/ parentDone)

\* Both: the process gets its turn, and its end is the end of Serve.
ProcessRunsAndEnds == FunctionRuns /\ ServeReturns
=============================================================================
