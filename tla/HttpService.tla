---------------------------- MODULE HttpService ----------------------------
(***************************************************************************)
(* pkg/service/http/service.go: the life of HTTP services, from Serve to   *)
(* its return.  A service may have a sidecar, an HTTP service of its own   *)
(* that serves the profiler; the services of process and grpc use one as   *)
(* well.  DoServe runs up to three goroutines: the caller, the one that    *)
(* waits for the context and shuts the server down, and the sidecar's.     *)
(* Requests are not modelled: handlers only read the status.               *)
(***************************************************************************)
EXTENDS ServiceBase

CONSTANTS
  Servers,      \* http.Service values
  BaseOf,       \* svc.base of each
  SidecarOf,    \* svc.sidecarService of each, or NoServer
  Sidecars,     \* the servers with imsidecar set
  NoServer

ASSUME Wiring ==
  /\ BaseOf \in [Servers -> Bases]
  /\ SidecarOf \in [Servers -> Servers \cup {NoServer}]
  /\ Sidecars \subseteq Servers
  /\ NoServer \notin Servers
  /\ \A s \in Servers : SidecarOf[s] # NoServer => SidecarOf[s] \in Sidecars /\ s \notin Sidecars

VARIABLES
  pc,        \* of the goroutine in Serve
  result,    \* what Serve returned: "none", "nil" or "err"
  closing,   \* server.Shutdown was called: server.Serve returns ErrServerClosed
  shutter,   \* the shutdown goroutine: "none", "waiting", "closing", "ended"
  errCh      \* its channel, of capacity one: "empty", "nil" or "err"

httpVars == <<pc, result, closing, shutter, errCh>>

HttpTypeOK ==
  /\ pc \in [Servers -> {"new", "Serve", "DoServe", "SetStartedNow", "serving",
                         "shutdownErr", "wait", "returned"}]
  /\ result \in [Servers -> {"none", "nil", "err"}]
  /\ closing \in [Servers -> BOOLEAN]
  /\ shutter \in [Servers -> {"none", "waiting", "closing", "ended"}]
  /\ errCh \in [Servers -> {"empty", "nil", "err"}]

HttpInit ==
  /\ pc = [s \in Servers |-> "new"]
  /\ result = [s \in Servers |-> "none"]
  /\ closing = [s \in Servers |-> FALSE]
  /\ shutter = [s \in Servers |-> "none"]
  /\ errCh = [s \in Servers |-> "empty"]

Goto(s, label) == pc' = [pc EXCEPT ![s] = label]

\* s.Listener.Listen succeeds, or fails and Serve returns at once.
Serve(s) ==
  /\ pc[s] = "Serve"
  /\ \/ Goto(s, "DoServe") /\ UNCHANGED result
     \/ Goto(s, "returned") /\ result' = [result EXCEPT ![s] = "err"]
  /\ UNCHANGED <<baseVars, closing, shutter, errCh>>

\* Mutant: DoServe starts no shutdown goroutine.
DoServeUnattended(s) ==
  /\ pc[s] = "DoServe"
  /\ pc' = [t \in Servers |-> IF t = s THEN "SetStartedNow"
                              ELSE IF t = SidecarOf[s] THEN "Serve" ELSE pc[t]]
  /\ UNCHANGED <<baseVars, result, closing, shutter, errCh>>

\* The shutdown goroutine and the sidecar's are started.
DoServe(s) ==
  /\ pc[s] = "DoServe"
  /\ shutter' = [shutter EXCEPT ![s] = "waiting"]
  /\ pc' = [t \in Servers |-> IF t = s THEN "SetStartedNow"
                              ELSE IF t = SidecarOf[s] THEN "Serve" ELSE pc[t]]
  /\ UNCHANGED <<baseVars, result, closing, errCh>>

\* if !s.imsidecar { s.base.SetStartedNow() }
MarkStarted(s) ==
  /\ pc[s] = "SetStartedNow"
  /\ IF s \in Sidecars THEN UNCHANGED status ELSE SetStartedNow(BaseOf[s])
  /\ Goto(s, "serving")
  /\ UNCHANGED <<parentDone, cancelled, waiter, result, closing, shutter, errCh>>

\* Mutant: DoServe does not defer s.base.Stopped().
ReturnStarted(s, err) ==
  /\ Goto(s, "returned")
  /\ result' = [result EXCEPT ![s] = err]
  /\ UNCHANGED status

\* DoServe returns: the deferred s.base.Stopped(), for a sidecar too.
Return(s, err) ==
  /\ Goto(s, "returned")
  /\ result' = [result EXCEPT ![s] = err]
  /\ Stopped(BaseOf[s])

\* server.Serve returns an error other than ErrServerClosed.
ServeFails(s) ==
  /\ pc[s] = "serving"
  /\ ~closing[s]
  /\ Return(s, "err")
  /\ UNCHANGED <<parentDone, cancelled, waiter, closing, shutter, errCh>>

\* server.Serve returns ErrServerClosed.
ServeClosed(s) ==
  /\ pc[s] = "serving"
  /\ closing[s]
  /\ Goto(s, "shutdownErr")
  /\ UNCHANGED <<baseVars, result, closing, shutter, errCh>>

\* err := <-errCh
ShutdownErr(s) ==
  /\ pc[s] = "shutdownErr"
  /\ errCh[s] # "empty"
  /\ errCh' = [errCh EXCEPT ![s] = "empty"]
  /\ \/ errCh[s] = "err" /\ Return(s, "err")
     \/ errCh[s] = "nil" /\ Goto(s, "wait") /\ UNCHANGED <<result, status>>
  /\ UNCHANGED <<parentDone, cancelled, waiter, closing, shutter>>

\* Mutant: the sidecar is not waited for.
WaitNobody(s) ==
  /\ pc[s] = "wait"
  /\ Return(s, "nil")
  /\ UNCHANGED <<parentDone, cancelled, waiter, closing, shutter, errCh>>

\* w.Wait()
WaitSidecar(s) ==
  /\ pc[s] = "wait"
  /\ SidecarOf[s] # NoServer => pc[SidecarOf[s]] = "returned"
  /\ Return(s, "nil")
  /\ UNCHANGED <<parentDone, cancelled, waiter, closing, shutter, errCh>>

\* Mutant: the shutdown goroutine does not wait for the context.
ShutdownAtOnce(s) ==
  /\ shutter[s] = "waiting"
  /\ shutter' = [shutter EXCEPT ![s] = "closing"]
  /\ closing' = [closing EXCEPT ![s] = TRUE]
  /\ UNCHANGED <<baseVars, pc, result, errCh>>

\* The shutdown goroutine: server.Shutdown stops the listener at once ...
ShutdownBegin(s) ==
  /\ shutter[s] = "waiting"
  /\ CtxDone(BaseOf[s])
  /\ shutter' = [shutter EXCEPT ![s] = "closing"]
  /\ closing' = [closing EXCEPT ![s] = TRUE]
  /\ UNCHANGED <<baseVars, pc, result, errCh>>

\* ... and returns when the connections are idle or its context times out.
ShutdownEnd(s, err) ==
  /\ shutter[s] = "closing"
  /\ shutter' = [shutter EXCEPT ![s] = "ended"]
  /\ errCh' = [errCh EXCEPT ![s] = err]
  /\ UNCHANGED <<baseVars, pc, result, closing>>

\* The goroutine in Serve, without the failures of the listener.
ServeStep(s) ==
  Serve(s) \/ DoServe(s) \/ MarkStarted(s) \/ ServeClosed(s) \/ ShutdownErr(s) \/ WaitSidecar(s)

ShutdownStep(s) == ShutdownBegin(s) \/ \E err \in {"nil", "err"} : ShutdownEnd(s, err)

HttpStep(s) == ServeStep(s) \/ ServeFails(s) \/ ShutdownStep(s)

-----------------------------------------------------------------------------
(* What the two goroutines of a server wait for. *)

ServeCanGo(s) ==
  \/ pc[s] \in {"Serve", "DoServe", "SetStartedNow"}
  \/ pc[s] = "serving" /\ closing[s]
  \/ pc[s] = "shutdownErr" /\ errCh[s] # "empty"
  \/ pc[s] = "wait" /\ (SidecarOf[s] # NoServer => pc[SidecarOf[s]] = "returned")

ShutdownCanGo(s) ==
  \/ shutter[s] = "waiting" /\ CtxDone(BaseOf[s])
  \/ shutter[s] = "closing"

\* Whoever serves has a shutdown goroutine, and its answer is in the channel
\* until it is read, also when it comes before server.Serve has returned.
AnswerKept(s) ==
  pc[s] \in {"SetStartedNow", "serving", "shutdownErr"} =>
    /\ shutter[s] # "none"
    /\ shutter[s] \in {"closing", "ended"} => closing[s]
    /\ shutter[s] = "ended" => errCh[s] # "empty"
=============================================================================
