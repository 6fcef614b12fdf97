------------------------- MODULE GrpcServiceProofs -------------------------
(***************************************************************************)
(* Proofs about the gRPC service, with any number of sidecars.             *)
(***************************************************************************)
EXTENDS GrpcService, TLAPS

\* The health server is shut down before the server is stopped, and keeps its
\* answer.
HealthInv ==
  /\ WithHealth /\ (gstopped \/ stopper \in {"stopServer", "ended"}) => hshutdown
  /\ hshutdown => published = "NOT_SERVING"

\* Until then the loop knows what is published, and in its select that is the
\* outcome of the last check.
LoopInv ==
  /\ ~hshutdown => (published = "SERVING" <=> current = "SERVING")
  /\ hpc = "set" => outcome \in {"ok", "err"}
  /\ hpc = "select" => current = IF outcome = "ok" THEN "SERVING" ELSE "NOT_SERVING"

\* What has to be over when Serve returns.
ReturnInv ==
  /\ gpc \in {"wait", "returned"} /\ gresult # "err" => gstopped
  /\ gresult = "none" <=> gpc # "returned"
  /\ gresult = "nil" => cancelled[Base] /\ \A s \in Servers : pc[s] = "returned"

IInv == TypeOK /\ HealthInv /\ LoopInv /\ ReturnInv

LEMMA InitOK == Init => IInv
<1> SUFFICES ASSUME Init PROVE IInv
  OBVIOUS
<1>1. BaseTypeOK
  BY DEF Init, BaseInit, BaseTypeOK
<1>2. HttpTypeOK
  BY DEF Init, HttpInit, HttpTypeOK
<1>3. HealthInv /\ LoopInv /\ ReturnInv
  BY DEF Init, HealthInv, LoopInv, ReturnInv
<1> QED
  BY <1>1, <1>2, <1>3 DEF Init, IInv, TypeOK

\* Contexts and sidecars: a cancelled base stays cancelled, and a sidecar that
\* has returned is not started again.
LEMMA AroundOK ==
  ASSUME IInv, UNCHANGED <<grpcVars, healthVars>>, BaseTypeOK', HttpTypeOK',
         cancelled[Base] => cancelled'[Base],
         \A s \in Servers : pc[s] = "returned" => pc'[s] = "returned"
  PROVE  IInv'
  BY GrpcWiring DEF IInv, TypeOK, HealthInv, LoopInv, ReturnInv, grpcVars, healthVars

LEMMA SidecarOK ==
  ASSUME IInv, NEW s \in Servers, HttpStep(s), UNCHANGED <<grpcVars, healthVars>> PROVE IInv'
<1> SUFFICES /\ BaseTypeOK' /\ HttpTypeOK' /\ UNCHANGED cancelled
             /\ \A t \in Servers : pc[t] = "returned" => pc'[t] = "returned"
  BY AroundOK
<1> USE GrpcWiring, Wiring
    DEF Goto, Return, Stopped, baseVars, IInv, TypeOK, BaseTypeOK, HttpTypeOK
<1>0. \A t \in Servers : t # SidecarOf[s]
  OBVIOUS
<1>1. CASE Serve(s)
  BY <1>1 DEF Serve
<1>2. CASE DoServe(s)
  BY <1>0, <1>2 DEF DoServe
<1>3. CASE MarkStarted(s)
  BY <1>3 DEF MarkStarted
<1>4. CASE ServeClosed(s)
  BY <1>4 DEF ServeClosed
<1>5. CASE ShutdownErr(s)
  BY <1>5 DEF ShutdownErr
<1>6. CASE WaitSidecar(s)
  BY <1>6 DEF WaitSidecar
<1>7. CASE ServeFails(s)
  BY <1>7 DEF ServeFails
<1>8. CASE ShutdownBegin(s)
  BY <1>8 DEF ShutdownBegin
<1>9. ASSUME NEW err \in {"nil", "err"}, ShutdownEnd(s, err)
      PROVE  /\ BaseTypeOK' /\ HttpTypeOK' /\ UNCHANGED cancelled
             /\ \A t \in Servers : pc[t] = "returned" => pc'[t] = "returned"
  BY <1>9 DEF ShutdownEnd
<1> QED
  BY <1>1, <1>2, <1>3, <1>4, <1>5, <1>6, <1>7, <1>8, <1>9 DEF HttpStep, ServeStep, ShutdownStep

\* The goroutine in Serve.
LEMMA ServeOK ==
  IInv /\ (GrpcServe \/ GrpcServeFails \/ GrpcStop \/ DoServeStep) => IInv'
<1> SUFFICES ASSUME IInv, GrpcServe \/ GrpcServeFails \/ GrpcStop \/ DoServeStep PROVE IInv'
  OBVIOUS
<1> USE GrpcWiring
    DEF GrpcReturn, Stop, baseVars, httpVars, grpcVars, healthVars, IInv, TypeOK, BaseTypeOK, HttpTypeOK,
        HealthInv, LoopInv, ReturnInv
<1>1. CASE GrpcServe
  BY <1>1 DEF GrpcServe
<1>2. CASE GrpcServeFails
  BY <1>2 DEF GrpcServeFails
<1>3. CASE GrpcStop
  BY <1>3 DEF GrpcStop
<1>4. CASE GrpcDoServe
  <2>1. CASE GrpcReturn("err") /\ UNCHANGED stopper
    BY <1>4, <2>1 DEF GrpcDoServe
  <2>2. CASE gpc' = "SetStartedNow" /\ stopper' = "waiting" /\ UNCHANGED <<baseVars, gresult>>
    BY <1>4, <2>2 DEF GrpcDoServe
  <2> QED
    BY <1>4, <2>1, <2>2 DEF GrpcDoServe
<1>5. CASE GrpcSetStarted
  BY <1>5 DEF GrpcSetStarted, SetStartedNow
<1>6. CASE GrpcSpawn
  BY <1>6 DEF GrpcSpawn
<1>7. CASE GrpcServeStopped
  BY <1>7 DEF GrpcServeStopped
<1>8. CASE GrpcWaitSidecar
  BY <1>8 DEF GrpcWaitSidecar
<1> QED
  BY <1>1, <1>2, <1>3, <1>4, <1>5, <1>6, <1>7, <1>8 DEF DoServeStep

\* The stopper and the health loop.
LEMMA HealthOK == IInv /\ (StopperStep \/ HealthStep) => IInv'
<1> SUFFICES ASSUME IInv, StopperStep \/ HealthStep PROVE IInv'
  OBVIOUS
<1> USE GrpcWiring
    DEF Shutdown, baseVars, httpVars, grpcVars, healthVars, IInv, TypeOK, BaseTypeOK, HttpTypeOK,
        HealthInv, LoopInv, ReturnInv
<1>1. CASE StopperHealth
  <2>1. CASE WithHealth
    BY <1>1, <2>1 DEF StopperHealth
  <2>2. CASE ~WithHealth
    BY <1>1, <2>2 DEF StopperHealth
  <2> QED
    BY <2>1, <2>2
<1>2. CASE StopperServer
  BY <1>2 DEF StopperServer
<1>3. ASSUME NEW o \in {"ok", "err"}, HealthCheck(o) PROVE IInv'
  BY <1>3 DEF HealthCheck
<1>4. CASE checkAndSetServingStatus
  <2>1. /\ current' \in {"SERVING", "NOT_SERVING"}
        /\ current' = IF outcome = "ok" THEN "SERVING" ELSE "NOT_SERVING"
    BY <1>4 DEF checkAndSetServingStatus, NextStatus
  <2> QED
    BY <1>4, <2>1 DEF checkAndSetServingStatus, SetServingStatus
<1>5. CASE HealthTick
  BY <1>5 DEF HealthTick
<1>6. CASE HealthDone
  BY <1>6 DEF HealthDone
<1> QED
  BY <1>1, <1>2, <1>3, <1>4, <1>5, <1>6 DEF StopperStep, HealthStep

LEMMA NextOK == IInv /\ [Next]_vars => IInv'
<1> SUFFICES ASSUME IInv, [Next]_vars PROVE IInv'
  OBVIOUS
<1>1. CASE CancelParent /\ UNCHANGED <<httpVars, grpcVars, healthVars>>
  <2>1. BaseTypeOK' /\ HttpTypeOK' /\ UNCHANGED <<cancelled, pc>>
    BY <1>1 DEF CancelParent, httpVars, IInv, TypeOK, BaseTypeOK, HttpTypeOK
  <2> QED
    BY <1>1, <2>1, AroundOK
<1>2. ASSUME NEW b \in Bases, waitForDoneAndEndTheWorld(b), UNCHANGED <<httpVars, grpcVars, healthVars>>
      PROVE  IInv'
  <2>1. BaseTypeOK' /\ HttpTypeOK' /\ UNCHANGED pc /\ (cancelled[Base] => cancelled'[Base])
    BY <1>2, GrpcWiring DEF waitForDoneAndEndTheWorld, Stop, httpVars, IInv, TypeOK, BaseTypeOK, HttpTypeOK
  <2> QED
    BY <1>2, <2>1, AroundOK
<1>3. CASE UNCHANGED vars
  <2>1. BaseTypeOK' /\ HttpTypeOK' /\ UNCHANGED <<cancelled, pc, grpcVars, healthVars>>
    BY <1>3 DEF vars, baseVars, httpVars, IInv, TypeOK, BaseTypeOK, HttpTypeOK
  <2> QED
    BY <2>1, AroundOK
<1> QED
  BY <1>1, <1>2, <1>3, SidecarOK, ServeOK, HealthOK DEF Next

LEMMA Invariance == Spec => []IInv
  BY InitOK, NextOK, PTL DEF Spec

\* Every reachable state of the service, its base and its sidecar is of the
\* declared type.
THEOREM TypeCorrect == Spec => []TypeOK
<1>1. IInv => TypeOK
  BY DEF IInv
<1> QED
  BY <1>1, Invariance, PTL

\* With a health check, a stopped server never answers SERVING again, although
\* the loop may be in the middle of a check.
THEOREM StoppedIsNotServing == Spec => []NotServingWhenStopped
<1>1. IInv => NotServingWhenStopped
  BY DEF IInv, HealthInv, NotServingWhenStopped
<1> QED
  BY <1>1, Invariance, PTL

\* Publishing only on a change, the loop has always published the last outcome.
THEOREM LastOutcomeIsPublished == Spec => []PublishedIsLastOutcome
<1>1. IInv => PublishedIsLastOutcome
  BY DEF IInv, LoopInv, PublishedIsLastOutcome
<1> QED
  BY <1>1, Invariance, PTL

\* Serve returns nil only after the stopper has stopped the server, the context
\* is cancelled and every sidecar has returned.
THEOREM ReturnIsClean == Spec => []CleanReturn
<1>1. IInv => CleanReturn
  BY DEF IInv, ReturnInv, CleanReturn, CtxDone
<1> QED
  BY <1>1, Invariance, PTL

-----------------------------------------------------------------------------
(* Serve after cancellation. *)

GrpcCanGo ==
  \/ gpc \in {"DoServe", "SetStartedNow", "spawn"}
  \/ gpc = "serving" /\ gstopped
  \/ gpc = "wait" /\ \A s \in Servers : pc[s] = "returned"

StopperCanGo ==
  \/ stopper = "waiting" /\ CtxDone(Base)
  \/ stopper = "stopServer"

\* Serve of a service whose context is cancelled never waits for something that
\* cannot come: it can go on, or its stopper can; or it waits for sidecars, and
\* every one that has not returned can go on once its own context is cancelled.
CancelledGoesOn ==
  CtxDone(Base) /\ gpc \notin {"new", "returned"} =>
    \/ GrpcCanGo \/ StopperCanGo
    \/ /\ gpc = "wait"
       /\ \A s \in Servers :
            pc[s] # "returned" /\ CtxDone(BaseOf[s]) => ServeCanGo(s) \/ ShutdownCanGo(s)

\* Whoever serves has a stopper, and the sidecars run from Serve's last step
\* before it serves.
StopperInv ==
  /\ gpc \in {"SetStartedNow", "spawn", "serving"} => stopper # "none"
  /\ stopper = "ended" => gstopped
  /\ gpc = "wait" => \A s \in Servers : pc[s] # "new"
  /\ gpc = "serving" => \A s \in Servers : pc[s] # "new"
  /\ gpc \in {"new", "DoServe", "SetStartedNow", "spawn"} =>
       \A s \in Servers : pc[s] = "new" /\ shutter[s] = "none" /\ errCh[s] = "empty"

\* The sidecars hear of the end of their context.
AnswerInv ==
  \A s \in Servers :
    /\ AnswerKept(s)
    /\ closing[s] <=> shutter[s] \in {"closing", "ended"}
    /\ pc[s] \in {"new", "Serve", "DoServe"} => shutter[s] = "none" /\ errCh[s] = "empty"

LEMMA AnswerOK ==
  ASSUME IInv, StopperInv, AnswerInv, NEW s \in Servers, HttpStep(s), UNCHANGED <<grpcVars, healthVars>>
  PROVE  StopperInv' /\ AnswerInv'
<1> USE GrpcWiring, Wiring
    DEF Goto, Return, grpcVars, IInv, TypeOK, HttpTypeOK, StopperInv, AnswerInv, AnswerKept
<1>0. \A t \in Servers : t # SidecarOf[s]
  OBVIOUS
<1>1. CASE Serve(s)
  BY <1>1 DEF Serve
<1>2. CASE DoServe(s)
  BY <1>0, <1>2 DEF DoServe
<1>3. CASE MarkStarted(s)
  BY <1>3 DEF MarkStarted
<1>4. CASE ServeClosed(s)
  BY <1>4 DEF ServeClosed
<1>5. CASE ShutdownErr(s)
  BY <1>5 DEF ShutdownErr
<1>6. CASE WaitSidecar(s)
  BY <1>6 DEF WaitSidecar
<1>7. CASE ServeFails(s)
  BY <1>7 DEF ServeFails
<1>8. CASE ShutdownBegin(s)
  BY <1>8 DEF ShutdownBegin
<1>9. ASSUME NEW err \in {"nil", "err"}, ShutdownEnd(s, err) PROVE StopperInv' /\ AnswerInv'
  BY <1>9 DEF ShutdownEnd
<1> QED
  BY <1>1, <1>2, <1>3, <1>4, <1>5, <1>6, <1>7, <1>8, <1>9 DEF HttpStep, ServeStep, ShutdownStep

LEMMA StopperOK == IInv /\ StopperInv /\ AnswerInv /\ [Next]_vars => StopperInv' /\ AnswerInv'
<1> SUFFICES ASSUME IInv, StopperInv, AnswerInv, [Next]_vars PROVE StopperInv' /\ AnswerInv'
  OBVIOUS
<1> USE DEF grpcVars, httpVars, healthVars, StopperInv, AnswerInv, AnswerKept
<1>1. CASE UNCHANGED <<httpVars, grpcVars>>
  BY <1>1
<1>2. CASE GrpcServe \/ GrpcServeFails \/ GrpcDoServe \/ GrpcSetStarted \/ GrpcServeStopped \/ GrpcWaitSidecar
  BY <1>2 DEF GrpcServe, GrpcServeFails, GrpcDoServe, GrpcSetStarted, GrpcServeStopped, GrpcWaitSidecar, GrpcReturn
<1>3. CASE GrpcSpawn
  <2>1. \A s \in Servers : pc'[s] = "Serve"
    BY <1>3 DEF GrpcSpawn
  <2> QED
    BY <1>3, <2>1 DEF GrpcSpawn
<1>4. CASE StopperStep
  BY <1>4 DEF StopperStep, StopperHealth, StopperServer
<1>5. CASE HealthStep \/ GrpcStop
  BY <1>1, <1>5 DEF HealthStep, HealthCheck, checkAndSetServingStatus, HealthTick, HealthDone, GrpcStop
<1> QED
  BY <1>1, <1>2, <1>3, <1>4, <1>5, AnswerOK DEF Next, DoServeStep, vars

\* Stop and the owner's cancellation are heard by the stopper, whenever they come,
\* and that of the parent context by the sidecars; no server is left unstopped and
\* no answer of a shutdown is lost.
THEOREM CancelIsHeard == Spec => []CancelledGoesOn
<1>1. Init => StopperInv /\ AnswerInv
  BY DEF Init, HttpInit, StopperInv, AnswerInv, AnswerKept
<1>2. IInv /\ StopperInv /\ AnswerInv => CancelledGoesOn
  <2> SUFFICES ASSUME IInv, StopperInv, AnswerInv, CtxDone(Base), gpc \notin {"new", "returned"},
                      ~GrpcCanGo, ~StopperCanGo
               PROVE  /\ gpc = "wait"
                      /\ \A s \in Servers :
                           pc[s] # "returned" /\ CtxDone(BaseOf[s]) => ServeCanGo(s) \/ ShutdownCanGo(s)
    BY DEF CancelledGoesOn
  <2>1. gpc = "wait"
    BY DEF IInv, TypeOK, GrpcCanGo, StopperCanGo, StopperInv
  <2>2. ASSUME NEW s \in Servers, pc[s] # "returned", CtxDone(BaseOf[s])
        PROVE  ServeCanGo(s) \/ ShutdownCanGo(s)
    BY <2>1, <2>2, GrpcWiring, Wiring
       DEF IInv, TypeOK, HttpTypeOK, StopperInv, AnswerInv, AnswerKept, ServeCanGo, ShutdownCanGo
  <2> QED
    BY <2>1, <2>2
<1> QED
  BY <1>1, <1>2, StopperOK, Invariance, PTL DEF Spec
=============================================================================
