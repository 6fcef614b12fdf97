------------------------ MODULE ProcessServiceProofs ------------------------
(***************************************************************************)
(* Proofs about the process service.                                       *)
(***************************************************************************)
EXTENDS ProcessService, TLAPS

\* Serve, the function and the sidecar, and the order of their ends.
OrderInv ==
  /\ caller = "new" => proc = "none" /\ pc[Sidecar] = "new"
  /\ proc = "none" => pc[Sidecar] = "new" /\ status[Base] = "starting"
  /\ pc[Sidecar] # "Serve"
  /\ proc = "ended" => cancelled[Base]
  /\ caller = "returned" /\ proc # "none" => proc = "ended" /\ pc[Sidecar] = "returned"

\* The sidecar's last word on the status is "stopped", and only a function that
\* begins after it says something else.
StatusInv ==
  /\ overtaken => proc \in {"running", "stop", "ended"}
  /\ pc[Sidecar] = "returned" => status[Base] = "stopped" \/ overtaken

IInv == TypeOK /\ OrderInv /\ StatusInv

LEMMA One == Base \in Bases /\ Sidecar \in Servers /\ BaseOf[Sidecar] = Base /\ SidecarOf[Sidecar] = NoServer
  BY ProcessWiring, Wiring

LEMMA InitOK == Init => IInv
<1> SUFFICES ASSUME Init PROVE IInv
  OBVIOUS
<1>1. BaseTypeOK
  BY DEF Init, BaseInit, BaseTypeOK
<1>2. HttpTypeOK
  BY DEF Init, HttpInit, HttpTypeOK
<1>3. OrderInv /\ StatusInv
  BY One DEF Init, BaseInit, HttpInit, OrderInv, StatusInv
<1> QED
  BY <1>1, <1>2, <1>3 DEF Init, IInv, TypeOK

\* What a step of the sidecar does to the rest.
LEMMA SidecarOK == IInv /\ HttpStep(Sidecar) /\ UNCHANGED procVars => IInv'
<1> SUFFICES ASSUME IInv, HttpStep(Sidecar), UNCHANGED procVars PROVE IInv'
  OBVIOUS
<1> USE One, ProcessWiring, Wiring
    DEF Goto, Return, Stopped, baseVars, procVars, IInv, TypeOK, BaseTypeOK, HttpTypeOK,
        OrderInv, StatusInv
<1>1. CASE Serve(Sidecar)
  BY <1>1 DEF Serve
<1>2. CASE DoServe(Sidecar)
  BY <1>2 DEF DoServe
<1>3. CASE MarkStarted(Sidecar)
  BY <1>3 DEF MarkStarted
<1>4. CASE ServeClosed(Sidecar)
  BY <1>4 DEF ServeClosed
<1>5. CASE ShutdownErr(Sidecar)
  BY <1>5 DEF ShutdownErr
<1>6. CASE WaitSidecar(Sidecar)
  BY <1>6 DEF WaitSidecar
<1>7. CASE ServeFails(Sidecar)
  BY <1>7 DEF ServeFails
<1>8. CASE ShutdownBegin(Sidecar)
  BY <1>8 DEF ShutdownBegin
<1>9. ASSUME NEW e \in {"nil", "err"}, ShutdownEnd(Sidecar, e) PROVE IInv'
  BY <1>9 DEF ShutdownEnd
<1> QED
  BY <1>1, <1>2, <1>3, <1>4, <1>5, <1>6, <1>7, <1>8, <1>9 DEF HttpStep, ServeStep, ShutdownStep

LEMMA NextOK == IInv /\ [Next]_vars => IInv'
<1> SUFFICES ASSUME IInv, [Next]_vars PROVE IInv'
  OBVIOUS
<1> USE One
    DEF baseVars, httpVars, procVars, IInv, TypeOK, BaseTypeOK, HttpTypeOK, OrderInv, StatusInv
<1>1. CASE CancelParent /\ UNCHANGED <<httpVars, procVars>>
  BY <1>1 DEF CancelParent
<1>2. CASE waitForDoneAndEndTheWorld(Base) /\ UNCHANGED <<httpVars, procVars>>
  BY <1>2 DEF waitForDoneAndEndTheWorld, Stop
<1>3. CASE HttpStep(Sidecar) /\ UNCHANGED procVars
  BY <1>3, SidecarOK
<1>4. CASE ServeWithDelay
  BY <1>4 DEF ServeWithDelay, Goto
<1>5. CASE Sleep
  BY <1>5 DEF Sleep
<1>6. CASE CheckContext
  BY <1>6 DEF CheckContext
<1>7. CASE StartFunction
  BY <1>7 DEF StartFunction, SetStartedNow
<1>8. CASE StopBase
  BY <1>8 DEF StopBase, Stop
<1>9. CASE Wait
  BY <1>9 DEF Wait
<1>10. CASE FunctionStep
  BY <1>10 DEF FunctionStep, FunctionReturns
<1>11. CASE UNCHANGED vars
  BY <1>11 DEF vars
<1> QED
  BY <1>1, <1>2, <1>3, <1>4, <1>5, <1>6, <1>7, <1>8, <1>9, <1>10, <1>11 DEF Next, ProcessStep

LEMMA Invariance == Spec => []IInv
  BY InitOK, NextOK, PTL DEF Spec

\* Every reachable state of the service, its base and its sidecar is of the
\* declared type.
THEOREM TypeCorrect == Spec => []TypeOK
<1>1. IInv => TypeOK
  BY DEF IInv
<1> QED
  BY <1>1, Invariance, PTL

\* When ServeWithDelay has returned, its two goroutines are at their end and the
\* context that both got is cancelled.
THEOREM NothingIsLeft == Spec => []NothingLeft
<1>1. IInv => NothingLeft
  BY DEF IInv, OrderInv, NothingLeft
<1> QED
  BY <1>1, Invariance, PTL

\* A returned service calls itself started only if the function began after the
\* sidecar's deferred Stopped.
THEOREM StatusStaleOnlyIfOvertaken == Spec => []StaleStatusOnlyIfOvertaken
<1>1. IInv => StaleStatusOnlyIfOvertaken
  BY DEF IInv, OrderInv, StatusInv, StaleStatusOnlyIfOvertaken
<1> QED
  BY <1>1, Invariance, PTL

-----------------------------------------------------------------------------
(* Serve after its end was decided. *)

ProcessCanGo == proc \in {"sleep", "check", "start", "stop"}

\* A process whose function has returned, or whose context is cancelled, never
\* waits for something that cannot come: its own goroutine can go on, or the
\* function with its cancelled context can, or the sidecar, or both have ended
\* and Wait returns (service.go:100-124).
EndGoesOn ==
  caller = "waiting" /\ (proc \in {"stop", "ended"} \/ CtxDone(Base)) =>
    \/ ProcessCanGo
    \/ proc = "running" /\ CtxDone(Base)
    \/ ServeCanGo(Sidecar) \/ ShutdownCanGo(Sidecar)
    \/ proc = "ended" /\ pc[Sidecar] = "returned"

\* The sidecar is there as long as Serve is, and hears of the end.
AnswerInv ==
  /\ caller = "waiting" => proc # "none" /\ pc[Sidecar] # "new"
  /\ AnswerKept(Sidecar)
  /\ closing[Sidecar] <=> shutter[Sidecar] \in {"closing", "ended"}
  /\ pc[Sidecar] = "DoServe" \/ pc[Sidecar] = "new" => shutter[Sidecar] = "none" /\ errCh[Sidecar] = "empty"

LEMMA AnswerOK == IInv /\ AnswerInv /\ [Next]_vars => AnswerInv'
<1> SUFFICES ASSUME IInv, AnswerInv, [Next]_vars PROVE AnswerInv'
  OBVIOUS
<1> USE One, ProcessWiring
    DEF Goto, Return, Stopped, httpVars, procVars, IInv, TypeOK, HttpTypeOK, OrderInv, AnswerInv, AnswerKept
<1>1. CASE UNCHANGED <<httpVars, procVars>>
  BY <1>1
<1>2. CASE UNCHANGED httpVars /\ caller' = caller /\ (proc # "none" => proc' # "none")
  BY <1>2
<1>3. CASE ServeWithDelay
  BY <1>3 DEF ServeWithDelay
<1>4. CASE HttpStep(Sidecar) /\ UNCHANGED procVars
  <2>1. CASE Serve(Sidecar)
    BY <1>4, <2>1 DEF Serve
  <2>2. CASE DoServe(Sidecar)
    BY <1>4, <2>2, Wiring DEF DoServe
  <2>3. CASE MarkStarted(Sidecar)
    BY <1>4, <2>3 DEF MarkStarted
  <2>4. CASE ServeClosed(Sidecar)
    BY <1>4, <2>4 DEF ServeClosed
  <2>5. CASE ShutdownErr(Sidecar)
    BY <1>4, <2>5 DEF ShutdownErr
  <2>6. CASE WaitSidecar(Sidecar)
    BY <1>4, <2>6 DEF WaitSidecar
  <2>7. CASE ServeFails(Sidecar)
    BY <1>4, <2>7 DEF ServeFails
  <2>8. CASE ShutdownBegin(Sidecar)
    BY <1>4, <2>8 DEF ShutdownBegin
  <2>9. ASSUME NEW e \in {"nil", "err"}, ShutdownEnd(Sidecar, e) PROVE AnswerInv'
    BY <1>4, <2>9 DEF ShutdownEnd
  <2> QED
    BY <1>4, <2>1, <2>2, <2>3, <2>4, <2>5, <2>6, <2>7, <2>8, <2>9 DEF HttpStep, ServeStep, ShutdownStep
<1>5. CASE Wait
  BY <1>5 DEF Wait
<1> QED
  BY <1>1, <1>2, <1>3, <1>4, <1>5 DEF Next, ProcessStep, FunctionStep, Sleep, CheckContext, StartFunction,
     FunctionReturns, StopBase, vars

\* The end of a process is heard by its sidecar, and Serve returns after both,
\* in whatever order they run.
THEOREM EndIsHeard == Spec => []EndGoesOn
<1>1. Init => AnswerInv
  BY One DEF Init, HttpInit, AnswerInv, AnswerKept
<1>2. IInv /\ AnswerInv => EndGoesOn
  BY One DEF IInv, TypeOK, HttpTypeOK, OrderInv, AnswerInv, AnswerKept, EndGoesOn, ProcessCanGo,
     ServeCanGo, ShutdownCanGo, CtxDone
<1> QED
  BY <1>1, <1>2, AnswerOK, Invariance, PTL DEF Spec
=============================================================================
