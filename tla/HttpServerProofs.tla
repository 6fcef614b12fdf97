-------------------------- MODULE HttpServerProofs --------------------------
(***************************************************************************)
(* Proofs about an HTTP service with or without a sidecar, whether the two *)
(* have bases of their own or share one.                                   *)
(***************************************************************************)
EXTENDS HttpServer, TLAPS

\* How far the shutdown goroutine is, for each service.
ShutterInv ==
  \A s \in Servers :
    /\ pc[s] \in {"new", "Serve", "DoServe"} => shutter[s] = "none" /\ result[s] = "none"
    /\ closing[s] <=> shutter[s] \in {"closing", "ended"}
    /\ closing[s] => CtxDone(BaseOf[s])
    /\ errCh[s] # "empty" \/ pc[s] = "wait" => shutter[s] = "ended"
    /\ pc[s] = "shutdownErr" => closing[s]

\* What a return says.
ReturnInv ==
  /\ \A s \in Servers : result[s] = "none" <=> pc[s] # "returned"
  /\ \A s \in Servers : result[s] = "nil" => shutter[s] = "ended"
  /\ pc[Main] \in {"new", "Serve", "DoServe"} => \A s \in Servers \ {Main} : pc[s] = "new"
  /\ result[Main] = "nil" => \A s \in Servers : pc[s] = "returned"

IInv == TypeOK /\ ShutterInv /\ ReturnInv

LEMMA InitOK == Init => IInv
<1> SUFFICES ASSUME Init PROVE IInv
  OBVIOUS
<1>1. BaseTypeOK
  BY DEF Init, BaseInit, BaseTypeOK
<1>2. HttpTypeOK
  BY DEF Init, HttpInit, HttpTypeOK
<1>3. ShutterInv
  BY DEF Init, HttpInit, ShutterInv
<1>4. ReturnInv
  BY MainAssumption DEF Init, HttpInit, ReturnInv
<1> QED
  BY <1>1, <1>2, <1>3, <1>4 DEF IInv, TypeOK

\* Contexts stay cancelled, and no other state depends on them.
LEMMA BaseOK ==
  ASSUME IInv, UNCHANGED httpVars, BaseTypeOK',
         \A b \in Bases : CtxDone(b) => CtxDone(b)'
  PROVE  IInv'
  BY Wiring, MainAssumption DEF IInv, TypeOK, HttpTypeOK, ShutterInv, ReturnInv, httpVars

LEMMA CancelOK == IInv /\ CancelParent /\ UNCHANGED httpVars => IInv'
<1> SUFFICES ASSUME IInv, CancelParent, UNCHANGED httpVars PROVE IInv'
  OBVIOUS
<1>1. BaseTypeOK' /\ \A b \in Bases : CtxDone(b)'
  BY DEF CancelParent, CtxDone, BaseTypeOK, IInv, TypeOK
<1> QED
  BY <1>1, BaseOK

LEMMA WaiterOK ==
  ASSUME IInv, NEW b \in Bases, waitForDoneAndEndTheWorld(b), UNCHANGED httpVars PROVE IInv'
<1>1. BaseTypeOK' /\ \A c \in Bases : CtxDone(c) => CtxDone(c)'
  BY DEF waitForDoneAndEndTheWorld, Stop, CtxDone, BaseTypeOK, IInv, TypeOK
<1> QED
  BY <1>1, BaseOK

LEMMA CallOK == IInv /\ CallServe => IInv'
  BY MainAssumption DEF CallServe, Goto, baseVars, IInv, TypeOK, BaseTypeOK, HttpTypeOK,
     ShutterInv, ReturnInv, CtxDone

\* Only the main service has a sidecar.
LEMMA SidecarOfMain ==
  ASSUME NEW s \in Servers, NEW t \in Servers, SidecarOf[s] = t PROVE s = Main /\ t # Main
  BY Wiring, MainAssumption

LEMMA HttpOK == ASSUME IInv, NEW s \in Servers, HttpStep(s) PROVE IInv'
<1> USE Wiring, MainAssumption
    DEF Goto, Return, Stopped, baseVars, IInv, TypeOK, BaseTypeOK, HttpTypeOK,
        ShutterInv, ReturnInv, CtxDone
<1>1. CASE Serve(s)
  BY <1>1 DEF Serve
<1>2. CASE DoServe(s)
  <2>1. \A t \in Servers : pc'[t] = IF t = s THEN "SetStartedNow"
                                    ELSE IF t = SidecarOf[s] THEN "Serve" ELSE pc[t]
    BY <1>2 DEF DoServe
  <2>2. \A t \in Servers : t = SidecarOf[s] => s = Main /\ t # Main /\ pc[t] = "new"
    BY <1>2, SidecarOfMain DEF DoServe
  <2>3. s # Main => pc[Main] \notin {"new", "Serve", "DoServe"}
    BY <1>2 DEF DoServe
  <2>4. TypeOK'
    BY <1>2, <2>1 DEF DoServe
  <2>5. ShutterInv'
    BY <1>2, <2>1, <2>2 DEF DoServe
  <2>6. ReturnInv'
    BY <1>2, <2>1, <2>2, <2>3 DEF DoServe
  <2> QED
    BY <2>4, <2>5, <2>6
<1>3. CASE MarkStarted(s)
  BY <1>3 DEF MarkStarted, SetStartedNow
<1>4. CASE ServeClosed(s)
  BY <1>4 DEF ServeClosed
<1>5. CASE ShutdownErr(s)
  BY <1>5 DEF ShutdownErr
<1>6. CASE WaitSidecar(s)
  BY <1>6 DEF WaitSidecar
<1>7. CASE ServeFails(s)
  BY <1>7 DEF ServeFails
<1>8. CASE ShutdownBegin(s)
  BY <1>8 DEF ShutdownBegin
<1>9. ASSUME NEW err \in {"nil", "err"}, ShutdownEnd(s, err) PROVE IInv'
  BY <1>9 DEF ShutdownEnd
<1> QED
  BY <1>1, <1>2, <1>3, <1>4, <1>5, <1>6, <1>7, <1>8, <1>9 DEF HttpStep, ServeStep, ShutdownStep

LEMMA NextOK == IInv /\ [Next]_vars => IInv'
<1> SUFFICES ASSUME IInv, [Next]_vars PROVE IInv'
  OBVIOUS
<1>1. CASE UNCHANGED vars
  <2>1. UNCHANGED httpVars /\ BaseTypeOK' /\ \A b \in Bases : CtxDone(b) => CtxDone(b)'
    BY <1>1 DEF vars, baseVars, BaseTypeOK, CtxDone, IInv, TypeOK
  <2> QED
    BY <2>1, BaseOK
<1> QED
  BY <1>1, CancelOK, WaiterOK, CallOK, HttpOK DEF Next

LEMMA Invariance == Spec => []IInv
  BY InitOK, NextOK, PTL DEF Spec

\* Every reachable state of the service, its base and its sidecar is of the
\* declared type.
THEOREM TypeCorrect == Spec => []TypeOK
<1>1. IInv => TypeOK
  BY DEF IInv
<1> QED
  BY <1>1, Invariance, PTL

\* Serve of an HTTP service returns nil only when its context was cancelled and
\* its own goroutines and those of its sidecar are at their end.
THEOREM ReturnIsClean == Spec => []CleanReturn
<1>1. IInv => CleanReturn
  BY Wiring, MainAssumption DEF IInv, TypeOK, HttpTypeOK, ShutterInv, ReturnInv, CleanReturn
<1> QED
  BY <1>1, Invariance, PTL

\* Whatever becomes of the sidecar, the service serves until its context is
\* cancelled or its own listener fails.
THEOREM SidecarDoesNoHarm == Spec => []SidecarHarmless
<1>1. IInv => SidecarHarmless
  BY Wiring, MainAssumption DEF IInv, TypeOK, HttpTypeOK, ShutterInv, ReturnInv, SidecarHarmless
<1> QED
  BY <1>1, Invariance, PTL

-----------------------------------------------------------------------------
(* Serve after cancellation. *)

\* A service past DoServe has started its sidecar.
SidecarStarted ==
  \A s \in Servers : pc[Main] \in {"SetStartedNow", "serving", "shutdownErr", "wait"} => pc[s] # "new"

AnswerInv == SidecarStarted /\ \A s \in Servers : AnswerKept(s)

\* Serve of a service whose context is cancelled never waits for something that
\* cannot come: it can go on, or its shutdown goroutine can, or its sidecar, if
\* that is waited for and its context is cancelled, too (service.go:221 and 224).
CancelledGoesOn ==
  \A s \in Servers : CtxDone(BaseOf[s]) /\ pc[s] \notin {"new", "returned"} =>
    \/ ServeCanGo(s) \/ ShutdownCanGo(s)
    \/ /\ pc[s] = "wait"
       /\ \E t \in Servers : /\ SidecarOf[s] = t /\ pc[t] # "returned"
                             /\ CtxDone(BaseOf[t]) => ServeCanGo(t) \/ ShutdownCanGo(t)

LEMMA AnswerAside ==
  ASSUME AnswerInv, UNCHANGED httpVars PROVE AnswerInv'
  BY DEF AnswerInv, SidecarStarted, AnswerKept, httpVars

LEMMA AnswerOK == ASSUME IInv, AnswerInv, NEW s \in Servers, HttpStep(s) PROVE AnswerInv'
<1> USE Wiring, MainAssumption
    DEF Goto, Return, IInv, TypeOK, HttpTypeOK, ShutterInv, AnswerInv, SidecarStarted, AnswerKept
<1>1. CASE Serve(s)
  BY <1>1 DEF Serve
<1>2. CASE DoServe(s)
  <2>1. \A t \in Servers : pc'[t] = IF t = s THEN "SetStartedNow"
                                    ELSE IF t = SidecarOf[s] THEN "Serve" ELSE pc[t]
    BY <1>2 DEF DoServe
  <2>2. s # Main => SidecarOf[s] \notin Servers
    BY SidecarOfMain
  <2>3. s = Main => \A t \in Servers : t = Main \/ t = SidecarOf[Main]
    OBVIOUS
  <2>4. SidecarStarted'
    BY <1>2, <2>1, <2>2, <2>3 DEF DoServe
  <2>5. ASSUME NEW t \in Servers PROVE AnswerKept(t)'
    BY <1>2, <2>1, <2>5 DEF DoServe
  <2> QED
    BY <2>4, <2>5
<1>3. CASE MarkStarted(s)
  BY <1>3 DEF MarkStarted
<1>4. CASE ServeClosed(s)
  BY <1>4 DEF ServeClosed
<1>5. CASE ShutdownErr(s)
  BY <1>5 DEF ShutdownErr
<1>6. CASE WaitSidecar(s)
  BY <1>6 DEF WaitSidecar
<1>7. CASE ServeFails(s)
  BY <1>7 DEF ServeFails
<1>8. CASE ShutdownBegin(s)
  BY <1>8 DEF ShutdownBegin
<1>9. ASSUME NEW err \in {"nil", "err"}, ShutdownEnd(s, err) PROVE AnswerInv'
  BY <1>9 DEF ShutdownEnd
<1> QED
  BY <1>1, <1>2, <1>3, <1>4, <1>5, <1>6, <1>7, <1>8, <1>9 DEF HttpStep, ServeStep, ShutdownStep

\* No answer of a shutdown is lost, so that a cancelled service and a cancelled
\* sidecar find their way out, in whatever order the goroutines run.
THEOREM CancelIsHeard == Spec => []CancelledGoesOn
<1>1. Init => AnswerInv
  BY MainAssumption DEF Init, HttpInit, AnswerInv, SidecarStarted, AnswerKept
<1>2. IInv /\ AnswerInv /\ [Next]_vars => AnswerInv'
  <2> SUFFICES ASSUME IInv, AnswerInv, [Next]_vars PROVE AnswerInv'
    OBVIOUS
  <2>1. CASE CallServe
    BY <2>1, MainAssumption DEF CallServe, Goto, IInv, TypeOK, HttpTypeOK, AnswerInv, SidecarStarted, AnswerKept
  <2> QED
    BY <2>1, AnswerAside, AnswerOK DEF Next, vars
<1>3. IInv /\ AnswerInv => CancelledGoesOn
  <2> SUFFICES ASSUME IInv, AnswerInv, NEW s \in Servers, CtxDone(BaseOf[s]), pc[s] \notin {"new", "returned"},
                      ~ServeCanGo(s), ~ShutdownCanGo(s)
               PROVE  /\ pc[s] = "wait"
                      /\ \E t \in Servers : /\ SidecarOf[s] = t /\ pc[t] # "returned"
                                            /\ CtxDone(BaseOf[t]) => ServeCanGo(t) \/ ShutdownCanGo(t)
    BY DEF CancelledGoesOn
  <2>1. ASSUME NEW t \in Servers, CtxDone(BaseOf[t]), pc[t] \in {"SetStartedNow", "serving", "shutdownErr"}
        PROVE  ServeCanGo(t) \/ ShutdownCanGo(t)
    BY <2>1 DEF IInv, TypeOK, HttpTypeOK, AnswerInv, AnswerKept, ServeCanGo, ShutdownCanGo
  <2>2. pc[s] = "wait" /\ SidecarOf[s] \in Servers /\ pc[SidecarOf[s]] # "returned"
    BY <2>1, Wiring DEF IInv, TypeOK, HttpTypeOK, ServeCanGo
  <2>3. s = Main /\ pc[SidecarOf[s]] # "new" /\ SidecarOf[SidecarOf[s]] = NoServer
    BY <2>2, SidecarOfMain, Wiring DEF AnswerInv, SidecarStarted
  <2>4. CtxDone(BaseOf[SidecarOf[s]]) => ServeCanGo(SidecarOf[s]) \/ ShutdownCanGo(SidecarOf[s])
    BY <2>1, <2>2, <2>3 DEF IInv, TypeOK, HttpTypeOK, ServeCanGo
  <2> QED
    BY <2>2, <2>4
<1> QED
  BY <1>1, <1>2, <1>3, Invariance, PTL DEF Spec
=============================================================================
