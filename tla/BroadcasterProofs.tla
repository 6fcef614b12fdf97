-------------------------- MODULE BroadcasterProofs --------------------------
(***************************************************************************)
(* The broadcaster for any number of callers, messages, listeners and      *)
(* Start calls: its barriers and channels, the order and completeness of   *)
(* what listeners receive, restarts, that it implements OrderedBroadcast,  *)
(* and that it never locks up.                                             *)
(***************************************************************************)
EXTENDS Broadcaster, TLAPS

\* Which calls have which arguments.
ArgInv ==
  \A p \in Callers :
    /\ pc[p] \in {"Subscribe", "Unsubscribe", "lstop", "lstopArea"} => arg[p] \in Listeners
    /\ pc[p] \in {"Write", "WriteSync", "sending"} => arg[p] \in Messages

\* The barrier of the broadcaster: exactly the caller in the status area is
\* the writer; past its check Stop is alone; an accepted write and the second
\* half of Unsubscribe are readers, and the flag is set as long as they are.
BarrierInv ==
  /\ \A p \in Callers : pc[p] \in StatusAreaPCs <=> p \in barrier.writer
  /\ \A g, h \in barrier.writer : g = h
  /\ \A p \in Callers : pc[p] \in {"stopWait", "stopRange"} => barrier.readers = {} /\ barrier.started
  /\ \A p \in Callers : pc[p] \in {"lstop", "lstopArea"} => p \in barrier.readers /\ barrier.started
  /\ \A m \in Messages : mstate[m] = "sending" => m \in barrier.readers /\ barrier.started

\* b.c is closed only by a Stop, and a started broadcaster with b.c closed
\* has been restarted.
ChannelInv ==
  /\ barrier.started => starts > 0
  /\ bclosed => starts > 0
  /\ (bclosed /\ barrier.started) => starts > 1
  /\ panicked => starts > 1

\* Listeners are handed out once, and only those can be found in the map or
\* by the worker.
MadeInv ==
  /\ \A p \in Callers : pc[p] = "Subscribe" => arg[p] \notin made
  /\ \A p, q \in Callers : (pc[p] = "Subscribe" /\ pc[q] = "Subscribe" /\ p # q) => arg[p] # arg[q]
  /\ \A p \in Callers : pc[p] \in {"Unsubscribe", "lstop", "lstopArea"} => arg[p] \in made
  /\ listeners \subseteq made
  /\ reach \subseteq made
  /\ wpc \in {"write", "send"} => target \in made

\* The barrier of a listener: its flag says that its channel is open, and the
\* worker in its select is a reader of an open listener.
ListenerInv ==
  /\ \A l \in made : lbarrier[l].started <=> ~lclosed[l]
  /\ \A l \in Listeners : lclosed[l] => l \in made
  /\ wpc = "send" => Worker \in lbarrier[target].readers /\ lbarrier[target].started

\* A stopped broadcaster has no worker and no listener.
StopInv ==
  /\ ~barrier.started => wpc = "off" /\ listeners = {}
  /\ \A p \in Callers : pc[p] = "stopRange" => wpc = "off"

\* A listener that is open is registered or in the hands of an Unsubscribe.
OpenInv ==
  \A l \in made :
    \/ lclosed[l]
    \/ l \in listeners
    \/ \E p \in Callers : pc[p] \in {"lstop", "lstopArea"} /\ arg[p] = l

IInv ==
  TypeOK /\ ArgInv /\ BarrierInv /\ ChannelInv /\ MadeInv /\ ListenerInv /\ StopInv /\ OpenInv

-----------------------------------------------------------------------------
(* What the operations of a barrier do to its fields. *)

\* The barriers in a reachable state are barriers of goroutines.
LEMMA BarrierTypes ==
  ASSUME IInv
  PROVE  /\ barrier \in Barriers(Goroutines)
         /\ \A l \in Listeners : lbarrier[l] \in Barriers(Goroutines)
  BY DEF IInv, TypeOK

\* RLock adds a reader, unless there is a writer; the flag and the writer stay.
LEMMA EnteringFacts ==
  ASSUME NEW b \in Barriers(Goroutines), NEW g \in Goroutines
  PROVE  /\ Entering(b, g) \in Barriers(Goroutines)
         /\ Entering(b, g).started = b.started
         /\ Entering(b, g).writer = b.writer
         /\ b.readers \subseteq Entering(b, g).readers
         /\ b.writer # {} => Entering(b, g).readers = b.readers
  BY DEF Entering, Barriers

\* RUnlock removes one reader.
LEMMA OutFacts ==
  ASSUME NEW b \in Barriers(Goroutines), NEW g \in Goroutines
  PROVE  /\ Out(b, g) \in Barriers(Goroutines)
         /\ Out(b, g).started = b.started
         /\ Out(b, g).writer = b.writer
         /\ Out(b, g).readers = b.readers \ {g}
  BY DEF Out, Barriers

\* The read lock of Write passes from the caller to its goroutine.
LEMMA HandOverFacts ==
  ASSUME NEW b \in Barriers(Goroutines), NEW g \in Goroutines, NEW h \in Goroutines
  PROVE  /\ HandOver(b, g, h) \in Barriers(Goroutines)
         /\ HandOver(b, g, h).started = b.started
         /\ HandOver(b, g, h).writer = b.writer
         /\ HandOver(b, g, h).readers = (b.readers \ {g}) \cup {h}
  BY DEF HandOver, Barriers

\* Lock announces its goroutine as the writer.
LEMMA EnteringStatusAreaFacts ==
  ASSUME NEW b \in Barriers(Goroutines), NEW g \in Goroutines
  PROVE  /\ EnteringStatusArea(b, g) \in Barriers(Goroutines)
         /\ EnteringStatusArea(b, g).started = b.started
         /\ EnteringStatusArea(b, g).writer = {g}
         /\ EnteringStatusArea(b, g).readers = b.readers
  BY DEF EnteringStatusArea, Barriers

\* Unlock leaves no writer.
LEMMA OutOfStatusAreaFacts ==
  ASSUME NEW b \in Barriers(Goroutines)
  PROVE  /\ OutOfStatusArea(b) \in Barriers(Goroutines)
         /\ OutOfStatusArea(b).started = b.started
         /\ OutOfStatusArea(b).writer = {}
  BY DEF OutOfStatusArea, Barriers

\* MarkStarted and MarkStopped change only the flag.
LEMMA MarkFacts ==
  ASSUME NEW b \in Barriers(Goroutines)
  PROVE  /\ MarkStarted(b) \in Barriers(Goroutines) /\ MarkStarted(b).started = TRUE
         /\ MarkStarted(b).writer = b.writer /\ MarkStarted(b).readers = b.readers
         /\ MarkStopped(b) \in Barriers(Goroutines) /\ MarkStopped(b).started = FALSE
         /\ MarkStopped(b).writer = b.writer /\ MarkStopped(b).readers = b.readers
  BY DEF MarkStarted, MarkStopped, Barriers

\* A new barrier is stopped and free.
LEMMA NewFacts ==
  /\ newStatusBarrier \in Barriers(Goroutines) /\ newStatusBarrier.started = FALSE
  /\ newStatusBarrier.writer = {} /\ newStatusBarrier.readers = {}
  BY DEF newStatusBarrier, Barriers

-----------------------------------------------------------------------------
(* Every action preserves the invariant. *)

\* Cancelling the context changes none of the parts.
LEMMA ParentCancelPreserves ==
  ASSUME IInv, ~panicked, ParentCancel
  PROVE  IInv'
<1>1. ArgInv' /\ BarrierInv' /\ ChannelInv' /\ MadeInv' /\ ListenerInv' /\ StopInv' /\ OpenInv'
  BY DEF ParentCancel, lVars, wVars, cVars, hVars, IInv, ArgInv, BarrierInv, ChannelInv,
     MadeInv, ListenerInv, StopInv, OpenInv
<1>2. TypeOK'
  BY DEF ParentCancel, lVars, wVars, cVars, hVars, IInv, TypeOK
<1> QED
  BY <1>1, <1>2 DEF IInv

\* A caller enters Subscribe.
LEMMA InvokeSubscribePreserves ==
  ASSUME IInv, ~panicked, NEW p \in Callers, NEW l \in Listeners, InvokeSubscribe(p, l)
  PROVE  IInv'
<1>1. pc' = [pc EXCEPT ![p] = "Subscribe"] /\ arg' = [arg EXCEPT ![p] = l]
  BY DEF InvokeSubscribe, InvokeReader
<1>2. arg' \in [Callers -> Listeners \cup Messages \cup {None}]
  BY <1>1 DEF IInv, TypeOK
<1>3. barrier' = Entering(barrier, p) /\ p \in Goroutines
  BY DEF InvokeSubscribe, InvokeReader, Goroutines
<1>4. /\ barrier' \in Barriers(Goroutines)
      /\ barrier'.started = barrier.started
      /\ barrier'.writer = barrier.writer
      /\ barrier.readers \subseteq barrier'.readers
      /\ (barrier.writer # {} => barrier'.readers = barrier.readers)
  BY BarrierTypes, <1>3, EnteringFacts
<1>5. TypeOK'
  BY <1>2, <1>4 DEF InvokeSubscribe, InvokeReader, lVars, wVars, hVars, IInv, TypeOK, CallerPCs,
     ReaderCalls
<1>6. ArgInv'
  BY <1>1, <1>2, <1>4 DEF IInv, TypeOK, ArgInv
<1>7. BarrierInv'
  BY <1>1, <1>3, <1>4 DEF InvokeSubscribe, InvokeReader, IInv, TypeOK, BarrierInv, StatusAreaPCs
<1>8. ChannelInv'
  BY <1>3, <1>4 DEF InvokeSubscribe, InvokeReader, hVars, IInv, ChannelInv
<1>9. MadeInv'
  BY <1>1, <1>2, <1>4 DEF InvokeSubscribe, InvokeReader, wVars, hVars, IInv, MadeInv
<1>10. ListenerInv'
  BY <1>4 DEF InvokeSubscribe, InvokeReader, lVars, wVars, hVars, IInv, ListenerInv
<1>11. StopInv'
  BY <1>1, <1>3, <1>4 DEF InvokeSubscribe, InvokeReader, wVars, IInv, StopInv
<1>12. \A q \in Callers : pc[q] \in {"lstop", "lstopArea"} =>
        pc'[q] \in {"lstop", "lstopArea"} /\ arg'[q] = arg[q]
  BY DEF InvokeSubscribe, InvokeReader
<1>13. OpenInv'
  BY <1>1, <1>2, <1>4, <1>12 DEF InvokeSubscribe, InvokeReader, lVars, hVars, IInv, OpenInv
<1> QED
  BY <1>5, <1>6, <1>7, <1>8, <1>9, <1>10, <1>11, <1>13 DEF IInv

\* A caller enters Unsubscribe.
LEMMA InvokeUnsubscribePreserves ==
  ASSUME IInv, ~panicked, NEW p \in Callers, NEW l \in Listeners, InvokeUnsubscribe(p, l)
  PROVE  IInv'
<1>1. pc' = [pc EXCEPT ![p] = "Unsubscribe"] /\ arg' = [arg EXCEPT ![p] = l]
  BY DEF InvokeUnsubscribe, InvokeReader
<1>2. barrier' = Entering(barrier, p) /\ p \in Goroutines
  BY DEF InvokeUnsubscribe, InvokeReader, Goroutines
<1>3. /\ barrier' \in Barriers(Goroutines)
      /\ barrier'.started = barrier.started
      /\ barrier'.writer = barrier.writer
      /\ barrier.readers \subseteq barrier'.readers
      /\ (barrier.writer # {} => barrier'.readers = barrier.readers)
  BY BarrierTypes, <1>2, EnteringFacts
<1>4. TypeOK'
  BY <1>3 DEF InvokeUnsubscribe, InvokeReader, lVars, wVars, hVars, IInv, TypeOK, CallerPCs,
     ReaderCalls
<1>5. ArgInv'
  BY <1>1, <1>3 DEF IInv, TypeOK, ArgInv
<1>6. BarrierInv'
  BY <1>1, <1>2, <1>3 DEF InvokeUnsubscribe, InvokeReader, IInv, TypeOK, BarrierInv, StatusAreaPCs
<1>7. ChannelInv'
  BY <1>2, <1>3 DEF InvokeUnsubscribe, InvokeReader, hVars, IInv, ChannelInv
<1>8. MadeInv'
  BY <1>1, <1>3 DEF InvokeUnsubscribe, InvokeReader, wVars, hVars, IInv, TypeOK, MadeInv
<1>9. ListenerInv'
  BY <1>3 DEF InvokeUnsubscribe, InvokeReader, lVars, wVars, hVars, IInv, ListenerInv
<1>10. StopInv'
  BY <1>1, <1>2, <1>3 DEF InvokeUnsubscribe, InvokeReader, wVars, IInv, StopInv
<1>11. \A q \in Callers : pc[q] \in {"lstop", "lstopArea"} =>
        pc'[q] \in {"lstop", "lstopArea"} /\ arg'[q] = arg[q]
  BY DEF InvokeUnsubscribe, InvokeReader
<1>12. OpenInv'
  BY <1>1, <1>3, <1>11 DEF InvokeUnsubscribe, InvokeReader, lVars, hVars, IInv, OpenInv
<1> QED
  BY <1>4, <1>5, <1>6, <1>7, <1>8, <1>9, <1>10, <1>12 DEF IInv

\* A caller enters IsSubscribed or IsStopped.
LEMMA InvokeQueryPreserves ==
  ASSUME IInv, ~panicked, NEW p \in Callers, InvokeQuery(p)
  PROVE  IInv'
<1>1. pc' = [pc EXCEPT ![p] = "Query"] /\ arg' = [arg EXCEPT ![p] = None]
  BY DEF InvokeQuery, InvokeReader
<1>2. barrier' = Entering(barrier, p) /\ p \in Goroutines
  BY DEF InvokeQuery, InvokeReader, Goroutines
<1>3. /\ barrier' \in Barriers(Goroutines)
      /\ barrier'.started = barrier.started
      /\ barrier'.writer = barrier.writer
      /\ barrier.readers \subseteq barrier'.readers
      /\ (barrier.writer # {} => barrier'.readers = barrier.readers)
  BY BarrierTypes, <1>2, EnteringFacts
<1>4. TypeOK'
  BY <1>3 DEF InvokeQuery, InvokeReader, lVars, wVars, hVars, IInv, TypeOK, CallerPCs, ReaderCalls
<1>5. ArgInv'
  BY <1>1, <1>3 DEF IInv, TypeOK, ArgInv
<1>6. BarrierInv'
  BY <1>1, <1>2, <1>3 DEF InvokeQuery, InvokeReader, IInv, TypeOK, BarrierInv, StatusAreaPCs
<1>7. ChannelInv'
  BY <1>2, <1>3 DEF InvokeQuery, InvokeReader, hVars, IInv, ChannelInv
<1>8. MadeInv'
  BY <1>1, <1>3 DEF InvokeQuery, InvokeReader, wVars, hVars, IInv, MadeInv
<1>9. ListenerInv'
  BY <1>3 DEF InvokeQuery, InvokeReader, lVars, wVars, hVars, IInv, ListenerInv
<1>10. StopInv'
  BY <1>1, <1>2, <1>3 DEF InvokeQuery, InvokeReader, wVars, IInv, StopInv
<1>11. \A q \in Callers : pc[q] \in {"lstop", "lstopArea"} =>
        pc'[q] \in {"lstop", "lstopArea"} /\ arg'[q] = arg[q]
  BY DEF InvokeQuery, InvokeReader
<1>12. OpenInv'
  BY <1>1, <1>3, <1>11 DEF InvokeQuery, InvokeReader, lVars, hVars, IInv, OpenInv
<1> QED
  BY <1>4, <1>5, <1>6, <1>7, <1>8, <1>9, <1>10, <1>12 DEF IInv

\* A caller enters Write or WriteSync.
LEMMA InvokeWritePreserves ==
  ASSUME IInv, ~panicked,
         NEW p \in Callers, NEW m \in Messages, NEW call \in {"Write", "WriteSync"}, InvokeWrite(p, m, call)
  PROVE  IInv'
<1>1. pc' = [pc EXCEPT ![p] = call] /\ arg' = [arg EXCEPT ![p] = m]
  BY DEF InvokeWrite, InvokeReader
<1>2. arg' \in [Callers -> Listeners \cup Messages \cup {None}]
  BY <1>1 DEF IInv, TypeOK
<1>3. pc' \in [Callers -> CallerPCs]
  BY <1>1 DEF IInv, TypeOK, CallerPCs, ReaderCalls
<1>4. barrier' = Entering(barrier, p) /\ p \in Goroutines
  BY DEF InvokeWrite, InvokeReader, Goroutines
<1>5. /\ barrier' \in Barriers(Goroutines)
      /\ barrier'.started = barrier.started
      /\ barrier'.writer = barrier.writer
      /\ barrier.readers \subseteq barrier'.readers
      /\ (barrier.writer # {} => barrier'.readers = barrier.readers)
  BY BarrierTypes, <1>4, EnteringFacts
<1>6. TypeOK'
  BY <1>2, <1>3, <1>5 DEF InvokeWrite, InvokeReader, lVars, wVars, hVars, IInv, TypeOK
<1>7. ArgInv'
  BY <1>1, <1>2, <1>3, <1>5 DEF IInv, TypeOK, ArgInv
<1>8. BarrierInv'
  BY <1>1, <1>3, <1>4, <1>5 DEF InvokeWrite, InvokeReader, IInv, TypeOK, BarrierInv, StatusAreaPCs
<1>9. ChannelInv'
  BY <1>4, <1>5 DEF InvokeWrite, InvokeReader, hVars, IInv, ChannelInv
<1>10. MadeInv'
  BY <1>1, <1>2, <1>3, <1>5 DEF InvokeWrite, InvokeReader, wVars, hVars, IInv, MadeInv
<1>11. ListenerInv'
  BY <1>5 DEF InvokeWrite, InvokeReader, lVars, wVars, hVars, IInv, ListenerInv
<1>12. StopInv'
  BY <1>1, <1>3, <1>4, <1>5 DEF InvokeWrite, InvokeReader, wVars, IInv, StopInv
<1>13. \A q \in Callers : pc[q] \in {"lstop", "lstopArea"} =>
        pc'[q] \in {"lstop", "lstopArea"} /\ arg'[q] = arg[q]
  BY DEF InvokeWrite, InvokeReader
<1>14. OpenInv'
  BY <1>1, <1>2, <1>3, <1>5, <1>13 DEF InvokeWrite, InvokeReader, lVars, hVars, IInv, OpenInv
<1> QED
  BY <1>6, <1>7, <1>8, <1>9, <1>10, <1>11, <1>12, <1>14 DEF IInv

\* A caller enters Start.
LEMMA InvokeStartPreserves ==
  ASSUME IInv, ~panicked, NEW p \in Callers, InvokeStart(p)
  PROVE  IInv'
<1>1. pc' = [pc EXCEPT ![p] = "Start"] /\ arg' = arg
  BY DEF InvokeStart
<1>2. startCalls' \in Nat
  BY DEF InvokeStart, IInv, TypeOK
<1>3. ChannelInv' /\ ListenerInv'
  BY DEF InvokeStart, bVars, lVars, wVars, IInv, ChannelInv, ListenerInv
<1>4. TypeOK'
  BY <1>2 DEF InvokeStart, bVars, lVars, wVars, IInv, TypeOK, CallerPCs, ReaderCalls
<1>5. ArgInv'
  BY <1>1 DEF IInv, TypeOK, ArgInv
<1>6. BarrierInv'
  BY <1>1 DEF InvokeStart, bVars, IInv, TypeOK, BarrierInv, StatusAreaPCs
<1>7. MadeInv'
  BY <1>1 DEF InvokeStart, bVars, wVars, IInv, MadeInv
<1>8. StopInv'
  BY <1>1 DEF InvokeStart, bVars, wVars, IInv, StopInv
<1>9. \A q \in Callers : pc[q] \in {"lstop", "lstopArea"} =>
        pc'[q] \in {"lstop", "lstopArea"} /\ arg'[q] = arg[q]
  BY DEF InvokeStart
<1>10. OpenInv'
  BY <1>1, <1>9 DEF InvokeStart, bVars, lVars, IInv, OpenInv
<1> QED
  BY <1>3, <1>4, <1>5, <1>6, <1>7, <1>8, <1>10 DEF IInv

\* A caller enters Stop.
LEMMA InvokeStopPreserves ==
  ASSUME IInv, ~panicked, NEW p \in Callers, InvokeStop(p)
  PROVE  IInv'
<1>1. pc' = [pc EXCEPT ![p] = "Stop"] /\ arg' = arg
  BY DEF InvokeStop
<1>2. ChannelInv' /\ ListenerInv'
  BY DEF InvokeStop, bVars, lVars, wVars, hVars, IInv, ChannelInv, ListenerInv
<1>3. TypeOK'
  BY DEF InvokeStop, bVars, lVars, wVars, hVars, IInv, TypeOK, CallerPCs, ReaderCalls
<1>4. ArgInv'
  BY <1>1 DEF IInv, TypeOK, ArgInv
<1>5. BarrierInv'
  BY <1>1 DEF InvokeStop, bVars, IInv, TypeOK, BarrierInv, StatusAreaPCs
<1>6. MadeInv'
  BY <1>1 DEF InvokeStop, bVars, wVars, hVars, IInv, MadeInv
<1>7. StopInv'
  BY <1>1 DEF InvokeStop, bVars, wVars, IInv, StopInv
<1>8. \A q \in Callers : pc[q] \in {"lstop", "lstopArea"} =>
        pc'[q] \in {"lstop", "lstopArea"} /\ arg'[q] = arg[q]
  BY DEF InvokeStop
<1>9. OpenInv'
  BY <1>1, <1>8 DEF InvokeStop, bVars, lVars, hVars, IInv, OpenInv
<1> QED
  BY <1>2, <1>3, <1>4, <1>5, <1>6, <1>7, <1>9 DEF IInv

\* Start and Stop announce themselves; there is no other writer.
LEMMA EnterStatusAreaPreserves ==
  ASSUME IInv, ~panicked, NEW p \in Callers, EnterStatusArea(p)
  PROVE  IInv'
<1>1. pc' = [pc EXCEPT ![p] = IF pc[p] = "Start" THEN "startArea" ELSE "stopArea"] /\ arg' = arg
  BY DEF EnterStatusArea
<1>2. barrier' = EnteringStatusArea(barrier, p) /\ p \in Goroutines /\ barrier.writer = {}
  BY DEF EnterStatusArea, Goroutines
<1>3. /\ barrier' \in Barriers(Goroutines)
      /\ barrier'.started = barrier.started
      /\ barrier'.writer = {p}
      /\ barrier'.readers = barrier.readers
  BY BarrierTypes, <1>2, EnteringStatusAreaFacts
<1>4. TypeOK'
  BY <1>3 DEF EnterStatusArea, lVars, wVars, hVars, IInv, TypeOK, CallerPCs, ReaderCalls
<1>5. ArgInv'
  BY <1>1, <1>2, <1>3 DEF IInv, TypeOK, ArgInv
<1>6. BarrierInv'
  BY <1>1, <1>2, <1>3 DEF EnterStatusArea, IInv, TypeOK, BarrierInv, StatusAreaPCs
<1>7. ChannelInv'
  BY <1>2, <1>3 DEF EnterStatusArea, hVars, IInv, ChannelInv
<1>8. MadeInv'
  BY <1>1, <1>2, <1>3 DEF EnterStatusArea, wVars, hVars, IInv, MadeInv
<1>9. ListenerInv'
  BY <1>2, <1>3 DEF EnterStatusArea, lVars, wVars, hVars, IInv, ListenerInv
<1>10. StopInv'
  BY <1>1, <1>2, <1>3 DEF EnterStatusArea, wVars, IInv, StopInv
<1>11. \A q \in Callers : pc[q] \in {"lstop", "lstopArea"} =>
        pc'[q] \in {"lstop", "lstopArea"} /\ arg'[q] = arg[q]
  BY DEF EnterStatusArea
<1>12. OpenInv'
  BY <1>1, <1>2, <1>3, <1>11 DEF EnterStatusArea, lVars, hVars, IInv, OpenInv
<1> QED
  BY <1>4, <1>5, <1>6, <1>7, <1>8, <1>9, <1>10, <1>12 DEF IInv

\* IsSubscribed and IsStopped return.
LEMMA QueryPreserves ==
  ASSUME IInv, ~panicked, NEW p \in Callers, Query(p)
  PROVE  IInv'
<1>1. pc' = [pc EXCEPT ![p] = "idle"] /\ arg' = [arg EXCEPT ![p] = None]
  BY DEF Query, ReturnReader, Return
<1>2. barrier' = Out(barrier, p) /\ p \in Goroutines
  BY DEF Query, ReturnReader, Return, Goroutines
<1>3. /\ barrier' \in Barriers(Goroutines)
      /\ barrier'.started = barrier.started
      /\ barrier'.writer = barrier.writer
      /\ barrier'.readers = barrier.readers \ {p}
  BY BarrierTypes, <1>2, OutFacts
<1>4. TypeOK'
  BY <1>3 DEF Query, ReturnReader, Return, lVars, wVars, hVars, IInv, TypeOK, CallerPCs,
     ReaderCalls
<1>5. ArgInv'
  BY <1>1, <1>3 DEF IInv, TypeOK, ArgInv
<1>6. BarrierInv'
  BY <1>1, <1>2, <1>3, Disjoint DEF Query, ReturnReader, Return, IInv, TypeOK, BarrierInv,
     StatusAreaPCs
<1>7. ChannelInv'
  BY <1>2, <1>3 DEF Query, ReturnReader, Return, hVars, IInv, ChannelInv
<1>8. MadeInv'
  BY <1>1, <1>3 DEF Query, ReturnReader, Return, wVars, hVars, IInv, MadeInv
<1>9. ListenerInv'
  BY <1>3 DEF Query, ReturnReader, Return, lVars, wVars, hVars, IInv, ListenerInv
<1>10. StopInv'
  BY <1>1, <1>2, <1>3 DEF Query, ReturnReader, Return, wVars, IInv, StopInv
<1>11. \A q \in Callers : pc[q] \in {"lstop", "lstopArea"} =>
        pc'[q] \in {"lstop", "lstopArea"} /\ arg'[q] = arg[q]
  BY DEF Query, ReturnReader, Return
<1>12. OpenInv'
  BY <1>1, <1>3, <1>11 DEF Query, ReturnReader, Return, lVars, hVars, IInv, OpenInv
<1> QED
  BY <1>4, <1>5, <1>6, <1>7, <1>8, <1>9, <1>10, <1>12 DEF IInv

\* Subscribe fails, or hands out a listener that is open and registered.
LEMMA SubscribePreserves ==
  ASSUME IInv, ~panicked, NEW p \in Callers, Subscribe(p)
  PROVE  IInv'
<1>1. CASE ~barrier.started
  <2>1. pc' = [pc EXCEPT ![p] = "idle"] /\ arg' = [arg EXCEPT ![p] = None]
    BY DEF Subscribe, ReturnReader, Return
  <2>2. barrier' = Out(barrier, p) /\ p \in Goroutines
    BY DEF Subscribe, ReturnReader, Return, Goroutines
  <2>3. /\ barrier' \in Barriers(Goroutines)
        /\ barrier'.started = barrier.started
        /\ barrier'.writer = barrier.writer
        /\ barrier'.readers = barrier.readers \ {p}
    BY BarrierTypes, <2>2, OutFacts
  <2>4. TypeOK'
    BY <1>1, <2>1, <2>2, <2>3, Disjoint DEF Subscribe, ReturnReader, Return, bVars, lVars,
       wVars, cVars, hVars, IInv, TypeOK, CallerPCs, ReaderCalls, BufferCap, IsStopped,
       InStatusArea, Goroutines
  <2>5. ArgInv'
    BY <2>1, <2>3 DEF IInv, TypeOK, ArgInv
  <2>6. BarrierInv'
    BY <1>1, <2>1, <2>2, <2>3 DEF Subscribe, ReturnReader, Return, IInv, TypeOK, BarrierInv,
       StatusAreaPCs
  <2>7. ChannelInv'
    BY <2>2, <2>3 DEF Subscribe, ReturnReader, Return, IInv, ChannelInv
  <2>8. MadeInv'
    BY <2>1, <2>3 DEF Subscribe, ReturnReader, Return, IInv, TypeOK, MadeInv
  <2>9. ListenerInv'
    BY <1>1, <2>3 DEF Subscribe, ReturnReader, Return, IInv, TypeOK, ListenerInv, MadeInv,
       IsStopped, InStatusArea
  <2>10. StopInv'
    BY <1>1, <2>1, <2>2, <2>3 DEF Subscribe, ReturnReader, Return, IInv, TypeOK, StopInv,
       BarrierInv, StatusAreaPCs, IsStopped, InStatusArea
  <2>11. \A q \in Callers : pc[q] \in {"lstop", "lstopArea"} =>
          pc'[q] \in {"lstop", "lstopArea"} /\ arg'[q] = arg[q]
    BY DEF Subscribe, ReturnReader, Return
  <2>12. OpenInv'
    BY <2>1, <2>3, <2>11 DEF Subscribe, ReturnReader, Return, IInv, OpenInv
  <2> QED
    BY <2>4, <2>5, <2>6, <2>7, <2>8, <2>9, <2>10, <2>12 DEF IInv
<1>2. CASE barrier.started
  <2>1. pc' = [pc EXCEPT ![p] = "idle"] /\ arg' = [arg EXCEPT ![p] = None]
    BY DEF Subscribe, ReturnReader, Return
  <2>2. barrier' = Out(barrier, p) /\ p \in Goroutines
    BY DEF Subscribe, ReturnReader, Return, Goroutines
  <2>3. /\ barrier' \in Barriers(Goroutines)
        /\ barrier'.started = barrier.started
        /\ barrier'.writer = barrier.writer
        /\ barrier'.readers = barrier.readers \ {p}
    BY BarrierTypes, <2>2, OutFacts
  <2>4. /\ arg[p] \in Listeners
        /\ lbarrier' = [lbarrier EXCEPT ![arg[p]] = MarkStarted(newStatusBarrier)]
        /\ made' = made \cup {arg[p]}
        /\ since' = [since EXCEPT ![arg[p]] = taken]
    BY <1>2 DEF Subscribe, ReturnReader, Return, IsStopped, InStatusArea, IInv, TypeOK, ArgInv
  <2>5. /\ MarkStarted(newStatusBarrier) \in Barriers(Goroutines)
        /\ MarkStarted(newStatusBarrier).started = TRUE
    BY <2>4, NewFacts, MarkFacts
  <2>6. lbarrier' \in [Listeners -> Barriers(Goroutines)]
    BY <1>2, <2>1, <2>2, <2>3, <2>4, <2>5, Disjoint DEF Subscribe, ReturnReader, Return,
       bVars, lVars, wVars, cVars, hVars, IInv, TypeOK, ArgInv
  <2>7. /\ since' \in [Listeners -> Nat]
        /\ listeners' \subseteq Listeners
        /\ reach' \subseteq Listeners
    BY <2>3, <2>4 DEF Subscribe, ReturnReader, Return, IInv, TypeOK
  <2>8. TypeOK'
    BY <2>3, <2>6, <2>7 DEF Subscribe, ReturnReader, Return, IInv, TypeOK, CallerPCs, ReaderCalls
  <2>9. ArgInv'
    BY <2>1, <2>3 DEF IInv, TypeOK, ArgInv
  <2>10. BarrierInv'
    BY <1>2, <2>1, <2>2, <2>3, Disjoint DEF Subscribe, ReturnReader, Return, IInv, TypeOK,
       BarrierInv, StatusAreaPCs
  <2>11. ChannelInv'
    BY <2>2, <2>3 DEF Subscribe, ReturnReader, Return, IInv, ChannelInv
  <2>12. MadeInv'
    BY <2>1, <2>3, <2>4, <2>7 DEF Subscribe, ReturnReader, Return, IInv, TypeOK, MadeInv
  <2>13. ListenerInv'
    BY <1>2, <2>1, <2>2, <2>3, <2>4, <2>5, <2>6, <2>7 DEF Subscribe, ReturnReader, Return,
       IInv, TypeOK, ListenerInv, MadeInv, ArgInv, StopInv, IsStopped, InStatusArea
  <2>14. StopInv'
    BY <1>2, <2>1, <2>2, <2>3, <2>7 DEF Subscribe, ReturnReader, Return, IInv, TypeOK,
       StopInv, StatusAreaPCs
  <2>15. \A q \in Callers : pc[q] \in {"lstop", "lstopArea"} =>
          pc'[q] \in {"lstop", "lstopArea"} /\ arg'[q] = arg[q]
    BY DEF Subscribe, ReturnReader, Return
  <2>16. OpenInv'
    BY <2>1, <2>3, <2>4, <2>7, <2>15 DEF Subscribe, ReturnReader, Return, IInv, OpenInv
  <2> QED
    BY <2>8, <2>9, <2>10, <2>11, <2>12, <2>13, <2>14, <2>16 DEF IInv
<1> QED
  BY <1>1, <1>2

\* Unsubscribe returns, or takes the listener out of the map and keeps the read lock.
LEMMA UnsubscribePreserves ==
  ASSUME IInv, ~panicked, NEW p \in Callers, Unsubscribe(p)
  PROVE  IInv'
<1>1. CASE ~barrier.started \/ arg[p] \notin listeners
  <2>1. pc' = [pc EXCEPT ![p] = "idle"] /\ arg' = [arg EXCEPT ![p] = None]
    BY <1>1 DEF Unsubscribe, ReturnReader, Return, IsStopped
  <2>2. listeners' = listeners /\ owed' = owed
    BY <1>1 DEF Unsubscribe, ReturnReader, Return, IsStopped
  <2>3. barrier' = Out(barrier, p) /\ p \in Goroutines
    BY <1>1 DEF Unsubscribe, ReturnReader, Return, Goroutines, IsStopped
  <2>4. /\ barrier' \in Barriers(Goroutines)
        /\ barrier'.started = barrier.started
        /\ barrier'.writer = barrier.writer
        /\ barrier'.readers = barrier.readers \ {p}
    BY BarrierTypes, <2>3, OutFacts
  <2>5. TypeOK'
    BY <2>4 DEF Unsubscribe, ReturnReader, Return, lVars, hVars, IInv, TypeOK, CallerPCs,
       ReaderCalls
  <2>6. ArgInv'
    BY <2>1, <2>4 DEF IInv, TypeOK, ArgInv
  <2>7. BarrierInv'
    BY <1>1, <2>1, <2>3, <2>4, Disjoint DEF Unsubscribe, ReturnReader, Return, IInv, TypeOK,
       BarrierInv, StatusAreaPCs
  <2>8. ChannelInv'
    BY <2>3, <2>4 DEF Unsubscribe, ReturnReader, Return, hVars, IInv, ChannelInv
  <2>9. MadeInv'
    BY <2>1, <2>2, <2>4 DEF Unsubscribe, ReturnReader, Return, hVars, IInv, TypeOK, MadeInv
  <2>10. ListenerInv'
    BY <2>4 DEF Unsubscribe, ReturnReader, Return, lVars, hVars, IInv, ListenerInv
  <2>11. StopInv'
    BY <2>1, <2>2, <2>3, <2>4 DEF Unsubscribe, ReturnReader, Return, IInv, StopInv
  <2>12. \A q \in Callers : pc[q] \in {"lstop", "lstopArea"} =>
          pc'[q] \in {"lstop", "lstopArea"} /\ arg'[q] = arg[q]
    BY <2>1 DEF Unsubscribe, ReturnReader, Return, IInv, TypeOK
  <2>13. OpenInv'
    BY <2>1, <2>2, <2>4, <2>12 DEF Unsubscribe, ReturnReader, Return, lVars, hVars, IInv, OpenInv
  <2> QED
    BY <2>5, <2>6, <2>7, <2>8, <2>9, <2>10, <2>11, <2>13 DEF IInv
<1>2. CASE barrier.started /\ arg[p] \in listeners
  <2>1. pc' = [pc EXCEPT ![p] = "lstop"] /\ arg' = arg
    BY <1>2 DEF Unsubscribe, ReturnReader, Return, IsStopped
  <2>2. p \in barrier.readers /\ listeners' = listeners \ {arg[p]}
    BY <1>2 DEF Unsubscribe, ReturnReader, Return, IsStopped
  <2>3. barrier' = barrier
    BY <1>2 DEF Unsubscribe, ReturnReader, Return, IsStopped
  <2>4. TypeOK'
    BY <1>2, <2>1, <2>2, <2>3 DEF Unsubscribe, ReturnReader, Return, lVars, hVars, IInv,
       TypeOK, CallerPCs, ReaderCalls
  <2>5. ArgInv'
    BY <2>1 DEF Unsubscribe, ReturnReader, Return, IInv, ArgInv
  <2>6. BarrierInv'
    BY <1>2, <2>1, <2>3 DEF Unsubscribe, ReturnReader, Return, IInv, TypeOK, BarrierInv,
       StatusAreaPCs
  <2>7. ChannelInv'
    BY <2>3 DEF Unsubscribe, ReturnReader, Return, hVars, IInv, ChannelInv
  <2>8. MadeInv'
    BY <2>1, <2>2 DEF Unsubscribe, ReturnReader, Return, hVars, IInv, MadeInv
  <2>9. ListenerInv'
    BY DEF Unsubscribe, ReturnReader, Return, lVars, hVars, IInv, ListenerInv
  <2>10. StopInv'
    BY <2>1, <2>2, <2>3 DEF Unsubscribe, ReturnReader, Return, IInv, StopInv
  <2>11. \A q \in Callers : pc[q] \in {"lstop", "lstopArea"} =>
          pc'[q] \in {"lstop", "lstopArea"} /\ arg'[q] = arg[q]
    BY <2>1 DEF IInv, TypeOK
  <2>12. OpenInv'
    BY <2>1, <2>2, <2>11 DEF Unsubscribe, ReturnReader, Return, lVars, hVars, IInv, TypeOK,
       OpenInv
  <2> QED
    BY <2>4, <2>5, <2>6, <2>7, <2>8, <2>9, <2>10, <2>12 DEF IInv
<1> QED
  BY <1>1, <1>2

\* Unsubscribe announces itself at the barrier of the listener.
LEMMA ListenerEnterStatusAreaPreserves ==
  ASSUME IInv, ~panicked, NEW p \in Callers, ListenerEnterStatusArea(p)
  PROVE  IInv'
<1>1. pc' = [pc EXCEPT ![p] = "lstopArea"] /\ arg' = arg
  BY DEF ListenerEnterStatusArea
<1>2. /\ arg[p] \in Listeners
      /\ p \in Goroutines
      /\ lbarrier[arg[p]] \in Barriers(Goroutines)
      /\ lbarrier' = [lbarrier EXCEPT ![arg[p]] = EnteringStatusArea(lbarrier[arg[p]], p)]
  BY DEF ListenerEnterStatusArea, Goroutines, IsStopped, InStatusArea, IInv, TypeOK, ArgInv
<1>3. /\ EnteringStatusArea(lbarrier[arg[p]], p) \in Barriers(Goroutines)
      /\ EnteringStatusArea(lbarrier[arg[p]], p).started = lbarrier[arg[p]].started
      /\ EnteringStatusArea(lbarrier[arg[p]], p).readers = lbarrier[arg[p]].readers
  BY <1>2, EnteringStatusAreaFacts
<1>4. lbarrier' \in [Listeners -> Barriers(Goroutines)]
  BY <1>2, <1>3 DEF IInv, TypeOK
<1>5. TypeOK'
  BY <1>4 DEF ListenerEnterStatusArea, bVars, wVars, hVars, IInv, TypeOK, CallerPCs, ReaderCalls
<1>6. ArgInv'
  BY <1>1, <1>3 DEF ListenerEnterStatusArea, IInv, ArgInv
<1>7. BarrierInv'
  BY <1>1, <1>3 DEF ListenerEnterStatusArea, bVars, IInv, TypeOK, BarrierInv, StatusAreaPCs
<1>8. ChannelInv'
  BY <1>3 DEF ListenerEnterStatusArea, bVars, hVars, IInv, ChannelInv
<1>9. MadeInv'
  BY <1>1, <1>3 DEF ListenerEnterStatusArea, bVars, wVars, hVars, IInv, MadeInv
<1>10. ListenerInv'
  BY <1>2, <1>3, <1>4 DEF ListenerEnterStatusArea, wVars, hVars, IInv, ListenerInv
<1>11. StopInv'
  BY <1>1, <1>3 DEF ListenerEnterStatusArea, bVars, wVars, IInv, StopInv
<1>12. \A q \in Callers : pc[q] \in {"lstop", "lstopArea"} =>
        pc'[q] \in {"lstop", "lstopArea"} /\ arg'[q] = arg[q]
  BY DEF ListenerEnterStatusArea
<1>13. OpenInv'
  BY <1>1, <1>3, <1>12 DEF ListenerEnterStatusArea, bVars, hVars, IInv, OpenInv
<1> QED
  BY <1>5, <1>6, <1>7, <1>8, <1>9, <1>10, <1>11, <1>13 DEF IInv

\* The worker is out of the listener when Unsubscribe closes its channel.
LEMMA ListenerStopPreserves ==
  ASSUME IInv, ~panicked, NEW p \in Callers, ListenerStop(p)
  PROVE  IInv'
<1>1. CASE ~lbarrier[arg[p]].started
  <2>1. pc' = [pc EXCEPT ![p] = "idle"] /\ arg' = [arg EXCEPT ![p] = None]
    BY DEF ListenerStop, ReturnReader, Return
  <2>2. barrier' = Out(barrier, p) /\ p \in Goroutines
    BY DEF ListenerStop, ReturnReader, Return, Goroutines
  <2>3. /\ barrier' \in Barriers(Goroutines)
        /\ barrier'.started = barrier.started
        /\ barrier'.writer = barrier.writer
        /\ barrier'.readers = barrier.readers \ {p}
    BY BarrierTypes, <2>2, OutFacts
  <2>4. arg[p] \in Listeners
    BY DEF ListenerStop, IInv, ArgInv
  <2>5. lbarrier[arg[p]] \in Barriers(Goroutines)
    BY BarrierTypes, <2>4
  <2>6. lbarrier[arg[p]].readers = {}
    BY DEF ListenerStop, InStatusArea
  <2>7. lbarrier' = [lbarrier EXCEPT ![arg[p]] = OutOfStatusArea(lbarrier[arg[p]])]
    BY <1>1 DEF ListenerStop, ReturnReader, Return, IsStopped
  <2>8. lclosed' = lclosed
    BY <1>1 DEF ListenerStop, ReturnReader, Return, IsStopped
  <2>9. panicked' = panicked
    BY <1>1 DEF ListenerStop, ReturnReader, Return, IsStopped
  <2>10. /\ OutOfStatusArea(lbarrier[arg[p]]) \in Barriers(Goroutines)
         /\ OutOfStatusArea(lbarrier[arg[p]]).started = lbarrier[arg[p]].started
    BY BarrierTypes, <2>5, <2>7, OutOfStatusAreaFacts
  <2>11. lbarrier' \in [Listeners -> Barriers(Goroutines)]
    BY <1>1, <2>1, <2>2, <2>3, <2>4, <2>5, <2>6, <2>7, <2>8, <2>9, <2>10, Disjoint DEF
       ListenerStop, ReturnReader, Return, bVars, lVars, wVars, cVars, hVars, IInv, TypeOK,
       ArgInv
  <2>12. TypeOK'
    BY <1>1, <2>1, <2>2, <2>3, <2>4, <2>5, <2>6, <2>7, <2>8, <2>9, <2>10, <2>11 DEF
       ListenerStop, ReturnReader, Return, wVars, IInv, TypeOK, CallerPCs, ReaderCalls
  <2>13. ArgInv'
    BY <2>1, <2>3, <2>6 DEF IInv, TypeOK, ArgInv
  <2>14. BarrierInv'
    BY <1>1, <2>1, <2>2, <2>3, <2>6, Disjoint DEF ListenerStop, ReturnReader, Return, IInv,
       TypeOK, BarrierInv, StatusAreaPCs
  <2>15. ChannelInv'
    BY <2>2, <2>3, <2>6, <2>9 DEF ListenerStop, ReturnReader, Return, IInv, ChannelInv
  <2>16. MadeInv'
    BY <2>1, <2>3, <2>6 DEF ListenerStop, ReturnReader, Return, wVars, IInv, TypeOK, MadeInv
  <2>17. ListenerInv'
    BY <1>1, <2>1, <2>2, <2>3, <2>4, <2>5, <2>6, <2>7, <2>8, <2>9, <2>10, <2>11 DEF
       ListenerStop, ReturnReader, Return, wVars, IInv, TypeOK, ListenerInv, MadeInv, ArgInv,
       StopInv, IsStopped, InStatusArea
  <2>18. StopInv'
    BY <2>1, <2>2, <2>3, <2>6 DEF ListenerStop, ReturnReader, Return, wVars, IInv, StopInv
  <2>19. \A q \in Callers : q # p /\ pc[q] \in {"lstop", "lstopArea"} =>
          pc'[q] \in {"lstop", "lstopArea"} /\ arg'[q] = arg[q]
    BY DEF ListenerStop, ReturnReader, Return
  <2>20. OpenInv'
    BY <1>1, <2>1, <2>3, <2>6, <2>8, <2>19 DEF ListenerStop, ReturnReader, Return, IInv,
       TypeOK, OpenInv, ListenerInv, IsStopped, InStatusArea
  <2> QED
    BY <2>12, <2>13, <2>14, <2>15, <2>16, <2>17, <2>18, <2>20 DEF IInv
<1>2. CASE lbarrier[arg[p]].started
  <2>1. pc' = [pc EXCEPT ![p] = "idle"] /\ arg' = [arg EXCEPT ![p] = None]
    BY DEF ListenerStop, ReturnReader, Return
  <2>2. barrier' = Out(barrier, p) /\ p \in Goroutines
    BY DEF ListenerStop, ReturnReader, Return, Goroutines
  <2>3. /\ barrier' \in Barriers(Goroutines)
        /\ barrier'.started = barrier.started
        /\ barrier'.writer = barrier.writer
        /\ barrier'.readers = barrier.readers \ {p}
    BY BarrierTypes, <2>2, OutFacts
  <2>4. /\ arg[p] \in Listeners
        /\ lbarrier[arg[p]] \in Barriers(Goroutines)
        /\ lbarrier' = [lbarrier EXCEPT ![arg[p]] = OutOfStatusArea(MarkStopped(lbarrier[arg[p]]))]
        /\ lbarrier[arg[p]].readers = {}
    BY <1>2 DEF ListenerStop, ReturnReader, Return, IsStopped, InStatusArea, IInv, TypeOK, ArgInv
  <2>5. /\ lclosed' = [lclosed EXCEPT ![arg[p]] = TRUE]
        /\ panicked' = lclosed[arg[p]]
        /\ made' = made
    BY <1>2 DEF ListenerStop, ReturnReader, Return, IsStopped
  <2>6. /\ MarkStopped(lbarrier[arg[p]]) \in Barriers(Goroutines)
        /\ MarkStopped(lbarrier[arg[p]]).started = FALSE
    BY <2>4, MarkFacts
  <2>7. /\ OutOfStatusArea(MarkStopped(lbarrier[arg[p]])) \in Barriers(Goroutines)
        /\ OutOfStatusArea(MarkStopped(lbarrier[arg[p]])).started = FALSE
    BY <2>6, OutOfStatusAreaFacts
  <2>8. lbarrier' \in [Listeners -> Barriers(Goroutines)]
    BY <1>2, <2>1, <2>2, <2>3, <2>4, <2>5, <2>6, <2>7, Disjoint DEF ListenerStop,
       ReturnReader, Return, bVars, lVars, wVars, cVars, hVars, IInv, TypeOK, ArgInv
  <2>9. TypeOK'
    BY <1>2, <2>1, <2>2, <2>3, <2>4, <2>5, <2>6, <2>7, <2>8 DEF ListenerStop, ReturnReader,
       Return, wVars, IInv, TypeOK, CallerPCs, ReaderCalls
  <2>10. ArgInv'
    BY <2>1, <2>3, <2>4 DEF IInv, TypeOK, ArgInv
  <2>11. BarrierInv'
    BY <1>2, <2>1, <2>2, <2>3, <2>4, Disjoint DEF ListenerStop, ReturnReader, Return, IInv,
       TypeOK, BarrierInv, StatusAreaPCs
  <2>12. ChannelInv'
    BY <1>2, <2>2, <2>3, <2>4, <2>5 DEF ListenerStop, ReturnReader, Return, IInv, TypeOK,
       ChannelInv, ListenerInv, IsStopped, InStatusArea
  <2>13. MadeInv'
    BY <2>1, <2>3, <2>4, <2>5 DEF ListenerStop, ReturnReader, Return, wVars, IInv, TypeOK, MadeInv
  <2>14. ListenerInv'
    BY <1>2, <2>1, <2>2, <2>3, <2>4, <2>5, <2>6, <2>7, <2>8 DEF ListenerStop, ReturnReader,
       Return, wVars, IInv, TypeOK, ListenerInv, MadeInv, ArgInv, StopInv, IsStopped,
       InStatusArea
  <2>15. StopInv'
    BY <2>1, <2>2, <2>3, <2>4 DEF ListenerStop, ReturnReader, Return, wVars, IInv, StopInv
  <2>16. \A q \in Callers : q # p /\ pc[q] \in {"lstop", "lstopArea"} =>
          pc'[q] \in {"lstop", "lstopArea"} /\ arg'[q] = arg[q]
    BY DEF ListenerStop, ReturnReader, Return
  <2>17. OpenInv'
    BY <2>1, <2>3, <2>4, <2>5, <2>16 DEF ListenerStop, ReturnReader, Return, IInv, TypeOK, OpenInv
  <2> QED
    BY <2>9, <2>10, <2>11, <2>12, <2>13, <2>14, <2>15, <2>17 DEF IInv
<1> QED
  BY <1>1, <1>2

\* Write is refused, or its goroutine becomes a reader.
LEMMA WritePreserves ==
  ASSUME IInv, ~panicked, NEW p \in Callers, Write(p)
  PROVE  IInv'
<1>1. CASE ~barrier.started
  <2>1. pc' = [pc EXCEPT ![p] = "idle"] /\ arg' = [arg EXCEPT ![p] = None]
    BY DEF Write, Return
  <2>2. barrier' = Out(barrier, p) /\ p \in Goroutines
    BY <1>1 DEF Write, Return, Goroutines, IsStopped
  <2>3. /\ barrier' \in Barriers(Goroutines)
        /\ barrier'.started = barrier.started
        /\ barrier'.writer = barrier.writer
        /\ barrier'.readers = barrier.readers \ {p}
    BY BarrierTypes, <2>2, OutFacts
  <2>4. TypeOK'
    BY <2>3 DEF Write, Return, lVars, wVars, hVars, IInv, TypeOK, CallerPCs, ReaderCalls
  <2>5. ArgInv'
    BY <2>1, <2>3 DEF IInv, TypeOK, ArgInv
  <2>6. BarrierInv'
    BY <1>1, <2>1, <2>2, <2>3 DEF Write, Return, IInv, TypeOK, BarrierInv, ArgInv,
       StatusAreaPCs, IsStopped, InStatusArea
  <2>7. ChannelInv'
    BY <2>2, <2>3 DEF Write, Return, hVars, IInv, ChannelInv
  <2>8. MadeInv'
    BY <2>1, <2>3 DEF Write, Return, wVars, hVars, IInv, MadeInv
  <2>9. ListenerInv'
    BY <2>3 DEF Write, Return, lVars, wVars, hVars, IInv, ListenerInv
  <2>10. StopInv'
    BY <2>1, <2>2, <2>3 DEF Write, Return, wVars, IInv, StopInv
  <2>11. \A q \in Callers : pc[q] \in {"lstop", "lstopArea"} =>
          pc'[q] \in {"lstop", "lstopArea"} /\ arg'[q] = arg[q]
    BY DEF Write, Return
  <2>12. OpenInv'
    BY <2>1, <2>3, <2>11 DEF Write, Return, lVars, hVars, IInv, OpenInv
  <2> QED
    BY <2>4, <2>5, <2>6, <2>7, <2>8, <2>9, <2>10, <2>12 DEF IInv
<1>2. CASE barrier.started
  <2>1. pc' = [pc EXCEPT ![p] = "idle"] /\ arg' = [arg EXCEPT ![p] = None]
    BY DEF Write, Return
  <2>2. /\ barrier' = HandOver(barrier, p, arg[p])
        /\ p \in Goroutines
        /\ arg[p] \in Goroutines
        /\ arg[p] \in Messages
    BY <1>2 DEF Write, Return, Goroutines, IsStopped, InStatusArea, IInv, TypeOK, ArgInv
  <2>3. /\ barrier' \in Barriers(Goroutines)
        /\ barrier'.started = barrier.started
        /\ barrier'.writer = barrier.writer
        /\ barrier'.readers = (barrier.readers \ {p}) \cup {arg[p]}
    BY BarrierTypes, <2>2, HandOverFacts
  <2>4. TypeOK'
    BY <2>3 DEF Write, Return, lVars, wVars, hVars, IInv, TypeOK, CallerPCs, ReaderCalls
  <2>5. ArgInv'
    BY <2>1, <2>3 DEF IInv, TypeOK, ArgInv
  <2>6. BarrierInv'
    BY <1>2, <2>1, <2>2, <2>3, Disjoint DEF Write, Return, IInv, TypeOK, BarrierInv, StatusAreaPCs
  <2>7. ChannelInv'
    BY <2>2, <2>3 DEF Write, Return, hVars, IInv, ChannelInv
  <2>8. MadeInv'
    BY <2>1, <2>3 DEF Write, Return, wVars, hVars, IInv, MadeInv
  <2>9. ListenerInv'
    BY <2>3 DEF Write, Return, lVars, wVars, hVars, IInv, ListenerInv
  <2>10. StopInv'
    BY <2>1, <2>2, <2>3 DEF Write, Return, wVars, IInv, StopInv
  <2>11. \A q \in Callers : pc[q] \in {"lstop", "lstopArea"} =>
          pc'[q] \in {"lstop", "lstopArea"} /\ arg'[q] = arg[q]
    BY DEF Write, Return
  <2>12. OpenInv'
    BY <2>1, <2>3, <2>11 DEF Write, Return, lVars, hVars, IInv, OpenInv
  <2> QED
    BY <2>4, <2>5, <2>6, <2>7, <2>8, <2>9, <2>10, <2>12 DEF IInv
<1> QED
  BY <1>1, <1>2

\* WriteSync is refused, or waits as a reader.
LEMMA WriteSyncPreserves ==
  ASSUME IInv, ~panicked, NEW p \in Callers, WriteSync(p)
  PROVE  IInv'
<1>1. CASE ~barrier.started
  <2>1. pc' = [pc EXCEPT ![p] = "idle"] /\ arg' = [arg EXCEPT ![p] = None]
    BY <1>1 DEF WriteSync, Return, IsStopped
  <2>2. barrier' = Out(barrier, p) /\ p \in Goroutines
    BY <1>1 DEF WriteSync, Return, Goroutines, IsStopped
  <2>3. /\ barrier' \in Barriers(Goroutines)
        /\ barrier'.started = barrier.started
        /\ barrier'.writer = barrier.writer
        /\ barrier'.readers = barrier.readers \ {p}
    BY BarrierTypes, <2>2, OutFacts
  <2>4. mstate' = [mstate EXCEPT ![arg[p]] = "refused"]
    BY <1>1 DEF WriteSync, Return, IsStopped
  <2>5. TypeOK'
    BY <2>3 DEF WriteSync, Return, lVars, wVars, hVars, IInv, TypeOK, CallerPCs, ReaderCalls
  <2>6. ArgInv'
    BY <2>1, <2>3 DEF IInv, TypeOK, ArgInv
  <2>7. BarrierInv'
    BY <1>1, <2>1, <2>2, <2>3, <2>4 DEF WriteSync, Return, IInv, TypeOK, BarrierInv, StatusAreaPCs
  <2>8. ChannelInv'
    BY <2>2, <2>3 DEF WriteSync, Return, hVars, IInv, ChannelInv
  <2>9. MadeInv'
    BY <2>1, <2>3 DEF WriteSync, Return, wVars, hVars, IInv, MadeInv
  <2>10. ListenerInv'
    BY <2>3 DEF WriteSync, Return, lVars, wVars, hVars, IInv, ListenerInv
  <2>11. StopInv'
    BY <2>1, <2>2, <2>3 DEF WriteSync, Return, wVars, IInv, StopInv
  <2>12. \A q \in Callers : pc[q] \in {"lstop", "lstopArea"} =>
          pc'[q] \in {"lstop", "lstopArea"} /\ arg'[q] = arg[q]
    BY <2>1 DEF WriteSync, Return, IInv, TypeOK
  <2>13. OpenInv'
    BY <2>1, <2>3, <2>12 DEF WriteSync, Return, lVars, hVars, IInv, OpenInv
  <2> QED
    BY <2>5, <2>6, <2>7, <2>8, <2>9, <2>10, <2>11, <2>13 DEF IInv
<1>2. CASE barrier.started
  <2>1. pc' = [pc EXCEPT ![p] = "sending"] /\ arg' = arg
    BY <1>2 DEF WriteSync, Return, IsStopped
  <2>2. /\ barrier' = HandOver(barrier, p, arg[p])
        /\ p \in Goroutines
        /\ arg[p] \in Goroutines
        /\ arg[p] \in Messages
    BY <1>2 DEF WriteSync, Return, Goroutines, IsStopped, InStatusArea, IInv, TypeOK, ArgInv
  <2>3. /\ barrier' \in Barriers(Goroutines)
        /\ barrier'.started = barrier.started
        /\ barrier'.writer = barrier.writer
        /\ barrier'.readers = (barrier.readers \ {p}) \cup {arg[p]}
    BY BarrierTypes, <2>2, HandOverFacts
  <2>4. mstate' = [mstate EXCEPT ![arg[p]] = "sending"]
    BY <1>2 DEF WriteSync, Return, IsStopped
  <2>5. TypeOK'
    BY <2>3 DEF WriteSync, Return, lVars, wVars, hVars, IInv, TypeOK, CallerPCs, ReaderCalls
  <2>6. ArgInv'
    BY <2>1, <2>3 DEF WriteSync, Return, IInv, ArgInv
  <2>7. BarrierInv'
    BY <1>2, <2>1, <2>2, <2>3, <2>4, Disjoint DEF WriteSync, Return, IInv, TypeOK, BarrierInv,
       StatusAreaPCs
  <2>8. ChannelInv'
    BY <2>2, <2>3 DEF WriteSync, Return, hVars, IInv, ChannelInv
  <2>9. MadeInv'
    BY <2>1, <2>3 DEF WriteSync, Return, wVars, hVars, IInv, MadeInv
  <2>10. ListenerInv'
    BY <2>3 DEF WriteSync, Return, lVars, wVars, hVars, IInv, ListenerInv
  <2>11. StopInv'
    BY <2>1, <2>2, <2>3 DEF WriteSync, Return, wVars, IInv, StopInv
  <2>12. \A q \in Callers : pc[q] \in {"lstop", "lstopArea"} =>
          pc'[q] \in {"lstop", "lstopArea"} /\ arg'[q] = arg[q]
    BY <2>1 DEF WriteSync, Return, IInv, TypeOK
  <2>13. OpenInv'
    BY <2>1, <2>3, <2>12 DEF WriteSync, Return, lVars, hVars, IInv, OpenInv
  <2> QED
    BY <2>5, <2>6, <2>7, <2>8, <2>9, <2>10, <2>11, <2>13 DEF IInv
<1> QED
  BY <1>1, <1>2

\* WriteSync returns after its send or its timer.
LEMMA WriteSyncReturnPreserves ==
  ASSUME IInv, ~panicked, NEW p \in Callers, WriteSyncReturn(p)
  PROVE  IInv'
<1>1. pc' = [pc EXCEPT ![p] = "idle"] /\ arg' = [arg EXCEPT ![p] = None]
  BY DEF WriteSyncReturn, Return
<1>2. ChannelInv' /\ ListenerInv'
  BY DEF WriteSyncReturn, Return, bVars, lVars, wVars, hVars, IInv, ChannelInv, ListenerInv
<1>3. TypeOK'
  BY DEF WriteSyncReturn, Return, bVars, lVars, wVars, hVars, IInv, TypeOK, CallerPCs, ReaderCalls
<1>4. ArgInv'
  BY <1>1 DEF IInv, TypeOK, ArgInv
<1>5. BarrierInv'
  BY <1>1 DEF WriteSyncReturn, Return, bVars, IInv, TypeOK, BarrierInv, StatusAreaPCs
<1>6. MadeInv'
  BY <1>1 DEF WriteSyncReturn, Return, bVars, wVars, hVars, IInv, MadeInv
<1>7. StopInv'
  BY <1>1 DEF WriteSyncReturn, Return, bVars, wVars, IInv, StopInv
<1>8. \A q \in Callers : pc[q] \in {"lstop", "lstopArea"} =>
        pc'[q] \in {"lstop", "lstopArea"} /\ arg'[q] = arg[q]
  BY DEF WriteSyncReturn, Return
<1>9. OpenInv'
  BY <1>1, <1>8 DEF WriteSyncReturn, Return, bVars, lVars, hVars, IInv, OpenInv
<1> QED
  BY <1>2, <1>3, <1>4, <1>5, <1>6, <1>7, <1>9 DEF IInv

\* Start is alone when it starts the worker.
LEMMA StartPreserves ==
  ASSUME IInv, ~panicked, NEW p \in Callers, Start(p)
  PROVE  IInv'
<1>1. CASE barrier.started
  <2>1. pc' = [pc EXCEPT ![p] = "idle"] /\ arg' = [arg EXCEPT ![p] = None]
    BY DEF Start, ReturnWriter, Return
  <2>2. wpc' = wpc /\ starts' = starts
    BY <1>1 DEF Start, ReturnWriter, Return, IsStopped
  <2>3. barrier.readers = {} /\ barrier.writer = {p}
    BY DEF Start, ReturnWriter, Return, InStatusArea
  <2>4. barrier' = OutOfStatusArea(barrier)
    BY <1>1 DEF Start, ReturnWriter, Return, IsStopped
  <2>5. /\ barrier' \in Barriers(Goroutines)
        /\ barrier'.started = barrier.started
        /\ barrier'.writer = {}
    BY BarrierTypes, <2>4, OutOfStatusAreaFacts, MarkFacts
  <2>6. TypeOK'
    BY <1>1, <2>1, <2>2, <2>3, <2>4, <2>5 DEF Start, ReturnWriter, Return, lVars, IInv,
       TypeOK, CallerPCs, ReaderCalls
  <2>7. ArgInv'
    BY <2>1, <2>3, <2>5 DEF IInv, TypeOK, ArgInv
  <2>8. BarrierInv'
    BY <2>1, <2>3, <2>4, <2>5 DEF Start, ReturnWriter, Return, IInv, TypeOK, BarrierInv,
       StatusAreaPCs
  <2>9. ChannelInv'
    BY <2>2, <2>3, <2>4, <2>5 DEF Start, ReturnWriter, Return, IInv, ChannelInv
  <2>10. MadeInv'
    BY <2>1, <2>2, <2>3, <2>5 DEF Start, ReturnWriter, Return, IInv, MadeInv
  <2>11. ListenerInv'
    BY <2>2, <2>3, <2>5 DEF Start, ReturnWriter, Return, lVars, IInv, ListenerInv
  <2>12. StopInv'
    BY <2>1, <2>2, <2>3, <2>4, <2>5 DEF Start, ReturnWriter, Return, IInv, StopInv
  <2>13. \A q \in Callers : pc[q] \in {"lstop", "lstopArea"} =>
          pc'[q] \in {"lstop", "lstopArea"} /\ arg'[q] = arg[q]
    BY <2>1 DEF Start, ReturnWriter, Return, IInv, TypeOK
  <2>14. OpenInv'
    BY <2>1, <2>3, <2>5, <2>13 DEF Start, ReturnWriter, Return, lVars, IInv, OpenInv
  <2> QED
    BY <2>6, <2>7, <2>8, <2>9, <2>10, <2>11, <2>12, <2>14 DEF IInv
<1>2. CASE ~barrier.started
  <2>1. pc' = [pc EXCEPT ![p] = "idle"] /\ arg' = [arg EXCEPT ![p] = None]
    BY DEF Start, ReturnWriter, Return
  <2>2. wpc' = "select" /\ starts' = starts + 1
    BY <1>2 DEF Start, ReturnWriter, Return, IsStopped
  <2>3. barrier.readers = {} /\ barrier.writer = {p}
    BY DEF Start, ReturnWriter, Return, InStatusArea
  <2>4. barrier' = OutOfStatusArea(MarkStarted(barrier))
    BY <1>2 DEF Start, ReturnWriter, Return, IsStopped
  <2>5. barrier' \in Barriers(Goroutines) /\ barrier'.started = TRUE /\ barrier'.writer = {}
    BY BarrierTypes, <2>4, OutOfStatusAreaFacts, MarkFacts
  <2>6. starts' \in Nat
    BY <2>2, <2>3, <2>5 DEF IInv, TypeOK
  <2>7. TypeOK'
    BY <2>5, <2>6 DEF Start, ReturnWriter, Return, lVars, IInv, TypeOK, CallerPCs, ReaderCalls
  <2>8. ArgInv'
    BY <2>1, <2>3, <2>5 DEF IInv, TypeOK, ArgInv
  <2>9. BarrierInv'
    BY <2>1, <2>3, <2>4, <2>5 DEF Start, ReturnWriter, Return, IInv, TypeOK, BarrierInv,
       StatusAreaPCs
  <2>10. ChannelInv'
    BY <2>2, <2>3, <2>4, <2>5, <2>6 DEF Start, ReturnWriter, Return, IInv, TypeOK, ChannelInv
  <2>11. MadeInv'
    BY <2>1, <2>2, <2>3, <2>5 DEF Start, ReturnWriter, Return, IInv, MadeInv
  <2>12. ListenerInv'
    BY <2>2, <2>3, <2>5 DEF Start, ReturnWriter, Return, lVars, IInv, ListenerInv
  <2>13. StopInv'
    BY <1>2, <2>1, <2>2, <2>3, <2>4, <2>5 DEF Start, ReturnWriter, Return, IInv, TypeOK,
       StopInv, BarrierInv, StatusAreaPCs, IsStopped, InStatusArea
  <2>14. \A q \in Callers : pc[q] \in {"lstop", "lstopArea"} =>
          pc'[q] \in {"lstop", "lstopArea"} /\ arg'[q] = arg[q]
    BY <2>1 DEF Start, ReturnWriter, Return, IInv, TypeOK
  <2>15. OpenInv'
    BY <2>1, <2>3, <2>5, <2>14 DEF Start, ReturnWriter, Return, lVars, IInv, OpenInv
  <2> QED
    BY <2>7, <2>8, <2>9, <2>10, <2>11, <2>12, <2>13, <2>15 DEF IInv
<1> QED
  BY <1>1, <1>2

\* Stop is alone, with no reader left, when it cancels the context.
LEMMA StopCancelPreserves ==
  ASSUME IInv, ~panicked, NEW p \in Callers, StopCancel(p)
  PROVE  IInv'
<1>1. CASE ~barrier.started
  <2>1. pc' = [pc EXCEPT ![p] = "idle"] /\ arg' = [arg EXCEPT ![p] = None]
    BY <1>1 DEF StopCancel, ReturnWriter, Return, IsStopped
  <2>2. barrier.readers = {} /\ barrier.writer = {p}
    BY DEF StopCancel, ReturnWriter, Return, InStatusArea
  <2>3. barrier' = OutOfStatusArea(barrier)
    BY <1>1 DEF StopCancel, ReturnWriter, Return, IsStopped
  <2>4. /\ barrier' \in Barriers(Goroutines)
        /\ barrier'.started = barrier.started
        /\ barrier'.writer = {}
    BY BarrierTypes, <2>3, OutOfStatusAreaFacts, MarkFacts
  <2>5. TypeOK'
    BY <2>4 DEF StopCancel, ReturnWriter, Return, lVars, wVars, hVars, IInv, TypeOK,
       CallerPCs, ReaderCalls
  <2>6. ArgInv'
    BY <2>1, <2>2, <2>4 DEF IInv, TypeOK, ArgInv
  <2>7. BarrierInv'
    BY <2>1, <2>2, <2>3, <2>4 DEF StopCancel, ReturnWriter, Return, IInv, TypeOK, BarrierInv,
       StatusAreaPCs
  <2>8. ChannelInv'
    BY <2>2, <2>3, <2>4 DEF StopCancel, ReturnWriter, Return, hVars, IInv, ChannelInv
  <2>9. MadeInv'
    BY <2>1, <2>2, <2>4 DEF StopCancel, ReturnWriter, Return, wVars, hVars, IInv, MadeInv
  <2>10. ListenerInv'
    BY <2>2, <2>4 DEF StopCancel, ReturnWriter, Return, lVars, wVars, hVars, IInv, ListenerInv
  <2>11. StopInv'
    BY <2>1, <2>2, <2>3, <2>4 DEF StopCancel, ReturnWriter, Return, wVars, IInv, StopInv
  <2>12. \A q \in Callers : pc[q] \in {"lstop", "lstopArea"} =>
          pc'[q] \in {"lstop", "lstopArea"} /\ arg'[q] = arg[q]
    BY <2>1 DEF StopCancel, ReturnWriter, Return, IInv, TypeOK
  <2>13. OpenInv'
    BY <2>1, <2>2, <2>4, <2>12 DEF StopCancel, ReturnWriter, Return, lVars, hVars, IInv, OpenInv
  <2> QED
    BY <2>5, <2>6, <2>7, <2>8, <2>9, <2>10, <2>11, <2>13 DEF IInv
<1>2. CASE barrier.started
  <2>1. pc' = [pc EXCEPT ![p] = "stopWait"] /\ arg' = arg
    BY <1>2 DEF StopCancel, ReturnWriter, Return, IsStopped
  <2>2. barrier.readers = {} /\ barrier.writer = {p}
    BY DEF StopCancel, ReturnWriter, Return, InStatusArea
  <2>3. barrier' = barrier
    BY <1>2 DEF StopCancel, ReturnWriter, Return, IsStopped
  <2>4. TypeOK'
    BY <1>2, <2>1, <2>2, <2>3 DEF StopCancel, ReturnWriter, Return, lVars, wVars, hVars, IInv,
       TypeOK, CallerPCs, ReaderCalls
  <2>5. ArgInv'
    BY <2>1, <2>2 DEF IInv, TypeOK, ArgInv
  <2>6. BarrierInv'
    BY <1>2, <2>1, <2>2, <2>3 DEF StopCancel, ReturnWriter, Return, IInv, TypeOK, BarrierInv,
       StatusAreaPCs
  <2>7. ChannelInv'
    BY <2>2, <2>3 DEF StopCancel, ReturnWriter, Return, hVars, IInv, ChannelInv
  <2>8. MadeInv'
    BY <2>1, <2>2 DEF StopCancel, ReturnWriter, Return, wVars, hVars, IInv, MadeInv
  <2>9. ListenerInv'
    BY <2>2 DEF StopCancel, ReturnWriter, Return, lVars, wVars, hVars, IInv, ListenerInv
  <2>10. StopInv'
    BY <2>1, <2>2, <2>3 DEF StopCancel, ReturnWriter, Return, wVars, IInv, StopInv
  <2>11. \A q \in Callers : pc[q] \in {"lstop", "lstopArea"} =>
          pc'[q] \in {"lstop", "lstopArea"} /\ arg'[q] = arg[q]
    BY <2>1 DEF StopCancel, ReturnWriter, Return, IInv, TypeOK
  <2>12. OpenInv'
    BY <2>1, <2>2, <2>11 DEF StopCancel, ReturnWriter, Return, lVars, hVars, IInv, OpenInv
  <2> QED
    BY <2>4, <2>5, <2>6, <2>7, <2>8, <2>9, <2>10, <2>12 DEF IInv
<1> QED
  BY <1>1, <1>2

\* Stop goes on when the worker has ended.
LEMMA StopWaitPreserves ==
  ASSUME IInv, ~panicked, NEW p \in Callers, StopWait(p)
  PROVE  IInv'
<1>1. pc' = [pc EXCEPT ![p] = "stopRange"] /\ arg' = arg
  BY DEF StopWait
<1>2. ChannelInv' /\ ListenerInv'
  BY DEF StopWait, bVars, lVars, wVars, hVars, IInv, ChannelInv, ListenerInv
<1>3. TypeOK'
  BY DEF StopWait, bVars, lVars, wVars, hVars, IInv, TypeOK, CallerPCs, ReaderCalls
<1>4. ArgInv'
  BY <1>1 DEF IInv, TypeOK, ArgInv
<1>5. BarrierInv'
  BY <1>1 DEF StopWait, bVars, IInv, TypeOK, BarrierInv, StatusAreaPCs
<1>6. MadeInv'
  BY <1>1 DEF StopWait, bVars, wVars, hVars, IInv, MadeInv
<1>7. StopInv'
  BY <1>1 DEF StopWait, bVars, wVars, IInv, StopInv
<1>8. \A q \in Callers : pc[q] \in {"lstop", "lstopArea"} =>
        pc'[q] \in {"lstop", "lstopArea"} /\ arg'[q] = arg[q]
  BY DEF StopWait
<1>9. OpenInv'
  BY <1>1, <1>8 DEF StopWait, bVars, lVars, hVars, IInv, OpenInv
<1> QED
  BY <1>2, <1>3, <1>4, <1>5, <1>6, <1>7, <1>9 DEF IInv

\* Stop closes an open listener while no worker can be in it.
LEMMA StopListenerPreserves ==
  ASSUME IInv, ~panicked, NEW p \in Callers, NEW l \in Listeners, StopListener(p, l)
  PROVE  IInv'
<1>1. /\ lbarrier' = [lbarrier EXCEPT ![l] = MarkStopped(lbarrier[l])]
      /\ lbarrier[l] \in Barriers(Goroutines)
      /\ wpc = "off"
      /\ l \in made
  BY Disjoint DEF StopListener, bVars, lVars, wVars, cVars, hVars, InStatusArea, IsStopped,
     Goroutines, IInv, TypeOK, ArgInv, BarrierInv, StatusAreaPCs, MadeInv, ListenerInv, StopInv
<1>2. /\ lclosed' = [lclosed EXCEPT ![l] = lclosed[l] \/ lbarrier[l].started]
      /\ made' = made
      /\ listeners' = listeners \ {l}
  BY DEF StopListener, IsStopped
<1>3. lclosed'[l] /\ \A k \in Listeners : k # l => lclosed'[k] = lclosed[k]
  BY <1>1, <1>2, Disjoint DEF IInv, TypeOK, MadeInv, ListenerInv
<1>4. /\ MarkStopped(lbarrier[l]) \in Barriers(Goroutines)
      /\ MarkStopped(lbarrier[l]).started = FALSE
      /\ MarkStopped(lbarrier[l]).readers = lbarrier[l].readers
  BY <1>1, MarkFacts
<1>5. lbarrier' \in [Listeners -> Barriers(Goroutines)]
  BY <1>1, <1>4 DEF IInv, TypeOK
<1>6. lclosed' \in [Listeners -> BOOLEAN]
  BY <1>2, <1>3, <1>4 DEF IInv, TypeOK
<1>7. ArgInv' /\ BarrierInv'
  BY DEF StopListener, cVars, IInv, ArgInv, BarrierInv
<1>8. TypeOK'
  BY <1>5, <1>6 DEF StopListener, wVars, cVars, IInv, TypeOK
<1>9. ChannelInv'
  BY <1>4 DEF StopListener, IInv, TypeOK, ChannelInv, ListenerInv, IsStopped, InStatusArea
<1>10. MadeInv'
  BY <1>2, <1>4 DEF StopListener, wVars, cVars, IInv, MadeInv
<1>11. ListenerInv'
  BY <1>1, <1>2, <1>3, <1>4, <1>5, <1>6 DEF StopListener, wVars, IInv, ListenerInv
<1>12. StopInv'
  BY <1>2, <1>4 DEF StopListener, wVars, cVars, IInv, StopInv
<1>13. \A q \in Callers : pc[q] \in {"lstop", "lstopArea"} =>
        pc'[q] \in {"lstop", "lstopArea"} /\ arg'[q] = arg[q]
  BY DEF StopListener, cVars
<1>14. OpenInv'
  BY <1>2, <1>3, <1>4, <1>6, <1>13 DEF StopListener, cVars, IInv, OpenInv
<1> QED
  BY <1>7, <1>8, <1>9, <1>10, <1>11, <1>12, <1>14 DEF IInv

\* b.c is closed once if the broadcaster was started once, and no listener is left.
LEMMA StopEndPreserves ==
  ASSUME IInv, ~panicked, NEW p \in Callers, StopEnd(p)
  PROVE  IInv'
<1>1. pc' = [pc EXCEPT ![p] = "idle"] /\ arg' = [arg EXCEPT ![p] = None]
  BY DEF StopEnd, ReturnWriter, Return
<1>2. barrier.readers = {} /\ p \in barrier.writer
  BY DEF StopEnd, ReturnWriter, Return, IInv, BarrierInv, StatusAreaPCs
<1>3. barrier' = OutOfStatusArea(MarkStopped(barrier))
  BY DEF StopEnd, ReturnWriter, Return
<1>4. barrier' \in Barriers(Goroutines) /\ barrier'.started = FALSE /\ barrier'.writer = {}
  BY BarrierTypes, <1>3, OutOfStatusAreaFacts, MarkFacts
<1>5. TypeOK'
  BY <1>4 DEF StopEnd, ReturnWriter, Return, lVars, wVars, IInv, TypeOK, CallerPCs, ReaderCalls
<1>6. ArgInv'
  BY <1>1, <1>2, <1>4 DEF IInv, TypeOK, ArgInv
<1>7. BarrierInv'
  BY <1>1, <1>2, <1>3, <1>4 DEF StopEnd, ReturnWriter, Return, IInv, TypeOK, BarrierInv,
     StatusAreaPCs
<1>8. ChannelInv'
  BY <1>2, <1>3, <1>4 DEF StopEnd, ReturnWriter, Return, IInv, TypeOK, ChannelInv, BarrierInv,
     IsStopped, InStatusArea
<1>9. MadeInv'
  BY <1>1, <1>2, <1>4 DEF StopEnd, ReturnWriter, Return, wVars, IInv, MadeInv
<1>10. ListenerInv'
  BY <1>2, <1>4 DEF StopEnd, ReturnWriter, Return, lVars, wVars, IInv, ListenerInv
<1>11. StopInv'
  BY <1>1, <1>2, <1>3, <1>4 DEF StopEnd, ReturnWriter, Return, wVars, IInv, StopInv
<1>12. \A q \in Callers : pc[q] \in {"lstop", "lstopArea"} =>
        pc'[q] \in {"lstop", "lstopArea"} /\ arg'[q] = arg[q]
  BY DEF StopEnd, ReturnWriter, Return
<1>13. OpenInv'
  BY <1>1, <1>2, <1>4, <1>12 DEF StopEnd, ReturnWriter, Return, lVars, IInv, OpenInv
<1> QED
  BY <1>5, <1>6, <1>7, <1>8, <1>9, <1>10, <1>11, <1>13 DEF IInv

\* A pending write holds a read lock of a started broadcaster: b.c is open unless it was restarted.
LEMMA SendPreserves ==
  ASSUME IInv, ~panicked, NEW m \in Messages, Send(m)
  PROVE  IInv'
<1>1. barrier' = Out(barrier, m) /\ m \in Goroutines
  BY DEF Send, Goroutines
<1>2. /\ barrier' \in Barriers(Goroutines)
      /\ barrier'.started = barrier.started
      /\ barrier'.writer = barrier.writer
      /\ barrier'.readers = barrier.readers \ {m}
  BY BarrierTypes, <1>1, OutFacts
<1>3. log' \in Seq(Messages)
  BY <1>2 DEF Send, IInv, TypeOK
<1>4. ArgInv' /\ MadeInv' /\ ListenerInv' /\ OpenInv'
  BY DEF Send, lVars, wVars, IInv, ArgInv, MadeInv, ListenerInv, OpenInv
<1>5. TypeOK'
  BY <1>2, <1>3 DEF Send, lVars, wVars, IInv, TypeOK
<1>6. BarrierInv'
  BY <1>1, <1>2, Disjoint DEF Send, IInv, TypeOK, BarrierInv, StatusAreaPCs
<1>7. ChannelInv'
  BY <1>1, <1>2 DEF Send, IInv, TypeOK, ChannelInv, BarrierInv, IsStopped, InStatusArea
<1>8. StopInv'
  BY <1>1, <1>2 DEF Send, wVars, IInv, StopInv
<1> QED
  BY <1>4, <1>5, <1>6, <1>7, <1>8 DEF IInv

\* A pending write gives up.
LEMMA WriteTimeoutPreserves ==
  ASSUME IInv, ~panicked, NEW m \in Messages, WriteTimeout(m)
  PROVE  IInv'
<1>1. barrier' = Out(barrier, m) /\ m \in Goroutines
  BY DEF WriteTimeout, Goroutines
<1>2. /\ barrier' \in Barriers(Goroutines)
      /\ barrier'.started = barrier.started
      /\ barrier'.writer = barrier.writer
      /\ barrier'.readers = barrier.readers \ {m}
  BY BarrierTypes, <1>1, OutFacts
<1>3. ArgInv' /\ MadeInv' /\ ListenerInv' /\ OpenInv'
  BY DEF WriteTimeout, lVars, wVars, hVars, IInv, ArgInv, MadeInv, ListenerInv, OpenInv
<1>4. TypeOK'
  BY <1>2 DEF WriteTimeout, lVars, wVars, hVars, IInv, TypeOK
<1>5. BarrierInv'
  BY <1>1, <1>2, Disjoint DEF WriteTimeout, IInv, TypeOK, BarrierInv, StatusAreaPCs
<1>6. ChannelInv'
  BY <1>1, <1>2 DEF WriteTimeout, hVars, IInv, ChannelInv
<1>7. StopInv'
  BY <1>1, <1>2 DEF WriteTimeout, wVars, IInv, StopInv
<1> QED
  BY <1>3, <1>4, <1>5, <1>6, <1>7 DEF IInv

\* The worker ends in its select.
LEMMA WorkerDonePreserves ==
  ASSUME IInv, ~panicked, WorkerDone
  PROVE  IInv'
<1>1. ArgInv' /\ BarrierInv' /\ ChannelInv' /\ OpenInv'
  BY DEF WorkerDone, bVars, lVars, cVars, hVars, IInv, ArgInv, BarrierInv, ChannelInv, OpenInv
<1>2. TypeOK'
  BY DEF WorkerDone, bVars, lVars, cVars, hVars, IInv, TypeOK
<1>3. MadeInv'
  BY DEF WorkerDone, bVars, cVars, hVars, IInv, MadeInv
<1>4. ListenerInv'
  BY DEF WorkerDone, lVars, hVars, IInv, ListenerInv
<1>5. StopInv'
  BY DEF WorkerDone, bVars, cVars, IInv, StopInv
<1> QED
  BY <1>1, <1>2, <1>3, <1>4, <1>5 DEF IInv

\* The worker takes a message, and Range starts from the registered listeners.
LEMMA WorkerReceivePreserves ==
  ASSUME IInv, ~panicked, WorkerReceive
  PROVE  IInv'
<1>1. taken' \in Nat /\ cur' \in Nat
  BY DEF WorkerReceive, IInv, TypeOK
<1>2. ArgInv' /\ BarrierInv' /\ ChannelInv' /\ OpenInv'
  BY DEF WorkerReceive, lVars, cVars, hVars, IInv, ArgInv, BarrierInv, ChannelInv, OpenInv
<1>3. TypeOK'
  BY <1>1 DEF WorkerReceive, lVars, cVars, hVars, IInv, TypeOK
<1>4. MadeInv'
  BY DEF WorkerReceive, cVars, hVars, IInv, MadeInv
<1>5. ListenerInv'
  BY DEF WorkerReceive, lVars, hVars, IInv, ListenerInv
<1>6. StopInv'
  BY DEF WorkerReceive, cVars, IInv, StopInv
<1> QED
  BY <1>2, <1>3, <1>4, <1>5, <1>6 DEF IInv

\* The worker takes the zero value from the closed b.c.
LEMMA WorkerReceiveClosedPreserves ==
  ASSUME IInv, ~panicked, WorkerReceiveClosed
  PROVE  IInv'
<1>1. ArgInv' /\ BarrierInv' /\ ChannelInv' /\ OpenInv'
  BY DEF WorkerReceiveClosed, bVars, lVars, cVars, hVars, IInv, ArgInv, BarrierInv, ChannelInv,
     OpenInv
<1>2. TypeOK'
  BY DEF WorkerReceiveClosed, bVars, lVars, cVars, hVars, IInv, TypeOK
<1>3. MadeInv'
  BY DEF WorkerReceiveClosed, bVars, cVars, hVars, IInv, MadeInv
<1>4. ListenerInv'
  BY DEF WorkerReceiveClosed, lVars, hVars, IInv, ListenerInv
<1>5. StopInv'
  BY DEF WorkerReceiveClosed, bVars, cVars, IInv, StopInv
<1> QED
  BY <1>1, <1>2, <1>3, <1>4, <1>5 DEF IInv

\* The worker enters the barrier of a listener that was handed out.
LEMMA WorkerVisitPreserves ==
  ASSUME IInv, ~panicked, NEW l \in Listeners, WorkerVisit(l)
  PROVE  IInv'
<1>1. /\ lbarrier' = [lbarrier EXCEPT ![l] = Entering(lbarrier[l], Worker)]
      /\ lbarrier[l] \in Barriers(Goroutines)
      /\ Worker \in Goroutines
  BY DEF WorkerVisit, IInv, TypeOK, Goroutines
<1>2. /\ Entering(lbarrier[l], Worker) \in Barriers(Goroutines)
      /\ Entering(lbarrier[l], Worker).started = lbarrier[l].started
  BY <1>1, EnteringFacts
<1>3. lbarrier' \in [Listeners -> Barriers(Goroutines)]
  BY <1>1, <1>2, Disjoint DEF WorkerVisit, bVars, lVars, wVars, cVars, hVars, IInv, TypeOK, ArgInv
<1>4. ArgInv' /\ BarrierInv' /\ ChannelInv' /\ OpenInv'
  BY DEF WorkerVisit, bVars, cVars, hVars, IInv, ArgInv, BarrierInv, ChannelInv, OpenInv
<1>5. TypeOK'
  BY <1>3 DEF WorkerVisit, bVars, cVars, hVars, IInv, TypeOK
<1>6. MadeInv'
  BY DEF WorkerVisit, bVars, cVars, hVars, IInv, MadeInv
<1>7. ListenerInv'
  BY <1>1, <1>2, <1>3 DEF WorkerVisit, hVars, IInv, TypeOK, ListenerInv, MadeInv, ArgInv,
     StopInv, IsStopped, InStatusArea
<1>8. StopInv'
  BY DEF WorkerVisit, bVars, cVars, IInv, StopInv
<1> QED
  BY <1>4, <1>5, <1>6, <1>7, <1>8 DEF IInv

\* Range ends.
LEMMA WorkerRangeEndPreserves ==
  ASSUME IInv, ~panicked, WorkerRangeEnd
  PROVE  IInv'
<1>1. ArgInv' /\ BarrierInv' /\ ChannelInv' /\ OpenInv'
  BY DEF WorkerRangeEnd, bVars, lVars, cVars, hVars, IInv, ArgInv, BarrierInv, ChannelInv, OpenInv
<1>2. TypeOK'
  BY DEF WorkerRangeEnd, bVars, lVars, cVars, hVars, IInv, TypeOK
<1>3. MadeInv'
  BY DEF WorkerRangeEnd, bVars, cVars, hVars, IInv, MadeInv
<1>4. ListenerInv'
  BY DEF WorkerRangeEnd, lVars, hVars, IInv, ListenerInv
<1>5. StopInv'
  BY DEF WorkerRangeEnd, bVars, cVars, IInv, StopInv
<1> QED
  BY <1>1, <1>2, <1>3, <1>4, <1>5 DEF IInv

\* The worker skips a stopped listener, or stays its reader.
LEMMA WorkerCheckPreserves ==
  ASSUME IInv, ~panicked, WorkerCheck
  PROVE  IInv'
<1>1. CASE ~lbarrier[target].started
  <2>1. /\ target \in Listeners
        /\ lbarrier[target] \in Barriers(Goroutines)
        /\ Worker \in Goroutines
        /\ lbarrier' = [lbarrier EXCEPT ![target] = Out(lbarrier[target], Worker)]
    BY <1>1 DEF WorkerCheck, Goroutines, IsStopped, InStatusArea, IInv, TypeOK, MadeInv
  <2>2. /\ Out(lbarrier[target], Worker) \in Barriers(Goroutines)
        /\ Out(lbarrier[target], Worker).started = lbarrier[target].started
    BY <2>1, OutFacts
  <2>3. lbarrier' \in [Listeners -> Barriers(Goroutines)]
    BY <1>1, <2>1, <2>2, Disjoint DEF WorkerCheck, bVars, lVars, wVars, cVars, hVars, IInv,
       TypeOK, ArgInv
  <2>4. ArgInv' /\ BarrierInv' /\ ChannelInv' /\ OpenInv'
    BY DEF WorkerCheck, bVars, cVars, hVars, IInv, ArgInv, BarrierInv, ChannelInv, OpenInv
  <2>5. TypeOK'
    BY <2>3 DEF WorkerCheck, bVars, cVars, hVars, IInv, TypeOK
  <2>6. MadeInv'
    BY DEF WorkerCheck, bVars, cVars, hVars, IInv, MadeInv
  <2>7. ListenerInv'
    BY <1>1, <2>1, <2>2, <2>3 DEF WorkerCheck, hVars, IInv, TypeOK, ListenerInv, MadeInv,
       ArgInv, StopInv, IsStopped, InStatusArea
  <2>8. StopInv'
    BY DEF WorkerCheck, bVars, cVars, IInv, StopInv
  <2> QED
    BY <2>4, <2>5, <2>6, <2>7, <2>8 DEF IInv
<1>2. CASE lbarrier[target].started
  <2>1. lbarrier' = lbarrier /\ wpc' = "send"
    BY <1>2 DEF WorkerCheck, IsStopped
  <2>2. ArgInv' /\ BarrierInv' /\ ChannelInv' /\ OpenInv'
    BY DEF WorkerCheck, bVars, cVars, hVars, IInv, ArgInv, BarrierInv, ChannelInv, OpenInv
  <2>3. TypeOK'
    BY <1>2, <2>1 DEF WorkerCheck, bVars, cVars, hVars, IInv, TypeOK, CallerPCs, ReaderCalls
  <2>4. MadeInv'
    BY <2>1 DEF WorkerCheck, bVars, cVars, hVars, IInv, MadeInv
  <2>5. ListenerInv'
    BY <1>2, <2>1 DEF WorkerCheck, hVars, IInv, TypeOK, ListenerInv
  <2>6. StopInv'
    BY <2>1 DEF WorkerCheck, bVars, cVars, IInv, StopInv
  <2> QED
    BY <2>2, <2>3, <2>4, <2>5, <2>6 DEF IInv
<1> QED
  BY <1>1, <1>2

\* The worker sends: the listener it reads is open.
LEMMA WorkerSendPreserves ==
  ASSUME IInv, ~panicked, WorkerSend
  PROVE  IInv'
<1>1. /\ target \in Listeners
      /\ lbarrier[target] \in Barriers(Goroutines)
      /\ Worker \in Goroutines
      /\ lbarrier' = [lbarrier EXCEPT ![target] = Out(lbarrier[target], Worker)]
  BY DEF WorkerSend, Goroutines, IsStopped, InStatusArea, IInv, TypeOK, MadeInv
<1>2. /\ Out(lbarrier[target], Worker) \in Barriers(Goroutines)
      /\ Out(lbarrier[target], Worker).started = lbarrier[target].started
  BY <1>1, OutFacts
<1>3. lbarrier' \in [Listeners -> Barriers(Goroutines)]
  BY <1>1, <1>2, Disjoint DEF WorkerSend, bVars, lVars, wVars, cVars, hVars, IInv, TypeOK, ArgInv
<1>4. /\ ~lclosed[target]
      /\ panicked' = FALSE
      /\ got' = [got EXCEPT ![target] = Append(got[target], cur)]
  BY DEF WorkerSend, IsStopped, InStatusArea, IInv, TypeOK, ArgInv, MadeInv, ListenerInv
<1>5. got[target] \in Seq(Nat) /\ cur \in Nat
  BY <1>1, <1>2, <1>3, <1>4, Disjoint DEF WorkerSend, bVars, lVars, wVars, cVars, hVars, IInv,
     TypeOK, ArgInv
<1>6. Append(got[target], cur) \in Seq(Nat)
  BY <1>5
<1>7. got' \in [Listeners -> Seq(Nat)]
  BY <1>1, <1>2, <1>3, <1>4, <1>5, <1>6, Disjoint DEF WorkerSend, bVars, lVars, wVars, cVars,
     hVars, IInv, TypeOK, ArgInv
<1>8. ArgInv' /\ BarrierInv' /\ OpenInv'
  BY DEF WorkerSend, bVars, cVars, IInv, ArgInv, BarrierInv, OpenInv
<1>9. TypeOK'
  BY <1>3, <1>7 DEF WorkerSend, bVars, cVars, IInv, TypeOK
<1>10. ChannelInv'
  BY <1>4 DEF WorkerSend, bVars, IInv, ChannelInv
<1>11. MadeInv'
  BY DEF WorkerSend, bVars, cVars, IInv, MadeInv
<1>12. ListenerInv'
  BY <1>1, <1>2, <1>3, <1>4, <1>5, <1>6, <1>7 DEF WorkerSend, IInv, TypeOK, ListenerInv,
     MadeInv, ArgInv, StopInv, IsStopped, InStatusArea
<1>13. StopInv'
  BY DEF WorkerSend, bVars, cVars, IInv, StopInv
<1> QED
  BY <1>8, <1>9, <1>10, <1>11, <1>12, <1>13 DEF IInv

\* The worker gives up on a listener.
LEMMA WorkerTimeoutPreserves ==
  ASSUME IInv, ~panicked, WorkerTimeout
  PROVE  IInv'
<1>1. /\ target \in Listeners
      /\ lbarrier[target] \in Barriers(Goroutines)
      /\ Worker \in Goroutines
      /\ lbarrier' = [lbarrier EXCEPT ![target] = Out(lbarrier[target], Worker)]
  BY DEF WorkerTimeout, Goroutines, IsStopped, InStatusArea, IInv, TypeOK, MadeInv
<1>2. /\ Out(lbarrier[target], Worker) \in Barriers(Goroutines)
      /\ Out(lbarrier[target], Worker).started = lbarrier[target].started
  BY <1>1, OutFacts
<1>3. lbarrier' \in [Listeners -> Barriers(Goroutines)]
  BY <1>1, <1>2, Disjoint DEF WorkerTimeout, bVars, lVars, wVars, cVars, hVars, IInv, TypeOK,
     ArgInv
<1>4. dropped' \in [Listeners -> SUBSET Nat]
  BY DEF WorkerTimeout, IInv, TypeOK
<1>5. ArgInv' /\ BarrierInv' /\ ChannelInv' /\ OpenInv'
  BY DEF WorkerTimeout, bVars, cVars, IInv, ArgInv, BarrierInv, ChannelInv, OpenInv
<1>6. TypeOK'
  BY <1>3, <1>4 DEF WorkerTimeout, bVars, cVars, IInv, TypeOK
<1>7. MadeInv'
  BY DEF WorkerTimeout, bVars, cVars, IInv, MadeInv
<1>8. ListenerInv'
  BY <1>1, <1>2, <1>3, <1>4 DEF WorkerTimeout, IInv, TypeOK, ListenerInv, MadeInv, ArgInv,
     StopInv, IsStopped, InStatusArea
<1>9. StopInv'
  BY DEF WorkerTimeout, bVars, cVars, IInv, StopInv
<1> QED
  BY <1>5, <1>6, <1>7, <1>8, <1>9 DEF IInv

\* A consumer receives.
LEMMA ReceivePreserves ==
  ASSUME IInv, ~panicked, NEW l \in Listeners, Receive(l)
  PROVE  IInv'
<1>1. rd' \in [Listeners -> Nat]
  BY DEF Receive, IInv, TypeOK
<1>2. ArgInv' /\ BarrierInv' /\ ChannelInv' /\ MadeInv' /\ ListenerInv' /\ StopInv' /\ OpenInv'
  BY DEF Receive, bVars, wVars, cVars, hVars, IInv, ArgInv, BarrierInv, ChannelInv, MadeInv,
     ListenerInv, StopInv, OpenInv
<1>3. TypeOK'
  BY <1>1 DEF Receive, bVars, wVars, cVars, hVars, IInv, TypeOK
<1> QED
  BY <1>2, <1>3 DEF IInv

-----------------------------------------------------------------------------
\* The invariant holds initially.
LEMMA InitEstablishes ==
  Init => IInv
<1> SUFFICES ASSUME Init PROVE IInv
  OBVIOUS
<1>1. TypeOK
  <2>1. barrier \in Barriers(Goroutines) /\ lbarrier \in [Listeners -> Barriers(Goroutines)]
    BY NewFacts DEF Init
  <2>2. log \in Seq(Messages) /\ got \in [Listeners -> Seq(Nat)]
    BY DEF Init
  <2>3. pc \in [Callers -> CallerPCs] /\ arg \in [Callers -> Listeners \cup Messages \cup {None}]
    BY DEF Init, CallerPCs
  <2>4. /\ mstate \in [Messages -> {"new", "called", "sending", "sent", "lost", "refused"}]
        /\ dropped \in [Listeners -> SUBSET Nat]
    BY DEF Init
  <2> QED
    BY <2>1, <2>2, <2>3, <2>4 DEF Init, TypeOK
<1>2. ArgInv /\ MadeInv /\ OpenInv
  BY DEF Init, ArgInv, MadeInv, OpenInv
<1>3. BarrierInv /\ ChannelInv /\ ListenerInv /\ StopInv
  BY NewFacts DEF Init, BarrierInv, StatusAreaPCs, ChannelInv, ListenerInv, StopInv
<1> QED
  BY <1>1, <1>2, <1>3 DEF IInv

\* Every step of the broadcaster preserves the invariant, action by action.
LEMMA NextPreserves ==
  IInv /\ [Next]_vars => IInv'
<1> SUFFICES ASSUME IInv, [Next]_vars PROVE IInv'
  OBVIOUS
<1>1. CASE ~panicked /\ ParentCancel
  BY <1>1, ParentCancelPreserves
<1>2. ASSUME NEW p \in Callers, NEW l \in Listeners, ~panicked, InvokeSubscribe(p, l) PROVE IInv'
  BY <1>2, InvokeSubscribePreserves
<1>3. ASSUME NEW p \in Callers, NEW l \in Listeners, ~panicked, InvokeUnsubscribe(p, l)
      PROVE  IInv'
  BY <1>3, InvokeUnsubscribePreserves
<1>4. ASSUME NEW p \in Callers, ~panicked, InvokeQuery(p) PROVE IInv'
  BY <1>4, InvokeQueryPreserves
<1>5. ASSUME NEW p \in Callers, NEW m \in Messages, NEW call \in {"Write", "WriteSync"}, ~panicked, InvokeWrite(p, m, call)
      PROVE  IInv'
  BY <1>5, InvokeWritePreserves
<1>6. ASSUME NEW p \in Callers, ~panicked, InvokeStart(p) PROVE IInv'
  BY <1>6, InvokeStartPreserves
<1>7. ASSUME NEW p \in Callers, ~panicked, InvokeStop(p) PROVE IInv'
  BY <1>7, InvokeStopPreserves
<1>8. ASSUME NEW p \in Callers, ~panicked, EnterStatusArea(p) PROVE IInv'
  BY <1>8, EnterStatusAreaPreserves
<1>9. ASSUME NEW p \in Callers, ~panicked, Query(p) PROVE IInv'
  BY <1>9, QueryPreserves
<1>10. ASSUME NEW p \in Callers, ~panicked, Subscribe(p) PROVE IInv'
  BY <1>10, SubscribePreserves
<1>11. ASSUME NEW p \in Callers, ~panicked, Unsubscribe(p) PROVE IInv'
  BY <1>11, UnsubscribePreserves
<1>12. ASSUME NEW p \in Callers, ~panicked, ListenerEnterStatusArea(p) PROVE IInv'
  BY <1>12, ListenerEnterStatusAreaPreserves
<1>13. ASSUME NEW p \in Callers, ~panicked, ListenerStop(p) PROVE IInv'
  BY <1>13, ListenerStopPreserves
<1>14. ASSUME NEW p \in Callers, ~panicked, Write(p) PROVE IInv'
  BY <1>14, WritePreserves
<1>15. ASSUME NEW p \in Callers, ~panicked, WriteSync(p) PROVE IInv'
  BY <1>15, WriteSyncPreserves
<1>16. ASSUME NEW p \in Callers, ~panicked, WriteSyncReturn(p) PROVE IInv'
  BY <1>16, WriteSyncReturnPreserves
<1>17. ASSUME NEW p \in Callers, ~panicked, Start(p) PROVE IInv'
  BY <1>17, StartPreserves
<1>18. ASSUME NEW p \in Callers, ~panicked, StopCancel(p) PROVE IInv'
  BY <1>18, StopCancelPreserves
<1>19. ASSUME NEW p \in Callers, ~panicked, StopWait(p) PROVE IInv'
  BY <1>19, StopWaitPreserves
<1>20. ASSUME NEW p \in Callers, NEW l \in Listeners, ~panicked, StopListener(p, l) PROVE IInv'
  BY <1>20, StopListenerPreserves
<1>21. ASSUME NEW p \in Callers, ~panicked, StopEnd(p) PROVE IInv'
  BY <1>21, StopEndPreserves
<1>22. ASSUME NEW m \in Messages, ~panicked, Send(m) PROVE IInv'
  BY <1>22, SendPreserves
<1>23. ASSUME NEW m \in Messages, ~panicked, WriteTimeout(m) PROVE IInv'
  BY <1>23, WriteTimeoutPreserves
<1>24. CASE ~panicked /\ WorkerDone
  BY <1>24, WorkerDonePreserves
<1>25. CASE ~panicked /\ WorkerReceive
  BY <1>25, WorkerReceivePreserves
<1>26. CASE ~panicked /\ WorkerReceiveClosed
  BY <1>26, WorkerReceiveClosedPreserves
<1>27. ASSUME NEW l \in Listeners, ~panicked, WorkerVisit(l) PROVE IInv'
  BY <1>27, WorkerVisitPreserves
<1>28. CASE ~panicked /\ WorkerRangeEnd
  BY <1>28, WorkerRangeEndPreserves
<1>29. CASE ~panicked /\ WorkerCheck
  BY <1>29, WorkerCheckPreserves
<1>30. CASE ~panicked /\ WorkerSend
  BY <1>30, WorkerSendPreserves
<1>31. CASE ~panicked /\ WorkerTimeout
  BY <1>31, WorkerTimeoutPreserves
<1>32. ASSUME NEW l \in Listeners, ~panicked, Receive(l) PROVE IInv'
  BY <1>32, ReceivePreserves
<1>33. CASE UNCHANGED vars
  BY <1>33 DEF vars, bVars, lVars, wVars, cVars, hVars, IInv, TypeOK, ArgInv, BarrierInv,
     ChannelInv, MadeInv, ListenerInv, StopInv, OpenInv
<1> QED
  BY <1>1, <1>2, <1>3, <1>4, <1>5, <1>6, <1>7, <1>8, <1>9, <1>10, <1>11, <1>12, <1>13, <1>14,
     <1>15, <1>16, <1>17, <1>18, <1>19, <1>20, <1>21, <1>22, <1>23, <1>24, <1>25, <1>26, <1>27,
     <1>28, <1>29, <1>30, <1>31, <1>32, <1>33 DEF Next, Invoke, Proceed, Sender, WorkerStep

\* The parts above hold in every reachable state.
THEOREM Invariance == Spec => []IInv
<1> QED
  BY InitEstablishes, NextPreserves, PTL DEF Spec

\* Every reachable state of the broadcaster is of the declared type.
THEOREM TypeCorrect == Spec => []TypeOK
<1>1. IInv => TypeOK
  BY DEF IInv
<1> QED
  BY <1>1, Invariance, PTL

\* Write, WriteSync and the worker never send on a closed channel, and Stop and
\* Unsubscribe never close one twice, as long as Start took effect once.
THEOREM NeverPanicsBeforeRestart == Spec => []NoPanicBeforeRestart
<1>1. IInv => NoPanicBeforeRestart
  BY DEF IInv, ChannelInv, NoPanicBeforeRestart
<1> QED
  BY <1>1, Invariance, PTL

\* When Stop has marked the broadcaster as stopped the worker has ended, no write is
\* pending, no listener is registered and every listener's channel is closed.
THEOREM StopLeavesNothing == Spec => []StopQuiesces
<1>1. IInv => StopQuiesces
  BY DEF IInv, BarrierInv, StopInv, OpenInv, StopQuiesces, IsStopped
<1> QED
  BY <1>1, Invariance, PTL

-----------------------------------------------------------------------------
(* Order and completeness of what listeners receive, restarts included.    *)

\* The message in the worker's hands is the last one it took, and no listener it
\* has still to visit has it.  With the context cancelled, which a closed b.c
\* implies, nobody is visited.
DeliverInv ==
  /\ bclosed => done
  /\ \A p \in Callers : pc[p] \in {"stopWait", "stopRange"} => done
  /\ wpc \in {"off", "select"} => owed = {} /\ reach = {}
  /\ wpc \notin {"write", "send"} => target = None
  /\ wpc = "range" => done \/ (cur = taken /\ taken > 0)
  /\ wpc \in {"write", "send"} => cur = taken /\ taken > 0 /\ target \in Listeners \ reach
  /\ \A l \in Listeners : l \notin made => got[l] = << >>
  /\ \A l \in Listeners : since[l] <= taken
  /\ \A l \in Listeners :
       (l \in reach /\ ~done) \/ (wpc \in {"write", "send"} /\ target = l)
         => \A i \in 1 .. Len(got[l]) : got[l][i] < taken

\* A worker that has been started again finds its context cancelled.
RestartInv ==
  /\ starts > 0 /\ ~barrier.started => done
  /\ starts > 1 => done /\ wpc \notin {"write", "send"}

\* A listener in the map is open, and not in the hands of an Unsubscribe.
MapInv ==
  /\ \A l \in listeners : ~lclosed[l]
  /\ \A p \in Callers : pc[p] \in {"lstop", "lstopArea"} => arg[p] \notin listeners

OInv == DeliverInv /\ InOrder /\ RestartInv /\ MapInv /\ NoSkippedListener

\* Steps that leave the worker and its deliveries alone.
LEMMA AsideKeepsOrder ==
  ASSUME DeliverInv, InOrder,
         UNCHANGED <<taken, got, since, wpc, cur, target, owed, reach, made, bclosed>>,
         done => done',
         \A p \in Callers : pc'[p] \in {"stopWait", "stopRange"} => done'
  PROVE  DeliverInv' /\ InOrder'
<1>1. DeliverInv'
  BY DEF DeliverInv
<1>2. InOrder'
  BY DEF InOrder
<1> QED
  BY <1>1, <1>2

\* The callers, but for those that change what the worker sees.
LEMMA CallersKeepOrder ==
  ASSUME IInv, DeliverInv, InOrder, NEW p \in Callers,
         \/ Invoke(p) \/ EnterStatusArea(p) \/ Query(p)
         \/ ListenerEnterStatusArea(p) \/ ListenerStop(p)
         \/ Write(p) \/ WriteSync(p) \/ WriteSyncReturn(p)
         \/ StopCancel(p) \/ StopWait(p) \/ \E l \in Listeners : StopListener(p, l)
  PROVE  DeliverInv' /\ InOrder'
<1> USE DEF InvokeReader, Return, ReturnReader, ReturnWriter, bVars, lVars, wVars, cVars, hVars
<1> DEFINE Aside == /\ UNCHANGED <<taken, got, since, wpc, cur, target, owed, reach, made, bclosed>>
                    /\ done => done'
           Calm == \A q \in Callers : pc'[q] \in {"stopWait", "stopRange"} => done'
<1>0. pc \in [Callers -> CallerPCs] /\ \A q \in Callers : pc[q] \in {"stopWait", "stopRange"} => done
  BY DEF IInv, TypeOK, DeliverInv
<1>1. CASE Invoke(p)
  <2>1. Aside /\ UNCHANGED done
    BY <1>1 DEF Invoke, InvokeSubscribe, InvokeUnsubscribe, InvokeQuery, InvokeWrite, InvokeStart, InvokeStop
  <2>2. \E call \in ReaderCalls \cup {"Start", "Stop"} : pc' = [pc EXCEPT ![p] = call]
    BY <1>1 DEF Invoke, InvokeSubscribe, InvokeUnsubscribe, InvokeQuery, InvokeWrite, InvokeStart,
       InvokeStop, ReaderCalls
  <2>3. Calm
    BY <1>0, <2>1, <2>2 DEF ReaderCalls
  <2> QED
    BY <2>1, <2>3, AsideKeepsOrder
<1>2. CASE EnterStatusArea(p) \/ Query(p) \/ ListenerEnterStatusArea(p) \/ ListenerStop(p)
  <2>1. Aside /\ UNCHANGED done /\ Calm
    BY <1>0, <1>2 DEF EnterStatusArea, Query, ListenerEnterStatusArea, ListenerStop
  <2> QED
    BY <2>1, AsideKeepsOrder
<1>3. CASE Write(p) \/ WriteSync(p) \/ WriteSyncReturn(p)
  <2>1. Aside /\ UNCHANGED done /\ Calm
    BY <1>0, <1>3 DEF Write, WriteSync, WriteSyncReturn
  <2> QED
    BY <2>1, AsideKeepsOrder
<1>4. CASE StopCancel(p)
  <2>1. Aside /\ Calm
    BY <1>0, <1>4 DEF StopCancel
  <2> QED
    BY <2>1, AsideKeepsOrder
<1>5. CASE StopWait(p) \/ \E l \in Listeners : StopListener(p, l)
  <2>1. Aside /\ UNCHANGED done /\ Calm
    BY <1>0, <1>5 DEF StopWait, StopListener
  <2> QED
    BY <2>1, AsideKeepsOrder
<1> QED
  BY <1>1, <1>2, <1>3, <1>4, <1>5

\* A new listener has received nothing, and may be visited at once.
LEMMA SubscribeKeepsOrder ==
  ASSUME IInv, DeliverInv, InOrder, NEW p \in Callers, Subscribe(p) PROVE DeliverInv' /\ InOrder'
<1>1. arg[p] \in Listeners /\ arg[p] \notin made /\ got[arg[p]] = << >>
  BY DEF Subscribe, IInv, ArgInv, MadeInv, DeliverInv
<1>2. /\ UNCHANGED <<taken, got, wpc, cur, target, owed, bclosed, done>>
      /\ pc' = [pc EXCEPT ![p] = "idle"]
      /\ since \in [Listeners -> Nat] /\ taken \in Nat /\ pc \in [Callers -> CallerPCs]
  BY DEF Subscribe, ReturnReader, Return, IInv, TypeOK
<1>3. CASE UNCHANGED <<made, since, reach>>
  <2>1. \A q \in Callers : pc'[q] \in {"stopWait", "stopRange"} => done'
    BY <1>2 DEF DeliverInv
  <2> QED
    BY <1>2, <1>3, <2>1, AsideKeepsOrder
<1>4. CASE ~ UNCHANGED <<made, since, reach>>
  <2>1. /\ made' = made \cup {arg[p]}
        /\ since' = [since EXCEPT ![arg[p]] = taken]
        /\ reach' = IF wpc \in {"range", "write", "send"} THEN reach \cup {arg[p]} ELSE reach
    BY <1>4 DEF Subscribe
  <2>2. wpc \in {"write", "send"} => target # arg[p]
    BY <1>1 DEF IInv, MadeInv
  <2>3. DeliverInv'
    BY <1>1, <1>2, <2>1, <2>2 DEF DeliverInv, IInv, TypeOK
  <2>4. InOrder'
    BY <1>1, <1>2, <2>1 DEF InOrder
  <2> QED
    BY <2>3, <2>4
<1> QED
  BY <1>3, <1>4

LEMMA UnsubscribeKeepsOrder ==
  ASSUME IInv, DeliverInv, InOrder, NEW p \in Callers, Unsubscribe(p) PROVE DeliverInv' /\ InOrder'
<1>1. /\ UNCHANGED <<taken, got, since, wpc, cur, target, reach, made, bclosed, done>>
      /\ owed' \subseteq owed
      /\ \A q \in Callers : pc'[q] \in {"stopWait", "stopRange"} => pc[q] \in {"stopWait", "stopRange"}
  BY DEF Unsubscribe, ReturnReader, Return, lVars, hVars, IInv, TypeOK
<1>2. DeliverInv'
  BY <1>1 DEF DeliverInv
<1>3. InOrder'
  BY <1>1 DEF InOrder
<1> QED
  BY <1>2, <1>3

\* Start finds no worker, Stop closes b.c with the context cancelled.
LEMMA StartStopKeepOrder ==
  ASSUME IInv, DeliverInv, InOrder, NEW p \in Callers, Start(p) \/ StopEnd(p)
  PROVE  DeliverInv' /\ InOrder'
<1>1. UNCHANGED <<taken, got, since, cur, target, owed, reach, made, done>>
  BY DEF Start, StopEnd, lVars, wVars
<1>2. /\ wpc' = wpc \/ (wpc = "off" /\ wpc' = "select")
      /\ bclosed' => bclosed \/ done
  BY DEF Start, StopEnd, lVars, wVars, IsStopped, IInv, StopInv, DeliverInv
<1>3. \A q \in Callers : pc'[q] \in {"stopWait", "stopRange"} => pc[q] \in {"stopWait", "stopRange"}
  BY DEF Start, StopEnd, ReturnWriter, Return, IInv, TypeOK
<1>4. DeliverInv'
  BY <1>1, <1>2, <1>3 DEF DeliverInv
<1>5. InOrder'
  BY <1>1 DEF InOrder
<1> QED
  BY <1>4, <1>5

\* Senders, consumers and the owner of the context.
LEMMA OthersKeepOrder ==
  ASSUME IInv, DeliverInv, InOrder,
         ParentCancel \/ (\E m \in Messages : Sender(m)) \/ (\E l \in Listeners : Receive(l))
  PROVE  DeliverInv' /\ InOrder'
<1>1. /\ UNCHANGED <<taken, got, since, wpc, cur, target, owed, reach, made, bclosed, pc>>
      /\ done => done'
  BY DEF ParentCancel, Sender, Send, WriteTimeout, Receive, bVars, lVars, wVars, cVars, hVars
<1>2. \A p \in Callers : pc'[p] \in {"stopWait", "stopRange"} => done'
  BY <1>1 DEF DeliverInv
<1> QED
  BY <1>1, <1>2, AsideKeepsOrder

\* The worker between messages.
LEMMA WorkerTurnKeepsOrder ==
  ASSUME IInv, DeliverInv, InOrder,
         WorkerDone \/ WorkerReceive \/ WorkerReceiveClosed \/ WorkerRangeEnd
  PROVE  DeliverInv' /\ InOrder'
<1> USE DEF bVars, lVars, cVars, hVars
<1>0. taken \in Nat /\ cur \in Nat /\ since \in [Listeners -> Nat] /\ got \in [Listeners -> Seq(Nat)]
  BY DEF IInv, TypeOK
<1>1. CASE WorkerDone
  BY <1>1 DEF WorkerDone, DeliverInv, InOrder
<1>2. CASE WorkerReceive
  <2>1. \A l \in Listeners : \A i \in 1 .. Len(got[l]) : got[l][i] \in 1 .. taken
    BY DEF InOrder
  <2>2. DeliverInv'
    BY <1>0, <1>2, <2>1 DEF WorkerReceive, DeliverInv
  <2>3. InOrder'
    BY <1>0, <1>2 DEF WorkerReceive, InOrder
  <2> QED
    BY <2>2, <2>3
<1>3. CASE WorkerReceiveClosed
  BY <1>3 DEF WorkerReceiveClosed, DeliverInv, InOrder
<1>4. CASE WorkerRangeEnd
  BY <1>4 DEF WorkerRangeEnd, DeliverInv, InOrder
<1> QED
  BY <1>1, <1>2, <1>3, <1>4

\* The worker at a listener.
LEMMA WorkerWriteKeepsOrder ==
  ASSUME IInv, DeliverInv, InOrder,
         (\E l \in Listeners : WorkerVisit(l)) \/ WorkerCheck \/ WorkerSend \/ WorkerTimeout
  PROVE  DeliverInv' /\ InOrder'
<1> USE DEF bVars, lVars, cVars, hVars
<1>0. taken \in Nat /\ cur \in Nat /\ since \in [Listeners -> Nat] /\ got \in [Listeners -> Seq(Nat)]
  BY DEF IInv, TypeOK
<1>1. ASSUME NEW l \in Listeners, WorkerVisit(l) PROVE DeliverInv' /\ InOrder'
  BY <1>1 DEF WorkerVisit, DeliverInv, InOrder
<1>2. CASE WorkerCheck
  BY <1>2 DEF WorkerCheck, DeliverInv, InOrder
<1>3. CASE WorkerTimeout
  BY <1>3 DEF WorkerTimeout, DeliverInv, InOrder
<1>4. CASE WorkerSend
  <2>1. /\ cur = taken /\ taken > 0 /\ target \in Listeners \ reach /\ since[target] <= taken
        /\ \A i \in 1 .. Len(got[target]) : got[target][i] < taken
        /\ target \in made /\ wpc' = "range"
        /\ UNCHANGED <<taken, since, cur, owed, reach, made, bclosed, done, pc>>
    BY <1>4 DEF WorkerSend, DeliverInv, IInv, MadeInv
  <2>2. ~lclosed[target]
    BY <1>4, <2>1 DEF WorkerSend, IInv, ListenerInv
  <2>3. got' = [got EXCEPT ![target] = Append(got[target], taken)]
    BY <1>4, <2>1, <2>2 DEF WorkerSend
  <2>4. /\ \A l \in Listeners \ {target} : got'[l] = got[l]
        /\ got'[target] = Append(got[target], taken) /\ Len(got'[target]) = Len(got[target]) + 1
        /\ \A i \in 1 .. Len(got[target]) : got'[target][i] = got[target][i]
        /\ got'[target][Len(got[target]) + 1] = taken /\ Len(got[target]) \in Nat
    BY <1>0, <2>1, <2>3
  <2>5. DeliverInv'
    BY <1>0, <1>4, <2>1, <2>4 DEF WorkerSend, DeliverInv
  <2>6. ASSUME NEW l \in Listeners
        PROVE  /\ \A i \in 1 .. Len(got'[l]) : got'[l][i] \in 1 .. taken /\ got'[l][i] >= since[l]
               /\ \A i, j \in 1 .. Len(got'[l]) : i < j => got'[l][i] < got'[l][j]
    <3>1. CASE l # target
      BY <2>4, <3>1 DEF InOrder
    <3>2. CASE l = target
      <4>1. \A i \in 1 .. Len(got'[l]) : i \in 1 .. Len(got[l]) \/ i = Len(got[l]) + 1
        BY <2>4, <3>2
      <4>2. \A i \in 1 .. Len(got'[l]) : got'[l][i] \in 1 .. taken /\ got'[l][i] >= since[l]
        BY <1>0, <2>1, <2>4, <3>2, <4>1 DEF InOrder
      <4>3. ASSUME NEW i \in 1 .. Len(got'[l]), NEW j \in 1 .. Len(got'[l]), i < j
            PROVE  got'[l][i] < got'[l][j]
        <5>1. i \in 1 .. Len(got[l]) /\ (j \in 1 .. Len(got[l]) \/ j = Len(got[l]) + 1)
          BY <2>4, <3>2, <4>1, <4>3
        <5>2. \A m, n \in 1 .. Len(got[l]) : m < n => got[l][m] < got[l][n]
          BY DEF InOrder
        <5> QED
          BY <2>1, <2>4, <3>2, <4>3, <5>1, <5>2
      <4> QED
        BY <4>2, <4>3
    <3> QED
      BY <3>1, <3>2
  <2>7. InOrder'
    BY <2>1, <2>6 DEF InOrder
  <2> QED
    BY <2>5, <2>7
<1> QED
  BY <1>1, <1>2, <1>3, <1>4

LEMMA NextKeepsOrder == IInv /\ DeliverInv /\ InOrder /\ [Next]_vars => DeliverInv' /\ InOrder'
<1> SUFFICES ASSUME IInv, DeliverInv, InOrder, [Next]_vars PROVE DeliverInv' /\ InOrder'
  OBVIOUS
<1>1. CASE UNCHANGED vars
  <2>1. UNCHANGED <<taken, got, since, wpc, cur, target, owed, reach, made, bclosed, done, pc>>
    BY <1>1 DEF vars, bVars, lVars, wVars, cVars, hVars
  <2>2. \A p \in Callers : pc'[p] \in {"stopWait", "stopRange"} => done'
    BY <2>1 DEF DeliverInv
  <2> QED
    BY <2>1, <2>2, AsideKeepsOrder
<1>2. CASE WorkerStep
  BY <1>2, WorkerTurnKeepsOrder, WorkerWriteKeepsOrder DEF WorkerStep
<1>3. ASSUME NEW p \in Callers, Invoke(p) \/ EnterStatusArea(p) \/ Proceed(p)
      PROVE  DeliverInv' /\ InOrder'
  BY <1>3, CallersKeepOrder, SubscribeKeepsOrder, UnsubscribeKeepsOrder, StartStopKeepOrder DEF Proceed
<1> QED
  BY <1>1, <1>2, <1>3, OthersKeepOrder DEF Next

\* Steps that change neither flags nor worker keep what is known of a restart.
LEMMA NextKeepsRestart ==
  IInv /\ DeliverInv /\ RestartInv /\ [Next]_vars => RestartInv'
<1> SUFFICES ASSUME IInv, DeliverInv, RestartInv, [Next]_vars PROVE RestartInv'
  OBVIOUS
<1> USE DEF bVars, lVars, wVars, cVars, hVars, Return, ReturnReader, ReturnWriter
<1>0. barrier \in Barriers(Goroutines) /\ starts \in Nat /\ pc \in [Callers -> CallerPCs]
      /\ Callers \subseteq Goroutines /\ Messages \subseteq Goroutines
  BY DEF IInv, TypeOK, Goroutines
<1> DEFINE Same == /\ UNCHANGED starts /\ barrier'.started = barrier.started /\ (done => done')
                   /\ wpc' \in {"write", "send"} => wpc \in {"write", "send"} \/ ~done
<1>1. ASSUME Same PROVE RestartInv'
  BY <1>1 DEF RestartInv
<1>2. CASE UNCHANGED vars
  BY <1>1, <1>2 DEF vars
<1>3. ASSUME NEW p \in Callers, Start(p) PROVE RestartInv'
  <2>1. CASE IsStopped(barrier)
    <3>1. /\ starts' = starts + 1 /\ wpc' = "select" /\ UNCHANGED done
          /\ barrier' = OutOfStatusArea(MarkStarted(barrier)) /\ ~barrier.started
      BY <1>3, <2>1 DEF Start, IsStopped
    <3>2. barrier'.started
      BY <1>0, <3>1, MarkFacts, OutOfStatusAreaFacts
    <3> QED
      BY <1>0, <3>1, <3>2 DEF RestartInv
  <2>2. CASE ~IsStopped(barrier)
    <3>1. barrier' = OutOfStatusArea(barrier) /\ UNCHANGED <<starts, wpc, done>>
      BY <1>3, <2>2 DEF Start
    <3> QED
      BY <1>0, <1>1, <3>1, OutOfStatusAreaFacts
  <2> QED
    BY <2>1, <2>2
<1>4. ASSUME NEW p \in Callers, StopEnd(p) PROVE RestartInv'
  BY <1>4 DEF StopEnd, DeliverInv, RestartInv
<1>5. ASSUME NEW p \in Callers, StopCancel(p) PROVE RestartInv'
  <2>1. barrier' = barrier \/ barrier' = OutOfStatusArea(barrier)
    BY <1>5 DEF StopCancel
  <2>2. barrier'.started = barrier.started
    BY <1>0, <2>1, OutOfStatusAreaFacts
  <2> QED
    BY <1>1, <1>5, <2>2 DEF StopCancel
<1>6. ASSUME NEW p \in Callers, Invoke(p) PROVE RestartInv'
  <2>1. barrier' = barrier \/ barrier' = Entering(barrier, p)
    BY <1>6 DEF Invoke, InvokeSubscribe, InvokeUnsubscribe, InvokeQuery, InvokeWrite, InvokeReader,
       InvokeStart, InvokeStop
  <2>2. barrier'.started = barrier.started
    BY <1>0, <2>1, EnteringFacts
  <2>3. UNCHANGED <<starts, done, wpc>>
    BY <1>6 DEF Invoke, InvokeSubscribe, InvokeUnsubscribe, InvokeQuery, InvokeWrite, InvokeReader,
       InvokeStart, InvokeStop
  <2> QED
    BY <1>1, <2>2, <2>3
<1>7. ASSUME NEW p \in Callers, EnterStatusArea(p) PROVE RestartInv'
  <2>1. barrier'.started = barrier.started
    BY <1>0, <1>7, EnteringStatusAreaFacts DEF EnterStatusArea
  <2> QED
    BY <1>1, <1>7, <2>1 DEF EnterStatusArea
<1>8. ASSUME NEW p \in Callers, Query(p) \/ Subscribe(p) \/ Unsubscribe(p) \/ ListenerStop(p) PROVE RestartInv'
  <2>1. barrier' = barrier \/ barrier' = Out(barrier, p)
    BY <1>8 DEF Query, Subscribe, Unsubscribe, ListenerStop
  <2>2. barrier'.started = barrier.started
    BY <1>0, <2>1, OutFacts
  <2> QED
    BY <1>1, <1>8, <2>2 DEF Query, Subscribe, Unsubscribe, ListenerStop
<1>9. ASSUME NEW p \in Callers, Write(p) \/ WriteSync(p) PROVE RestartInv'
  <2>1. \/ barrier' = Out(barrier, p)
        \/ barrier' = HandOver(barrier, p, arg[p]) /\ arg[p] \in Goroutines
    BY <1>0, <1>9 DEF Write, WriteSync, IInv, ArgInv
  <2>2. barrier'.started = barrier.started
    <3>1. CASE barrier' = Out(barrier, p)
      BY <1>0, <3>1, OutFacts
    <3>2. CASE barrier' = HandOver(barrier, p, arg[p]) /\ arg[p] \in Goroutines
      BY <1>0, <3>2, HandOverFacts
    <3> QED
      BY <2>1, <3>1, <3>2
  <2> QED
    BY <1>1, <1>9, <2>2 DEF Write, WriteSync
<1>10. ASSUME NEW p \in Callers,
              \/ ListenerEnterStatusArea(p) \/ WriteSyncReturn(p) \/ StopWait(p)
              \/ \E l \in Listeners : StopListener(p, l)
       PROVE  RestartInv'
  BY <1>1, <1>10 DEF ListenerEnterStatusArea, WriteSyncReturn, StopWait, StopListener
<1>11. ASSUME NEW m \in Messages, Sender(m) PROVE RestartInv'
  <2>1. barrier' = Out(barrier, m)
    BY <1>11 DEF Sender, Send, WriteTimeout
  <2>2. barrier'.started = barrier.started
    BY <1>0, <2>1, OutFacts
  <2> QED
    BY <1>1, <1>11, <2>2 DEF Sender, Send, WriteTimeout
<1>12. CASE WorkerStep
  BY <1>1, <1>12 DEF WorkerStep, WorkerDone, WorkerReceive, WorkerReceiveClosed, WorkerVisit,
     WorkerRangeEnd, WorkerCheck, WorkerSend, WorkerTimeout
<1>13. CASE ParentCancel \/ \E l \in Listeners : Receive(l)
  BY <1>1, <1>13 DEF ParentCancel, Receive
<1> QED
  BY <1>2, <1>3, <1>4, <1>5, <1>6, <1>7, <1>8, <1>9, <1>10, <1>11, <1>12, <1>13 DEF Next, Proceed

\* Listeners leave the map before, or together with, the close of their channel.
LEMMA NextKeepsMap == IInv /\ MapInv /\ [Next]_vars => MapInv'
<1> SUFFICES ASSUME IInv, MapInv, [Next]_vars PROVE MapInv'
  OBVIOUS
<1> USE DEF bVars, lVars, wVars, cVars, hVars, Return, ReturnReader, ReturnWriter
<1>0. /\ pc \in [Callers -> CallerPCs] /\ arg \in [Callers -> Listeners \cup Messages \cup {None}]
      /\ lclosed \in [Listeners -> BOOLEAN] /\ listeners \subseteq Listeners
  BY DEF IInv, TypeOK
<1>1. ASSUME listeners' \subseteq listeners, UNCHANGED lclosed,
             \A q \in Callers : pc'[q] \in {"lstop", "lstopArea"} =>
               pc[q] \in {"lstop", "lstopArea"} /\ arg'[q] = arg[q]
      PROVE  MapInv'
  BY <1>1 DEF MapInv
<1>2. CASE UNCHANGED vars
  BY <1>1, <1>2 DEF vars
<1>3. ASSUME NEW p \in Callers, Invoke(p) PROVE MapInv'
  <2>1. UNCHANGED <<listeners, lclosed>>
    BY <1>3 DEF Invoke, InvokeSubscribe, InvokeUnsubscribe, InvokeQuery, InvokeWrite, InvokeReader,
       InvokeStart, InvokeStop
  <2>2. \A q \in Callers : pc'[q] \in {"lstop", "lstopArea"} =>
          pc[q] \in {"lstop", "lstopArea"} /\ arg'[q] = arg[q]
    BY <1>0, <1>3 DEF Invoke, InvokeSubscribe, InvokeUnsubscribe, InvokeQuery, InvokeWrite,
       InvokeReader, InvokeStart, InvokeStop
  <2> QED
    BY <1>1, <2>1, <2>2
<1>4. ASSUME NEW p \in Callers,
             \/ EnterStatusArea(p) \/ Query(p) \/ ListenerEnterStatusArea(p)
             \/ Write(p) \/ WriteSync(p) \/ WriteSyncReturn(p)
      PROVE  MapInv'
  BY <1>0, <1>1, <1>4 DEF EnterStatusArea, Query, ListenerEnterStatusArea, Write, WriteSync, WriteSyncReturn
<1>5. ASSUME NEW p \in Callers, Start(p) \/ StopCancel(p) \/ StopWait(p) \/ StopEnd(p) PROVE MapInv'
  BY <1>0, <1>1, <1>5 DEF Start, StopCancel, StopWait, StopEnd
<1>6. ASSUME NEW p \in Callers, Subscribe(p) PROVE MapInv'
  BY <1>0, <1>6 DEF Subscribe, MapInv, IInv, ArgInv, MadeInv, ListenerInv
<1>7. ASSUME NEW p \in Callers, Unsubscribe(p) PROVE MapInv'
  BY <1>0, <1>7 DEF Unsubscribe, MapInv
<1>8. ASSUME NEW p \in Callers, ListenerStop(p) PROVE MapInv'
  <2>1. arg[p] \notin listeners /\ UNCHANGED listeners
    BY <1>8 DEF ListenerStop, MapInv
  <2>2. \A l \in listeners : lclosed'[l] = lclosed[l]
    BY <1>0, <1>8, <2>1 DEF ListenerStop
  <2> QED
    BY <1>0, <1>8, <2>1, <2>2 DEF ListenerStop, MapInv
<1>9. ASSUME NEW p \in Callers, NEW l \in Listeners, StopListener(p, l) PROVE MapInv'
  BY <1>0, <1>9 DEF StopListener, MapInv
<1>10. CASE ParentCancel \/ (\E m \in Messages : Sender(m)) \/ (\E l \in Listeners : Receive(l))
  BY <1>1, <1>10 DEF ParentCancel, Sender, Send, WriteTimeout, Receive
<1>11. CASE WorkerStep
  BY <1>1, <1>11 DEF WorkerStep, WorkerDone, WorkerReceive, WorkerReceiveClosed, WorkerVisit,
     WorkerRangeEnd, WorkerCheck, WorkerSend, WorkerTimeout
<1> QED
  BY <1>2, <1>3, <1>4, <1>5, <1>6, <1>7, <1>8, <1>9, <1>10, <1>11 DEF Next, Proceed

\* What the worker has taken reaches every listener that was there, or is counted.
LEMMA NextKeepsDeliveries ==
  IInv /\ DeliverInv /\ MapInv /\ NoSkippedListener /\ [Next]_vars => NoSkippedListener'
<1> SUFFICES ASSUME IInv, DeliverInv, MapInv, NoSkippedListener, [Next]_vars, ~done'
             PROVE  NoSkippedListener'
  BY DEF NoSkippedListener
<1> USE DEF bVars, lVars, wVars, cVars, hVars, Return, ReturnReader, ReturnWriter
<1>0. /\ taken \in Nat /\ cur \in Nat /\ since \in [Listeners -> Nat] /\ got \in [Listeners -> Seq(Nat)]
      /\ dropped \in [Listeners -> SUBSET Nat] /\ listeners \subseteq Listeners
      /\ target \in Listeners \cup {None} /\ None \notin Listeners
  BY Disjoint DEF IInv, TypeOK
<1>1. ASSUME ~done, listeners' \subseteq listeners, UNCHANGED <<taken, cur, since, got, dropped, target>>,
             owed \cap listeners' \subseteq owed'
      PROVE  NoSkippedListener'
  BY <1>1 DEF NoSkippedListener
<1>2. CASE UNCHANGED vars
  BY <1>1, <1>2 DEF vars
<1>3. ASSUME NEW p \in Callers, Invoke(p) PROVE NoSkippedListener'
  BY <1>1, <1>3 DEF Invoke, InvokeSubscribe, InvokeUnsubscribe, InvokeQuery, InvokeWrite,
     InvokeReader, InvokeStart, InvokeStop
<1>4. ASSUME NEW p \in Callers,
             \/ EnterStatusArea(p) \/ Query(p) \/ ListenerEnterStatusArea(p) \/ ListenerStop(p)
             \/ Write(p) \/ WriteSync(p) \/ WriteSyncReturn(p)
      PROVE  NoSkippedListener'
  BY <1>1, <1>4 DEF EnterStatusArea, Query, ListenerEnterStatusArea, ListenerStop, Write, WriteSync,
     WriteSyncReturn
<1>5. ASSUME NEW p \in Callers, Start(p) \/ StopCancel(p) \/ StopWait(p) \/ StopEnd(p)
      PROVE  NoSkippedListener'
  BY <1>1, <1>5 DEF Start, StopCancel, StopWait, StopEnd
<1>6. ASSUME NEW p \in Callers, Subscribe(p) PROVE NoSkippedListener'
  <2>1. /\ UNCHANGED <<taken, cur, got, dropped, target, owed, done>>
        /\ \/ UNCHANGED <<listeners, since>>
           \/ /\ listeners' = listeners \cup {arg[p]} /\ since' = [since EXCEPT ![arg[p]] = taken]
              /\ arg[p] \in Listeners
    BY <1>6 DEF Subscribe, IInv, ArgInv
  <2>2. CASE UNCHANGED <<listeners, since>>
    BY <1>1, <2>1, <2>2
  <2>3. CASE /\ listeners' = listeners \cup {arg[p]} /\ since' = [since EXCEPT ![arg[p]] = taken]
             /\ arg[p] \in Listeners
    <3>0. since'[arg[p]] = taken
      BY <1>0, <2>3
    <3>1. \A l \in listeners' : \A i \in since'[l] + 1 .. taken' : l # arg[p] /\ l \in listeners
      BY <1>0, <2>1, <2>3, <3>0
    <3>2. \A l \in Listeners \ {arg[p]} : since'[l] = since[l]
      BY <1>0, <2>3
    <3> QED
      BY <1>0, <2>1, <3>1, <3>2 DEF NoSkippedListener
  <2> QED
    BY <2>1, <2>2, <2>3
<1>7. ASSUME NEW p \in Callers, Unsubscribe(p) PROVE NoSkippedListener'
  <2>1. /\ ~done /\ UNCHANGED <<taken, cur, since, got, dropped, target>>
        /\ listeners' \subseteq listeners /\ owed \cap listeners' \subseteq owed'
    BY <1>7 DEF Unsubscribe
  <2> QED
    BY <1>1, <2>1
<1>8. ASSUME NEW p \in Callers, NEW l \in Listeners, StopListener(p, l) PROVE NoSkippedListener'
  BY <1>1, <1>8 DEF StopListener
<1>9. CASE ParentCancel \/ (\E m \in Messages : Sender(m)) \/ (\E l \in Listeners : Receive(l))
  BY <1>1, <1>9 DEF ParentCancel, Sender, Send, WriteTimeout, Receive
<1>10. CASE WorkerDone \/ WorkerReceiveClosed
  BY <1>10 DEF WorkerDone, WorkerReceiveClosed, DeliverInv
<1>11. CASE WorkerReceive
  <2>1. /\ ~done /\ taken' = taken + 1 /\ cur' = taken + 1 /\ owed' = listeners
        /\ UNCHANGED <<listeners, since, got, dropped, target>> /\ owed = {} /\ target = None
    BY <1>11 DEF WorkerReceive, DeliverInv
  <2>2. \A l \in listeners : \A i \in since[l] + 1 .. taken :
          i \in dropped[l] \/ \E k \in 1 .. Len(got[l]) : got[l][k] = i
    BY <1>0, <2>1 DEF NoSkippedListener
  <2>3. \A l \in listeners : \A i \in since[l] + 1 .. taken + 1 :
          i \in since[l] + 1 .. taken \/ i = taken + 1
    BY <1>0
  <2> QED
    BY <2>1, <2>2, <2>3 DEF NoSkippedListener
<1>12. ASSUME NEW l \in Listeners, WorkerVisit(l) PROVE NoSkippedListener'
  BY <1>0, <1>12 DEF WorkerVisit, DeliverInv, NoSkippedListener
<1>13. CASE WorkerRangeEnd
  BY <1>0, <1>13 DEF WorkerRangeEnd, DeliverInv, NoSkippedListener
<1>14. CASE WorkerCheck
  <2>1. IsStopped(lbarrier[target]) => target \notin listeners
    BY <1>14 DEF WorkerCheck, IsStopped, MapInv, IInv, ListenerInv, MadeInv
  <2> QED
    BY <1>0, <1>14, <2>1 DEF WorkerCheck, NoSkippedListener
<1>15. CASE WorkerSend
  <2>1. ~lclosed[target] /\ target \in Listeners
    BY <1>15 DEF WorkerSend, IInv, ListenerInv, MadeInv, DeliverInv
  <2>2. /\ got' = [got EXCEPT ![target] = Append(got[target], cur)]
        /\ ~done /\ target' = None /\ UNCHANGED <<taken, cur, since, dropped, owed, listeners>>
    BY <1>15, <2>1 DEF WorkerSend
  <2>3. /\ \A l \in Listeners \ {target} : got'[l] = got[l]
        /\ Len(got'[target]) = Len(got[target]) + 1 /\ Len(got[target]) \in Nat
        /\ \A i \in 1 .. Len(got[target]) : got'[target][i] = got[target][i]
        /\ got'[target][Len(got[target]) + 1] = cur
    BY <1>0, <2>1, <2>2
  <2>4. ASSUME NEW l \in listeners, NEW i, \E k \in 1 .. Len(got[l]) : got[l][k] = i
        PROVE  \E k \in 1 .. Len(got'[l]) : got'[l][k] = i
    <3>1. PICK k \in 1 .. Len(got[l]) : got[l][k] = i
      BY <2>4
    <3>2. CASE l # target
      <4>1. got'[l] = got[l]
        BY <1>0, <2>3, <3>2
      <4> QED
        BY <3>1, <4>1
    <3>3. CASE l = target
      <4>1. k \in 1 .. Len(got'[target]) /\ got'[target][k] = i
        BY <2>3, <3>1, <3>3
      <4> QED
        BY <3>3, <4>1
    <3> QED
      BY <3>2, <3>3
  <2>5. \E k \in 1 .. Len(got'[target]) : got'[target][k] = cur
    <3>1. Len(got[target]) + 1 \in 1 .. Len(got'[target])
      BY <2>3
    <3> QED
      BY <2>3, <3>1
  <2>6. ASSUME NEW l \in listeners, NEW i \in since[l] + 1 .. taken
        PROVE  \/ \E k \in 1 .. Len(got'[l]) : got'[l][k] = i
               \/ i \in dropped[l]
               \/ i = cur /\ l \in owed
    BY <2>2, <2>4, <2>5, <2>6 DEF NoSkippedListener
  <2> QED
    BY <2>2, <2>6 DEF NoSkippedListener
<1>16. CASE WorkerTimeout
  BY <1>0, <1>16 DEF WorkerTimeout, NoSkippedListener, DeliverInv
<1> QED
  BY <1>2, <1>3, <1>4, <1>5, <1>6, <1>7, <1>8, <1>9, <1>10, <1>11, <1>12, <1>13, <1>14, <1>15, <1>16
     DEF Next, Proceed, WorkerStep

LEMMA InitOrders == Init => OInv
<1> SUFFICES ASSUME Init PROVE OInv
  OBVIOUS
<1>1. DeliverInv
  BY DEF Init, DeliverInv
<1>2. InOrder
  BY DEF Init, InOrder
<1>3. RestartInv /\ MapInv /\ NoSkippedListener
  BY DEF Init, RestartInv, MapInv, NoSkippedListener
<1> QED
  BY <1>1, <1>2, <1>3 DEF OInv

LEMMA OrderInvariance == Spec => [](IInv /\ OInv)
<1>1. Init => IInv /\ OInv
  BY InitEstablishes, InitOrders
<1>2. IInv /\ OInv /\ [Next]_vars => (IInv /\ OInv)'
  BY NextPreserves, NextKeepsOrder, NextKeepsRestart, NextKeepsMap, NextKeepsDeliveries DEF OInv
<1> QED
  BY <1>1, <1>2, PTL DEF Spec

\* Every listener receives in the order of b.c, without repetition and without
\* anything from before its Subscribe, also from a broadcaster that is stopped
\* and started again.
THEOREM DeliveriesInOrder == Spec => []InOrder
<1>1. OInv => InOrder
  BY DEF OInv
<1> QED
  BY <1>1, OrderInvariance, PTL

\* The worker of a live broadcaster passes over no registered listener: Unsubscribe,
\* Stop and Subscribe during its Range notwithstanding.
THEOREM NobodyIsSkipped == Spec => []NoSkippedListener
<1>1. OInv => NoSkippedListener
  BY DEF OInv
<1> QED
  BY <1>1, OrderInvariance, PTL

\* However often it is started again, a broadcaster that was stopped once delivers
\* nothing more: its context stays cancelled.
THEOREM DeadAfterRestart == Spec => RestartDeliversNothing
<1>1. IInv /\ OInv /\ [Next]_vars => [starts > 1 => got' = got]_vars
  <2> SUFFICES ASSUME OInv, Next, starts > 1 PROVE got' = got
    BY DEF vars, lVars
  <2>1. wpc # "send"
    BY DEF OInv, RestartInv
  <2> QED
    BY <2>1 DEF Next, Invoke, InvokeSubscribe, InvokeUnsubscribe, InvokeQuery, InvokeWrite, InvokeReader,
       InvokeStart, InvokeStop, EnterStatusArea, Proceed, Query, Subscribe, Unsubscribe,
       ListenerEnterStatusArea, ListenerStop, Write, WriteSync, WriteSyncReturn, Start, StopCancel,
       StopWait, StopListener, StopEnd, Sender, Send, WriteTimeout, ParentCancel, Receive, WorkerStep,
       WorkerDone, WorkerReceive, WorkerReceiveClosed, WorkerVisit, WorkerRangeEnd, WorkerCheck,
       WorkerSend, WorkerTimeout, lVars
<1> QED
  BY <1>1, OrderInvariance, PTL DEF Spec, RestartDeliversNothing

-----------------------------------------------------------------------------
(* Refinement: a broadcaster that is started once is an OrderedBroadcast.  *)

\* What has been sent on b.c is over for its caller; a message is in the hands
\* of one caller until it is accepted or refused.
LogInv ==
  /\ taken <= Len(log)
  /\ \A i \in 1 .. Len(log) : mstate[log[i]] = "sent"
  /\ \A p \in Callers : pc[p] \in {"Write", "WriteSync"} => mstate[arg[p]] = "called"
  /\ \A p, q \in Callers :
       pc[p] \in {"Write", "WriteSync"} /\ pc[q] \in {"Write", "WriteSync"} /\ p # q => arg[p] # arg[q]

\* With one call of Start there is one start.
StartsInv ==
  MaxStartCalls <= 1 =>
    /\ startCalls <= MaxStartCalls /\ starts <= startCalls
    /\ \A p \in Callers : pc[p] \in {"Start", "startArea"} => startCalls = 1 /\ starts = 0
    /\ \A p, q \in Callers :
         pc[p] \in {"Start", "startArea"} /\ pc[q] \in {"Start", "startArea"} => p = q

LEMMA NextKeepsLog == IInv /\ LogInv /\ [Next]_vars => LogInv'
<1> SUFFICES ASSUME IInv, LogInv, [Next]_vars PROVE LogInv'
  OBVIOUS
<1> USE DEF bVars, lVars, wVars, cVars, hVars, Return, ReturnReader, ReturnWriter
<1>0. /\ pc \in [Callers -> CallerPCs] /\ arg \in [Callers -> Listeners \cup Messages \cup {None}]
      /\ mstate \in [Messages -> {"new", "called", "sending", "sent", "lost", "refused"}]
      /\ taken \in Nat /\ log \in Seq(Messages) /\ Len(log) \in Nat
      /\ \A i \in 1 .. Len(log) : log[i] \in Messages
      /\ \A p \in Callers : pc[p] \in {"Write", "WriteSync"} => arg[p] \in Messages
  BY DEF IInv, TypeOK, ArgInv
<1>1. ASSUME UNCHANGED <<log, mstate>>, taken' = taken \/ (taken < Len(log) /\ taken' = taken + 1),
             \A p \in Callers : pc'[p] \in {"Write", "WriteSync"} =>
               pc[p] \in {"Write", "WriteSync"} /\ arg'[p] = arg[p]
      PROVE  LogInv'
  BY <1>0, <1>1 DEF LogInv
<1>2. CASE UNCHANGED vars
  BY <1>1, <1>2 DEF vars
<1>3. ASSUME NEW p \in Callers, NEW m \in Messages, NEW call \in {"Write", "WriteSync"}, InvokeWrite(p, m, call)
      PROVE  LogInv'
  <2>1. /\ mstate[m] = "new" /\ mstate' = [mstate EXCEPT ![m] = "called"] /\ UNCHANGED <<log, taken>>
        /\ pc' = [pc EXCEPT ![p] = call] /\ arg' = [arg EXCEPT ![p] = m]
    BY <1>3 DEF InvokeWrite, InvokeReader
  <2>2. \A i \in 1 .. Len(log) : log[i] # m
    BY <2>1 DEF LogInv
  <2>3. \A q \in Callers : pc[q] \in {"Write", "WriteSync"} => arg[q] # m
    BY <2>1 DEF LogInv
  <2>4. /\ pc'[p] = call /\ arg'[p] = m /\ mstate'[m] = "called"
        /\ \A q \in Callers \ {p} : pc'[q] = pc[q] /\ arg'[q] = arg[q]
        /\ \A n \in Messages \ {m} : mstate'[n] = mstate[n]
    BY <1>0, <2>1
  <2> QED
    BY <1>0, <2>1, <2>2, <2>3, <2>4 DEF LogInv
<1>4. ASSUME NEW p \in Callers,
             \/ \E l \in Listeners : InvokeSubscribe(p, l) \/ InvokeUnsubscribe(p, l)
             \/ InvokeQuery(p) \/ InvokeStart(p) \/ InvokeStop(p)
      PROVE  LogInv'
  BY <1>0, <1>1, <1>4 DEF InvokeSubscribe, InvokeUnsubscribe, InvokeQuery, InvokeReader, InvokeStart, InvokeStop
<1>5. ASSUME NEW p \in Callers, Write(p) \/ WriteSync(p) PROVE LogInv'
  <2>1. PICK m \in Messages, st \in {"refused", "sending"} :
          m = arg[p] /\ mstate' = [mstate EXCEPT ![m] = st]
    BY <1>0, <1>5 DEF Write, WriteSync
  <2>2. /\ pc[p] \in {"Write", "WriteSync"} /\ pc'[p] \notin {"Write", "WriteSync"}
        /\ UNCHANGED <<log, taken>>
        /\ \A q \in Callers \ {p} : pc'[q] = pc[q] /\ arg'[q] = arg[q]
    BY <1>0, <1>5 DEF Write, WriteSync
  <2>3. \A i \in 1 .. Len(log) : log[i] # m
    BY <2>1, <2>2 DEF LogInv
  <2>4. \A n \in Messages \ {m} : mstate'[n] = mstate[n]
    BY <1>0, <2>1
  <2>5. \A q \in Callers : pc'[q] \in {"Write", "WriteSync"} => q # p /\ arg[q] # m
    BY <2>1, <2>2 DEF LogInv
  <2> QED
    BY <1>0, <2>2, <2>3, <2>4, <2>5 DEF LogInv
<1>6. ASSUME NEW p \in Callers,
             \/ EnterStatusArea(p) \/ Query(p) \/ Subscribe(p) \/ Unsubscribe(p)
             \/ ListenerEnterStatusArea(p) \/ ListenerStop(p)
      PROVE  LogInv'
  BY <1>0, <1>1, <1>6 DEF EnterStatusArea, Query, Subscribe, Unsubscribe, ListenerEnterStatusArea, ListenerStop
<1>7. ASSUME NEW p \in Callers,
             \/ WriteSyncReturn(p) \/ Start(p) \/ StopCancel(p) \/ StopWait(p) \/ StopEnd(p)
             \/ \E l \in Listeners : StopListener(p, l)
      PROVE  LogInv'
  BY <1>0, <1>1, <1>7 DEF WriteSyncReturn, Start, StopCancel, StopWait, StopEnd, StopListener
<1>8. ASSUME NEW m \in Messages, Send(m) PROVE LogInv'
  <2>1. /\ mstate[m] = "sending" /\ mstate' = [mstate EXCEPT ![m] = "sent"]
        /\ log' = log \/ log' = Append(log, m)
        /\ UNCHANGED <<taken, pc, arg>>
    BY <1>8 DEF Send
  <2>2. \A i \in 1 .. Len(log') : mstate'[log'[i]] = "sent"
    <3>1. CASE log' = log
      BY <1>0, <2>1, <3>1 DEF LogInv
    <3>2. CASE log' = Append(log, m)
      <4>1. \A i \in 1 .. Len(log') : (i \in 1 .. Len(log) /\ log'[i] = log[i]) \/ log'[i] = m
        BY <1>0, <3>2
      <4> QED
        BY <1>0, <2>1, <4>1 DEF LogInv
    <3> QED
      BY <2>1, <3>1, <3>2
  <2>3. Len(log) <= Len(log')
    BY <1>0, <2>1
  <2>4. taken' <= Len(log')
    BY <1>0, <2>1, <2>3 DEF LogInv
  <2>5. \A p \in Callers : pc[p] \in {"Write", "WriteSync"} => arg[p] # m
    BY <2>1 DEF LogInv
  <2> QED
    BY <1>0, <2>1, <2>2, <2>4, <2>5 DEF LogInv
<1>9. ASSUME NEW m \in Messages, WriteTimeout(m) PROVE LogInv'
  <2>1. mstate[m] = "sending" /\ mstate' = [mstate EXCEPT ![m] = "lost"] /\ UNCHANGED <<log, taken, pc, arg>>
    BY <1>9 DEF WriteTimeout
  <2>2. \A n \in Messages \ {m} : mstate'[n] = mstate[n]
    BY <1>0, <2>1
  <2>3. /\ \A i \in 1 .. Len(log) : log[i] # m
        /\ \A p \in Callers : pc[p] \in {"Write", "WriteSync"} => arg[p] # m
    BY <2>1 DEF LogInv
  <2> QED
    BY <1>0, <2>1, <2>2, <2>3 DEF LogInv
<1>10. CASE ParentCancel \/ \E l \in Listeners : Receive(l)
  BY <1>1, <1>10 DEF ParentCancel, Receive
<1>11. CASE WorkerStep
  BY <1>1, <1>11 DEF WorkerStep, WorkerDone, WorkerReceive, WorkerReceiveClosed, WorkerVisit,
     WorkerRangeEnd, WorkerCheck, WorkerSend, WorkerTimeout
<1> QED
  BY <1>2, <1>3, <1>4, <1>5, <1>6, <1>7, <1>8, <1>9, <1>10, <1>11 DEF Next, Invoke, Proceed, Sender

LEMMA NextKeepsStarts == IInv /\ StartsInv /\ [Next]_vars => StartsInv'
<1> SUFFICES ASSUME IInv, StartsInv, [Next]_vars, MaxStartCalls <= 1 PROVE StartsInv'
  BY DEF StartsInv
<1> USE DEF bVars, lVars, wVars, cVars, hVars, Return, ReturnReader, ReturnWriter
<1>0. /\ pc \in [Callers -> CallerPCs] /\ starts \in Nat /\ startCalls \in Nat /\ MaxStartCalls \in Nat
  BY Disjoint DEF IInv, TypeOK
<1>1. ASSUME UNCHANGED <<starts, startCalls>>,
             \A p \in Callers : pc'[p] \in {"Start", "startArea"} => pc[p] \in {"Start", "startArea"}
      PROVE  StartsInv'
  BY <1>1 DEF StartsInv
<1>2. CASE UNCHANGED vars
  BY <1>1, <1>2 DEF vars
<1>3. ASSUME NEW p \in Callers, InvokeStart(p) PROVE StartsInv'
  BY <1>0, <1>3 DEF InvokeStart, StartsInv
<1>4. ASSUME NEW p \in Callers, Start(p) PROVE StartsInv'
  BY <1>0, <1>4 DEF Start, StartsInv
<1>5. ASSUME NEW p \in Callers,
             \/ \E l \in Listeners : InvokeSubscribe(p, l) \/ InvokeUnsubscribe(p, l)
             \/ \E m \in Messages, call \in {"Write", "WriteSync"} : InvokeWrite(p, m, call)
             \/ InvokeQuery(p) \/ InvokeStop(p)
      PROVE  StartsInv'
  BY <1>0, <1>1, <1>5 DEF InvokeSubscribe, InvokeUnsubscribe, InvokeQuery, InvokeWrite, InvokeReader, InvokeStop
<1>6. ASSUME NEW p \in Callers,
             \/ EnterStatusArea(p) \/ Query(p) \/ Subscribe(p) \/ Unsubscribe(p)
             \/ ListenerEnterStatusArea(p) \/ ListenerStop(p)
      PROVE  StartsInv'
  BY <1>0, <1>1, <1>6 DEF EnterStatusArea, Query, Subscribe, Unsubscribe, ListenerEnterStatusArea, ListenerStop
<1>7. ASSUME NEW p \in Callers,
             \/ Write(p) \/ WriteSync(p) \/ WriteSyncReturn(p)
             \/ StopCancel(p) \/ StopWait(p) \/ StopEnd(p) \/ \E l \in Listeners : StopListener(p, l)
      PROVE  StartsInv'
  BY <1>0, <1>1, <1>7 DEF Write, WriteSync, WriteSyncReturn, StopCancel, StopWait, StopEnd, StopListener
<1>8. CASE ParentCancel \/ (\E m \in Messages : Sender(m)) \/ (\E l \in Listeners : Receive(l))
  BY <1>1, <1>8 DEF ParentCancel, Sender, Send, WriteTimeout, Receive
<1>9. CASE WorkerStep
  BY <1>1, <1>9 DEF WorkerStep, WorkerDone, WorkerReceive, WorkerReceiveClosed, WorkerVisit,
     WorkerRangeEnd, WorkerCheck, WorkerSend, WorkerTimeout
<1> QED
  BY <1>2, <1>3, <1>4, <1>5, <1>6, <1>7, <1>8, <1>9 DEF Next, Invoke, Proceed

\* A broadcaster that is started, and has been once, has b.c open.
LEMMA OpenWhileStarted ==
  ASSUME IInv, StartsInv, MaxStartCalls <= 1, barrier.started PROVE ~bclosed
<1>1. starts \in Nat /\ startCalls \in Nat /\ MaxStartCalls \in Nat
  BY Disjoint DEF Disjoint, IInv, TypeOK
<1>2. starts <= startCalls /\ startCalls <= MaxStartCalls
  BY DEF StartsInv
<1>3. ~(starts > 1)
  BY <1>1, <1>2
<1> QED
  BY <1>3 DEF IInv, ChannelInv

\* Steps that a client cannot see.
LEMMA Stutter ==
  ASSUME UNCHANGED <<log, got, lclosed, made, bclosed>> PROVE UNCHANGED Ordered!vars
  BY DEF Ordered!vars, ListenerStatus

\* A message is accepted.
LEMMA SendPublishes ==
  ASSUME IInv, LogInv, StartsInv, MaxStartCalls <= 1, NEW m \in Messages, Send(m)
  PROVE  Ordered!Publish(m)
<1>1. mstate[m] = "sending" /\ barrier.started
  BY DEF Send, IInv, BarrierInv
<1>2. ~bclosed
  BY <1>1, OpenWhileStarted
<1>3. \A i \in 1 .. Len(log) : log[i] # m
  BY <1>1 DEF LogInv
<1> QED
  BY <1>2, <1>3 DEF Send, Ordered!Publish, ListenerStatus, lVars

\* A listener is handed out, or Subscribe is refused.
LEMMA SubscribeJoins ==
  ASSUME IInv, StartsInv, MaxStartCalls <= 1, NEW p \in Callers, Subscribe(p)
  PROVE  Ordered!Join(arg[p]) \/ UNCHANGED Ordered!vars
<1>1. CASE IsStopped(barrier)
  BY <1>1, Stutter DEF Subscribe
<1>2. CASE ~IsStopped(barrier)
  <2>1. /\ arg[p] \in Listeners /\ arg[p] \notin made /\ ~lclosed[arg[p]]
    BY DEF Subscribe, IInv, ArgInv, MadeInv, ListenerInv
  <2>2. ~bclosed
    BY <1>2, OpenWhileStarted DEF IsStopped
  <2>3. made' = made \cup {arg[p]} /\ UNCHANGED <<log, got, lclosed, bclosed>>
    BY <1>2 DEF Subscribe
  <2>4. ListenerStatus' = [ListenerStatus EXCEPT ![arg[p]] = "open"]
    BY <2>1, <2>3 DEF ListenerStatus
  <2>5. ListenerStatus[arg[p]] = "new"
    BY <2>1 DEF ListenerStatus
  <2> QED
    BY <2>2, <2>3, <2>4, <2>5 DEF Ordered!Join
<1> QED
  BY <1>1, <1>2

\* The channel of an open listener is closed.
LEMMA CloseLeaves ==
  ASSUME NEW l \in Listeners, l \in made, lclosed \in [Listeners -> BOOLEAN], ~lclosed[l],
         lclosed' = [lclosed EXCEPT ![l] = TRUE], UNCHANGED <<log, got, made, bclosed>>
  PROVE  Ordered!Leave(l)
<1>1. ListenerStatus[l] = "open"
  BY DEF ListenerStatus
<1>2. ListenerStatus' = [ListenerStatus EXCEPT ![l] = "closed"]
  BY DEF ListenerStatus
<1> QED
  BY <1>1, <1>2 DEF Ordered!Leave

LEMMA ListenerStopLeaves ==
  ASSUME IInv, NEW p \in Callers, ListenerStop(p)
  PROVE  Ordered!Leave(arg[p]) \/ UNCHANGED Ordered!vars
<1>1. arg[p] \in made /\ made \subseteq Listeners /\ lclosed \in [Listeners -> BOOLEAN]
  BY DEF ListenerStop, IInv, TypeOK, MadeInv
<1>2. CASE IsStopped(lbarrier[arg[p]])
  BY <1>2, Stutter DEF ListenerStop
<1>3. CASE ~IsStopped(lbarrier[arg[p]])
  <2>1. ~lclosed[arg[p]]
    BY <1>1, <1>3 DEF IInv, ListenerInv, IsStopped
  <2>2. lclosed' = [lclosed EXCEPT ![arg[p]] = TRUE] /\ UNCHANGED <<log, got, made, bclosed>>
    BY <1>3 DEF ListenerStop
  <2> QED
    BY <1>1, <2>1, <2>2, CloseLeaves
<1> QED
  BY <1>2, <1>3

LEMMA StopListenerLeaves ==
  ASSUME IInv, MapInv, NEW p \in Callers, NEW l \in Listeners, StopListener(p, l)
  PROVE  Ordered!Leave(l)
<1>1. l \in made /\ ~lclosed[l] /\ lclosed \in [Listeners -> BOOLEAN] /\ ~IsStopped(lbarrier[l])
  BY DEF StopListener, IInv, TypeOK, MadeInv, MapInv, ListenerInv, IsStopped
<1>2. lclosed' = [lclosed EXCEPT ![l] = TRUE] /\ UNCHANGED <<log, got, made, bclosed>>
  BY <1>1 DEF StopListener
<1> QED
  BY <1>1, <1>2, CloseLeaves

\* Stop closes b.c when every listener is closed.
LEMMA StopEndEnds ==
  ASSUME IInv, StartsInv, MaxStartCalls <= 1, NEW p \in Callers, StopEnd(p) PROVE Ordered!End
<1>1. barrier.readers = {} /\ barrier.started /\ listeners = {}
  BY DEF StopEnd, IInv, BarrierInv
<1>2. \A l \in made : lclosed[l]
  BY <1>1 DEF IInv, BarrierInv, OpenInv
<1>3. \A l \in Listeners : ListenerStatus[l] # "open"
  BY <1>2 DEF ListenerStatus
<1>4. ~bclosed
  BY <1>1, OpenWhileStarted
<1>5. bclosed' /\ UNCHANGED <<log, got, ListenerStatus>>
  BY DEF StopEnd, lVars, ListenerStatus
<1> QED
  BY <1>3, <1>4, <1>5 DEF Ordered!End, StopEnd

\* The worker delivers what it took last.
LEMMA WorkerSendDelivers ==
  ASSUME IInv, DeliverInv, LogInv, WorkerSend PROVE Ordered!Deliver(target)
<1>1. /\ target \in Listeners /\ target \in made /\ ~lclosed[target]
      /\ cur = taken /\ taken \in Nat /\ taken > 0 /\ taken <= Len(log) /\ Len(log) \in Nat
      /\ \A k \in 1 .. Len(got[target]) : got[target][k] < cur
  BY DEF WorkerSend, DeliverInv, IInv, TypeOK, MadeInv, ListenerInv, LogInv
<1>2. cur \in 1 .. Len(log)
  BY <1>1
<1>3. got' = [got EXCEPT ![target] = Append(got[target], cur)] /\ UNCHANGED <<log, bclosed, ListenerStatus>>
  BY <1>1 DEF WorkerSend, bVars, ListenerStatus
<1>4. ListenerStatus[target] = "open"
  BY <1>1 DEF ListenerStatus
<1> QED
  BY <1>1, <1>2, <1>3, <1>4 DEF Ordered!Deliver

LEMMA NextImplements ==
  ASSUME IInv, OInv, LogInv, StartsInv, MaxStartCalls <= 1, [Next]_vars
  PROVE  [Ordered!Next]_(Ordered!vars)
<1> USE DEF bVars, lVars, wVars, cVars, hVars, Return, ReturnReader, ReturnWriter
<1>1. CASE UNCHANGED vars
  BY <1>1, Stutter DEF vars
<1>2. ASSUME NEW p \in Callers, Invoke(p) PROVE UNCHANGED Ordered!vars
  BY <1>2, Stutter DEF Invoke, InvokeSubscribe, InvokeUnsubscribe, InvokeQuery, InvokeWrite,
     InvokeReader, InvokeStart, InvokeStop
<1>3. ASSUME NEW p \in Callers,
             \/ EnterStatusArea(p) \/ Query(p) \/ Unsubscribe(p) \/ ListenerEnterStatusArea(p)
             \/ Write(p) \/ WriteSync(p) \/ WriteSyncReturn(p)
             \/ Start(p) \/ StopCancel(p) \/ StopWait(p)
      PROVE  UNCHANGED Ordered!vars
  BY <1>3, Stutter DEF EnterStatusArea, Query, Unsubscribe, ListenerEnterStatusArea, Write, WriteSync,
     WriteSyncReturn, Start, StopCancel, StopWait
<1>4. ASSUME NEW p \in Callers, Subscribe(p) PROVE [Ordered!Next]_(Ordered!vars)
  <2>1. arg[p] \in Listeners
    BY <1>4 DEF Subscribe, IInv, ArgInv
  <2> QED
    BY <1>4, <2>1, SubscribeJoins DEF Ordered!Next
<1>5. ASSUME NEW p \in Callers, ListenerStop(p) PROVE [Ordered!Next]_(Ordered!vars)
  <2>1. arg[p] \in Listeners
    BY <1>5 DEF ListenerStop, IInv, ArgInv
  <2> QED
    BY <1>5, <2>1, ListenerStopLeaves DEF Ordered!Next
<1>6. ASSUME NEW p \in Callers, NEW l \in Listeners, StopListener(p, l) PROVE Ordered!Next
  BY <1>6, StopListenerLeaves DEF Ordered!Next, OInv
<1>7. ASSUME NEW p \in Callers, StopEnd(p) PROVE Ordered!Next
  BY <1>7, StopEndEnds DEF Ordered!Next
<1>8. ASSUME NEW m \in Messages, Send(m) PROVE Ordered!Next
  BY <1>8, SendPublishes DEF Ordered!Next
<1>9. CASE WorkerSend
  <2>1. target \in Listeners
    BY <1>9 DEF WorkerSend, OInv, DeliverInv
  <2> QED
    BY <1>9, <2>1, WorkerSendDelivers DEF Ordered!Next, OInv
<1>10. CASE ParentCancel \/ (\E m \in Messages : WriteTimeout(m)) \/ (\E l \in Listeners : Receive(l))
  BY <1>10, Stutter DEF ParentCancel, WriteTimeout, Receive
<1>11. CASE \/ WorkerDone \/ WorkerReceive \/ WorkerReceiveClosed \/ (\E l \in Listeners : WorkerVisit(l))
            \/ WorkerRangeEnd \/ WorkerCheck \/ WorkerTimeout
  BY <1>11, Stutter DEF WorkerDone, WorkerReceive, WorkerReceiveClosed, WorkerVisit, WorkerRangeEnd,
     WorkerCheck, WorkerTimeout
<1> QED
  BY <1>1, <1>2, <1>3, <1>4, <1>5, <1>6, <1>7, <1>8, <1>9, <1>10, <1>11
     DEF Next, Proceed, Sender, WorkerStep

\* Started once, by any number of callers that race for everything else, the
\* broadcaster looks to its clients like the atomic broadcast: worker, barriers
\* and goroutines of Write implement it step by step.
THEOREM ImplementsOrderedBroadcast == MaxStartCalls <= 1 => (Spec => RefinesOrderedBroadcast)
<1> SUFFICES ASSUME MaxStartCalls <= 1 PROVE Spec => RefinesOrderedBroadcast
  OBVIOUS
<1>1. Init => LogInv /\ StartsInv /\ Ordered!Init
  BY Disjoint DEF Init, LogInv, StartsInv, Ordered!Init, ListenerStatus
<1>2. IInv /\ LogInv /\ StartsInv /\ [Next]_vars => LogInv' /\ StartsInv'
  BY NextKeepsLog, NextKeepsStarts
<1>3. IInv /\ OInv /\ LogInv /\ StartsInv /\ [Next]_vars => [Ordered!Next]_(Ordered!vars)
  BY NextImplements
<1> QED
  BY <1>1, <1>2, <1>3, OrderInvariance, PTL DEF Spec, RefinesOrderedBroadcast, Ordered!Spec

-----------------------------------------------------------------------------
(* Who waits for whom. *)

\* Who holds the barrier of the broadcaster, and who waits at it.
LockInv ==
  /\ \A p \in Callers : pc[p] \in ReaderCalls => p \in barrier.readers \cup barrier.waiting
  /\ \A g \in barrier.readers :
       \/ g \in Callers /\ pc[g] \in ReaderCalls \cup {"lstop", "lstopArea"}
       \/ g \in Messages /\ mstate[g] = "sending"
  /\ \A g \in barrier.waiting : g \in Callers /\ pc[g] \in ReaderCalls /\ g \notin barrier.readers
  /\ barrier.waiting # {} => barrier.writer # {}
  /\ barrier.writer \subseteq Callers

\* The same for the barrier of a listener, where only the worker reads.
ListenerLockInv ==
  /\ \A p \in Callers : pc[p] = "lstopArea" => lbarrier[arg[p]].writer = {p}
  /\ \A l \in Listeners :
       /\ \A g \in lbarrier[l].writer : g \in Callers /\ pc[g] = "lstopArea" /\ arg[g] = l
       /\ \A g \in lbarrier[l].readers \cup lbarrier[l].waiting :
            g = Worker /\ wpc \in {"write", "send"} /\ target = l
       /\ lbarrier[l].waiting \cap lbarrier[l].readers = {}
       /\ lbarrier[l].waiting # {} => lbarrier[l].writer # {}
  /\ wpc = "write" => Worker \in lbarrier[target].readers \cup lbarrier[target].waiting

\* Stop waits for the worker of a cancelled context, Range has somebody to visit or is over,
\* and WriteSync waits for a message that is on its way or has an outcome.
TurnInv ==
  /\ \A p \in Callers : pc[p] \in {"stopWait", "stopRange"} => done
  /\ wpc \in {"range", "write", "send"} => owed \subseteq reach
  /\ \A p \in Callers : pc[p] = "sending" => mstate[arg[p]] \in {"sending", "sent", "lost"}

\* Where a call has the read lock, or waits for it.
InLock == ReaderCalls \cup {"lstop", "lstopArea"}

\* RLock, at a barrier that is free of writers or not.
LEMMA EnterFacts ==
  ASSUME NEW b \in Barriers(Goroutines), NEW g
  PROVE  /\ Entering(b, g).readers = IF b.writer = {} THEN b.readers \cup {g} ELSE b.readers
         /\ Entering(b, g).waiting = IF b.writer = {} THEN b.waiting ELSE b.waiting \cup {g}
         /\ Entering(b, g).writer = b.writer
  BY DEF Entering, Barriers

\* RUnlock, and the read lock that changes hands.
LEMMA LeaveFacts ==
  ASSUME NEW b \in Barriers(Goroutines), NEW g
  PROVE  Out(b, g).readers = b.readers \ {g} /\ Out(b, g).waiting = b.waiting /\ Out(b, g).writer = b.writer
  BY DEF Out, Barriers

LEMMA HandFacts ==
  ASSUME NEW b \in Barriers(Goroutines), NEW g, NEW h
  PROVE  /\ HandOver(b, g, h).readers = (b.readers \ {g}) \cup {h}
         /\ HandOver(b, g, h).waiting = b.waiting /\ HandOver(b, g, h).writer = b.writer
  BY DEF HandOver, Barriers

\* The two halves of Lock and Unlock.
LEMMA AnnounceFacts ==
  ASSUME NEW b \in Barriers(Goroutines), NEW g
  PROVE  /\ EnteringStatusArea(b, g).readers = b.readers
         /\ EnteringStatusArea(b, g).waiting = b.waiting /\ EnteringStatusArea(b, g).writer = {g}
  BY DEF EnteringStatusArea, Barriers

LEMMA UnlockFacts ==
  ASSUME NEW b \in Barriers(Goroutines)
  PROVE  /\ OutOfStatusArea(b).readers = b.waiting
         /\ OutOfStatusArea(b).waiting = {} /\ OutOfStatusArea(b).writer = {}
  BY DEF OutOfStatusArea, Barriers

\* The flag has no part in it.
LEMMA FlagFacts ==
  ASSUME NEW b \in Barriers(Goroutines)
  PROVE  /\ MarkStarted(b) \in Barriers(Goroutines) /\ MarkStopped(b) \in Barriers(Goroutines)
         /\ MarkStarted(b).readers = b.readers /\ MarkStopped(b).readers = b.readers
         /\ MarkStarted(b).waiting = b.waiting /\ MarkStopped(b).waiting = b.waiting
         /\ MarkStarted(b).writer = b.writer /\ MarkStopped(b).writer = b.writer
         /\ newStatusBarrier \in Barriers(Goroutines)
         /\ newStatusBarrier.readers = {} /\ newStatusBarrier.waiting = {} /\ newStatusBarrier.writer = {}
  BY DEF MarkStarted, MarkStopped, newStatusBarrier, Barriers

\* Nobody enters or leaves.
LEMMA LockAside ==
  ASSUME LockInv, UNCHANGED barrier,
         \A q \in Callers : /\ pc'[q] \in ReaderCalls => pc[q] = pc'[q]
                            /\ pc[q] \in InLock => pc'[q] = pc[q] \/ (q \in barrier.readers /\ pc'[q] \in InLock),
         \A m \in Messages : mstate[m] = "sending" => mstate'[m] = "sending"
  PROVE  LockInv'
  BY DEF LockInv, InLock

\* RLock.
LEMMA LockEnter ==
  ASSUME IInv, LockInv, NEW p \in Callers, pc[p] \notin InLock, pc'[p] \in ReaderCalls,
         barrier' = Entering(barrier, p),
         \A q \in Callers \ {p} : pc'[q] = pc[q],
         \A m \in Messages : mstate[m] = "sending" => mstate'[m] = "sending"
  PROVE  LockInv'
<1>1. barrier \in Barriers(Goroutines)
  BY BarrierTypes
<1>2. p \notin barrier.readers /\ p \notin barrier.waiting
  BY Disjoint DEF LockInv, InLock
<1>3. /\ barrier'.readers = IF barrier.writer = {} THEN barrier.readers \cup {p} ELSE barrier.readers
      /\ barrier'.waiting = IF barrier.writer = {} THEN barrier.waiting ELSE barrier.waiting \cup {p}
      /\ barrier'.writer = barrier.writer
  BY <1>1, EnterFacts
<1>4. CASE barrier.writer = {}
  BY <1>2, <1>3, <1>4 DEF LockInv
<1>5. CASE barrier.writer # {}
  BY <1>2, <1>3, <1>5 DEF LockInv
<1> QED
  BY <1>4, <1>5

\* RUnlock by a call.
LEMMA LockLeave ==
  ASSUME IInv, LockInv, NEW p \in Callers, p \in barrier.readers, pc'[p] \notin InLock,
         barrier' = Out(barrier, p),
         \A q \in Callers \ {p} : pc'[q] = pc[q],
         \A m \in Messages : mstate[m] = "sending" => mstate'[m] = "sending"
  PROVE  LockInv'
<1>1. barrier'.readers = barrier.readers \ {p} /\ barrier'.waiting = barrier.waiting
      /\ barrier'.writer = barrier.writer
  BY BarrierTypes, LeaveFacts
<1>2. p \notin barrier.waiting /\ p \notin Messages /\ pc'[p] \notin ReaderCalls
  BY Disjoint DEF LockInv, InLock
<1>3. \A q \in Callers : pc'[q] \in ReaderCalls => q \in barrier'.readers \cup barrier'.waiting
  BY <1>1, <1>2 DEF LockInv
<1>4. ASSUME NEW g \in barrier'.readers
      PROVE  (g \in Callers /\ pc'[g] \in InLock) \/ (g \in Messages /\ mstate'[g] = "sending")
  BY <1>1, <1>4 DEF LockInv, InLock
<1>5. ASSUME NEW g \in barrier'.waiting
      PROVE  g \in Callers /\ pc'[g] \in ReaderCalls /\ g \notin barrier'.readers
  BY <1>1, <1>2, <1>5 DEF LockInv
<1> QED
  BY <1>1, <1>3, <1>4, <1>5 DEF LockInv, InLock

\* RUnlock by the goroutine of Write, or by WriteSync when its select is over.
LEMMA LockSent ==
  ASSUME IInv, LockInv, NEW m \in Messages, barrier' = Out(barrier, m), UNCHANGED pc,
         \A n \in Messages \ {m} : mstate[n] = "sending" => mstate'[n] = "sending"
  PROVE  LockInv'
<1>1. barrier'.readers = barrier.readers \ {m} /\ barrier'.waiting = barrier.waiting
      /\ barrier'.writer = barrier.writer
  BY BarrierTypes, LeaveFacts
<1> QED
  BY <1>1, Disjoint DEF LockInv, InLock

\* The read lock of Write goes to its goroutine.
LEMMA LockHandOver ==
  ASSUME IInv, LockInv, NEW p \in Callers, p \in barrier.readers, pc'[p] \notin InLock,
         NEW m \in Messages, barrier' = HandOver(barrier, p, m), mstate'[m] = "sending",
         \A q \in Callers \ {p} : pc'[q] = pc[q],
         \A n \in Messages : mstate[n] = "sending" => mstate'[n] = "sending"
  PROVE  LockInv'
<1>1. barrier'.readers = (barrier.readers \ {p}) \cup {m} /\ barrier'.waiting = barrier.waiting
      /\ barrier'.writer = barrier.writer
  BY BarrierTypes, HandFacts
<1> QED
  BY <1>1, Disjoint DEF LockInv, InLock

\* Unlock: whoever waited is in.
LEMMA LockRelease ==
  ASSUME LockInv, NEW p \in Callers, pc[p] \in StatusAreaPCs, pc'[p] \notin InLock,
         barrier.readers = {},
         NEW b \in Barriers(Goroutines), b.waiting = barrier.waiting, barrier' = OutOfStatusArea(b),
         \A q \in Callers \ {p} : pc'[q] = pc[q]
  PROVE  LockInv'
<1>1. barrier'.readers = barrier.waiting /\ barrier'.waiting = {} /\ barrier'.writer = {}
  BY UnlockFacts
<1>2. p \notin barrier.waiting
  BY DEF LockInv, StatusAreaPCs, ReaderCalls
<1> QED
  BY <1>1, <1>2, Disjoint DEF LockInv, InLock, StatusAreaPCs, ReaderCalls

\* Every step moves the goroutines it names, and only them, at this barrier.
LEMMA NextKeepsLock == IInv /\ LockInv /\ [Next]_vars => LockInv'
<1> SUFFICES ASSUME IInv, LockInv, [Next]_vars PROVE LockInv'
  OBVIOUS
<1> USE DEF bVars, lVars, wVars, cVars, hVars, Return, ReturnReader, ReturnWriter
<1>0. /\ pc \in [Callers -> CallerPCs] /\ arg \in [Callers -> Listeners \cup Messages \cup {None}]
      /\ mstate \in [Messages -> {"new", "called", "sending", "sent", "lost", "refused"}]
      /\ barrier \in Barriers(Goroutines)
      /\ \A p \in Callers : pc[p] \in {"Write", "WriteSync"} => arg[p] \in Messages
  BY DEF IInv, TypeOK, ArgInv
<1>1. CASE UNCHANGED vars
  BY <1>1, LockAside DEF vars
<1>2. ASSUME NEW p \in Callers, Invoke(p) PROVE LockInv'
  <2>1. pc[p] \notin InLock
    BY <1>2 DEF Invoke, InvokeSubscribe, InvokeUnsubscribe, InvokeQuery, InvokeWrite, InvokeReader,
       InvokeStart, InvokeStop, InLock, ReaderCalls
  <2>2. \A m \in Messages : mstate[m] = "sending" => mstate'[m] = "sending"
    BY <1>0, <1>2 DEF Invoke, InvokeSubscribe, InvokeUnsubscribe, InvokeQuery, InvokeWrite, InvokeReader,
       InvokeStart, InvokeStop
  <2>3. CASE InvokeStart(p) \/ InvokeStop(p)
    <3>1. UNCHANGED barrier /\ pc'[p] \notin ReaderCalls /\ \A q \in Callers \ {p} : pc'[q] = pc[q]
      BY <1>0, <2>3 DEF InvokeStart, InvokeStop, ReaderCalls
    <3> QED
      BY <2>1, <2>2, <3>1, LockAside
  <2>4. ASSUME NEW call \in ReaderCalls, NEW x, InvokeReader(p, call, x) PROVE LockInv'
    <3>1. pc'[p] = call /\ barrier' = Entering(barrier, p) /\ \A q \in Callers \ {p} : pc'[q] = pc[q]
      BY <1>0, <2>4 DEF InvokeReader
    <3> QED
      BY <2>1, <2>2, <3>1, LockEnter
  <2> QED
    BY <1>2, <2>3, <2>4 DEF Invoke, InvokeSubscribe, InvokeUnsubscribe, InvokeQuery, InvokeWrite, ReaderCalls
<1>3. ASSUME NEW p \in Callers, EnterStatusArea(p) PROVE LockInv'
  <2>1. /\ barrier'.readers = barrier.readers /\ barrier'.waiting = barrier.waiting /\ barrier'.writer = {p}
        /\ pc[p] \notin InLock /\ pc'[p] \notin InLock /\ \A q \in Callers \ {p} : pc'[q] = pc[q]
        /\ UNCHANGED mstate
    BY <1>0, <1>3, AnnounceFacts DEF EnterStatusArea, InLock, ReaderCalls
  <2> QED
    BY <2>1, Disjoint DEF LockInv, InLock
<1>4. ASSUME NEW p \in Callers, p \in barrier.readers, barrier' = Out(barrier, p),
             pc' = [pc EXCEPT ![p] = "idle"], UNCHANGED mstate
      PROVE  LockInv'
  <2>1. pc'[p] \notin InLock /\ \A q \in Callers \ {p} : pc'[q] = pc[q]
    BY <1>0, <1>4 DEF InLock, ReaderCalls
  <2> QED
    BY <1>4, <2>1, LockLeave
<1>5. ASSUME NEW p \in Callers, Query(p) \/ Subscribe(p) PROVE LockInv'
  BY <1>4, <1>5 DEF Query, Subscribe
<1>6. ASSUME NEW p \in Callers, Unsubscribe(p) PROVE LockInv'
  <2>1. CASE IsStopped(barrier) \/ arg[p] \notin listeners
    BY <1>4, <1>6, <2>1 DEF Unsubscribe
  <2>2. CASE ~IsStopped(barrier) /\ arg[p] \in listeners
    <3>1. /\ p \in barrier.readers /\ UNCHANGED <<barrier, mstate>>
          /\ pc[p] = "Unsubscribe" /\ pc'[p] = "lstop" /\ \A q \in Callers \ {p} : pc'[q] = pc[q]
      BY <1>0, <1>6, <2>2 DEF Unsubscribe
    <3> QED
      BY <3>1, LockAside DEF InLock, ReaderCalls
  <2> QED
    BY <2>1, <2>2
<1>7. ASSUME NEW p \in Callers, ListenerEnterStatusArea(p) PROVE LockInv'
  <2>1. /\ p \in barrier.readers /\ UNCHANGED <<barrier, mstate>>
        /\ pc[p] = "lstop" /\ pc'[p] = "lstopArea" /\ \A q \in Callers \ {p} : pc'[q] = pc[q]
    BY <1>0, <1>7 DEF ListenerEnterStatusArea, IInv, BarrierInv
  <2> QED
    BY <2>1, LockAside DEF InLock, ReaderCalls
<1>8. ASSUME NEW p \in Callers, ListenerStop(p) PROVE LockInv'
  <2>1. p \in barrier.readers
    BY <1>8 DEF ListenerStop, IInv, BarrierInv
  <2> QED
    BY <1>4, <1>8, <2>1 DEF ListenerStop
<1>9. ASSUME NEW p \in Callers, Write(p) \/ WriteSync(p) PROVE LockInv'
  <2>1. PICK m \in Messages : m = arg[p] /\ p \in barrier.readers
    BY <1>0, <1>9 DEF Write, WriteSync
  <2>2. pc'[p] \notin InLock /\ \A q \in Callers \ {p} : pc'[q] = pc[q]
    BY <1>0, <1>9 DEF Write, WriteSync, InLock, ReaderCalls
  <2>3. CASE IsStopped(barrier)
    <3>1. barrier' = Out(barrier, p)
      BY <1>9, <2>3 DEF Write, WriteSync
    <3>2. \A n \in Messages : mstate[n] # "sending"
      BY <2>3 DEF IInv, BarrierInv, IsStopped
    <3> QED
      BY <2>1, <2>2, <3>1, <3>2, LockLeave
  <2>4. CASE ~IsStopped(barrier)
    <3>1. barrier' = HandOver(barrier, p, m) /\ mstate' = [mstate EXCEPT ![m] = "sending"]
      BY <1>9, <2>1, <2>4 DEF Write, WriteSync
    <3>2. mstate'[m] = "sending" /\ \A n \in Messages : mstate[n] = "sending" => mstate'[n] = "sending"
      BY <1>0, <3>1
    <3> QED
      BY <2>1, <2>2, <3>1, <3>2, LockHandOver
  <2> QED
    BY <2>3, <2>4
<1>10. ASSUME NEW p \in Callers, WriteSyncReturn(p) \/ StopWait(p) \/ \E l \in Listeners : StopListener(p, l)
       PROVE  LockInv'
  <2>1. /\ UNCHANGED <<barrier, mstate>> /\ pc[p] \notin InLock /\ pc'[p] \notin ReaderCalls
        /\ \A q \in Callers \ {p} : pc'[q] = pc[q]
    BY <1>0, <1>10 DEF WriteSyncReturn, StopWait, StopListener, InLock, ReaderCalls
  <2> QED
    BY <2>1, LockAside
<1>11. ASSUME NEW p \in Callers, Start(p) \/ StopCancel(p) \/ StopEnd(p) PROVE LockInv'
  <2>1. /\ pc[p] \in StatusAreaPCs /\ barrier.readers = {} /\ UNCHANGED mstate
        /\ pc[p] \notin InLock /\ \A q \in Callers \ {p} : pc'[q] = pc[q]
    BY <1>0, <1>11 DEF Start, StopCancel, StopEnd, StatusAreaPCs, InStatusArea, IInv, BarrierInv, InLock, ReaderCalls
  <2>2. CASE UNCHANGED barrier
    <3>1. pc'[p] \notin ReaderCalls
      BY <1>0, <1>11 DEF Start, StopCancel, StopEnd, ReaderCalls
    <3> QED
      BY <2>1, <2>2, <3>1, LockAside
  <2>3. ASSUME NEW b \in {barrier, MarkStarted(barrier), MarkStopped(barrier)}, barrier' = OutOfStatusArea(b),
               pc'[p] = "idle"
        PROVE  LockInv'
    <3>1. b \in Barriers(Goroutines) /\ b.waiting = barrier.waiting
      BY <1>0, <2>3, FlagFacts
    <3>2. pc'[p] \notin InLock
      BY <2>3 DEF InLock, ReaderCalls
    <3> QED
      BY <2>1, <2>3, <3>1, <3>2, LockRelease
  <2> QED
    BY <1>0, <1>11, <2>2, <2>3 DEF Start, StopCancel, StopEnd
<1>12. ASSUME NEW m \in Messages, Sender(m) PROVE LockInv'
  <2>1. /\ barrier' = Out(barrier, m) /\ UNCHANGED pc
        /\ \A n \in Messages \ {m} : mstate[n] = "sending" => mstate'[n] = "sending"
    BY <1>0, <1>12 DEF Sender, Send, WriteTimeout
  <2> QED
    BY <2>1, LockSent
<1>13. CASE ParentCancel \/ (\E l \in Listeners : Receive(l)) \/ WorkerStep
  <2>1. UNCHANGED <<barrier, pc, mstate>>
    BY <1>13 DEF ParentCancel, Receive, WorkerStep, WorkerDone, WorkerReceive, WorkerReceiveClosed, WorkerVisit,
       WorkerRangeEnd, WorkerCheck, WorkerSend, WorkerTimeout
  <2> QED
    BY <2>1, LockAside
<1> QED
  BY <1>1, <1>2, <1>3, <1>5, <1>6, <1>7, <1>8, <1>9, <1>10, <1>11, <1>12, <1>13 DEF Next, Proceed

\* What a step leaves alone at the barriers of the listeners.
LEMMA ListenerLockAside ==
  ASSUME ListenerLockInv, UNCHANGED <<lbarrier, wpc, target>>,
         \A q \in Callers : \/ pc'[q] = pc[q] /\ arg'[q] = arg[q]
                            \/ pc[q] # "lstopArea" /\ pc'[q] # "lstopArea"
  PROVE  ListenerLockInv'
  BY DEF ListenerLockInv

\* The worker and its target, when it enters, holds or leaves a barrier.
LEMMA NextKeepsListenerLock == IInv /\ ListenerLockInv /\ [Next]_vars => ListenerLockInv'
<1> SUFFICES ASSUME IInv, ListenerLockInv, [Next]_vars PROVE ListenerLockInv'
  OBVIOUS
<1> USE DEF bVars, lVars, wVars, cVars, hVars, Return, ReturnReader, ReturnWriter
<1>0. /\ pc \in [Callers -> CallerPCs] /\ arg \in [Callers -> Listeners \cup Messages \cup {None}]
      /\ lbarrier \in [Listeners -> Barriers(Goroutines)]
      /\ \A p \in Callers : pc[p] \in {"Subscribe", "Unsubscribe", "lstop", "lstopArea"} => arg[p] \in Listeners
      /\ wpc \in {"write", "send"} => target \in Listeners
      /\ Worker \notin Callers
  BY Disjoint DEF IInv, TypeOK, ArgInv, MadeInv
<1>1. CASE UNCHANGED vars
  BY <1>1, ListenerLockAside DEF vars
<1>2. ASSUME NEW p \in Callers, Invoke(p) PROVE ListenerLockInv'
  <2>1. /\ UNCHANGED <<lbarrier, wpc, target>> /\ pc[p] # "lstopArea" /\ pc'[p] # "lstopArea"
        /\ \A q \in Callers \ {p} : pc'[q] = pc[q] /\ arg'[q] = arg[q]
    BY <1>0, <1>2 DEF Invoke, InvokeSubscribe, InvokeUnsubscribe, InvokeQuery, InvokeWrite, InvokeReader,
       InvokeStart, InvokeStop
  <2> QED
    BY <2>1, ListenerLockAside
<1>3. ASSUME NEW p \in Callers,
             EnterStatusArea(p) \/ Query(p) \/ Unsubscribe(p) \/ Write(p) \/ WriteSync(p) \/ WriteSyncReturn(p)
      PROVE  ListenerLockInv'
  <2>1. /\ UNCHANGED <<lbarrier, wpc, target>> /\ pc[p] # "lstopArea" /\ pc'[p] # "lstopArea"
        /\ \A q \in Callers \ {p} : pc'[q] = pc[q] /\ arg'[q] = arg[q]
    BY <1>0, <1>3 DEF EnterStatusArea, Query, Unsubscribe, Write, WriteSync, WriteSyncReturn
  <2> QED
    BY <2>1, ListenerLockAside
<1>4. ASSUME NEW p \in Callers, StopCancel(p) \/ StopWait(p) \/ StopEnd(p) PROVE ListenerLockInv'
  <2>1. /\ UNCHANGED <<lbarrier, wpc, target>> /\ pc[p] # "lstopArea" /\ pc'[p] # "lstopArea"
        /\ \A q \in Callers \ {p} : pc'[q] = pc[q] /\ arg'[q] = arg[q]
    BY <1>0, <1>4 DEF StopCancel, StopWait, StopEnd
  <2> QED
    BY <2>1, ListenerLockAside
<1>5. ASSUME NEW p \in Callers, Start(p) PROVE ListenerLockInv'
  <2>1. /\ UNCHANGED <<lbarrier, target>> /\ pc[p] # "lstopArea" /\ pc'[p] # "lstopArea"
        /\ \A q \in Callers \ {p} : pc'[q] = pc[q] /\ arg'[q] = arg[q]
        /\ wpc' = wpc \/ (wpc \notin {"write", "send"} /\ wpc' = "select")
    BY <1>0, <1>5 DEF Start, IInv, StopInv, IsStopped
  <2> QED
    BY <2>1 DEF ListenerLockInv
<1>6. ASSUME NEW p \in Callers, Subscribe(p) PROVE ListenerLockInv'
  <2>1. /\ UNCHANGED <<wpc, target>> /\ pc[p] = "Subscribe" /\ pc'[p] = "idle"
        /\ \A q \in Callers \ {p} : pc'[q] = pc[q] /\ arg'[q] = arg[q]
    BY <1>0, <1>6 DEF Subscribe
  <2>2. CASE UNCHANGED lbarrier
    BY <2>1, <2>2, ListenerLockAside
  <2>3. CASE lbarrier' = [lbarrier EXCEPT ![arg[p]] = MarkStarted(newStatusBarrier)]
    <3>1. /\ lbarrier'[arg[p]].writer = {} /\ lbarrier'[arg[p]].readers = {} /\ lbarrier'[arg[p]].waiting = {}
          /\ \A l \in Listeners \ {arg[p]} : lbarrier'[l] = lbarrier[l]
      BY <1>0, <2>1, <2>3, NewFacts, FlagFacts
    <3>2. /\ wpc \in {"write", "send"} => target # arg[p]
          /\ \A q \in Callers : pc[q] = "lstopArea" => arg[q] # arg[p]
      BY <2>1 DEF IInv, MadeInv
    <3> QED
      BY <1>0, <2>1, <3>1, <3>2 DEF ListenerLockInv
  <2> QED
    BY <1>6, <2>2, <2>3 DEF Subscribe
<1>7. ASSUME NEW p \in Callers, ListenerEnterStatusArea(p) PROVE ListenerLockInv'
  <2>1. /\ UNCHANGED <<wpc, target, arg>> /\ pc[p] = "lstop" /\ pc'[p] = "lstopArea" /\ arg[p] \in Listeners
        /\ \A q \in Callers \ {p} : pc'[q] = pc[q] /\ lbarrier[arg[p]].writer = {}
    BY <1>0, <1>7 DEF ListenerEnterStatusArea
  <2>2. /\ lbarrier'[arg[p]].writer = {p} /\ lbarrier'[arg[p]].readers = lbarrier[arg[p]].readers
        /\ lbarrier'[arg[p]].waiting = lbarrier[arg[p]].waiting
        /\ \A l \in Listeners \ {arg[p]} : lbarrier'[l] = lbarrier[l]
    BY <1>0, <1>7, <2>1, AnnounceFacts DEF ListenerEnterStatusArea
  <2>3. \A q \in Callers : pc[q] = "lstopArea" => arg[q] # arg[p]
    BY <2>1 DEF ListenerLockInv
  <2>4. \A q \in Callers : pc'[q] = "lstopArea" => lbarrier'[arg[q]].writer = {q}
    BY <1>0, <2>1, <2>2, <2>3 DEF ListenerLockInv
  <2>5. ASSUME NEW l \in Listeners
        PROVE  /\ \A g \in lbarrier'[l].writer : g \in Callers /\ pc'[g] = "lstopArea" /\ arg[g] = l
               /\ \A g \in lbarrier'[l].readers \cup lbarrier'[l].waiting :
                    g = Worker /\ wpc \in {"write", "send"} /\ target = l
               /\ lbarrier'[l].waiting \cap lbarrier'[l].readers = {}
               /\ lbarrier'[l].waiting # {} => lbarrier'[l].writer # {}
    <3>1. CASE l = arg[p]
      BY <2>1, <2>2, <3>1 DEF ListenerLockInv
    <3>2. CASE l # arg[p]
      BY <2>1, <2>2, <3>2 DEF ListenerLockInv
    <3> QED
      BY <3>1, <3>2
  <2> QED
    BY <1>0, <2>1, <2>2, <2>4, <2>5 DEF ListenerLockInv
<1>8. ASSUME NEW p \in Callers, ListenerStop(p) PROVE ListenerLockInv'
  <2>1. /\ UNCHANGED <<wpc, target>> /\ pc[p] = "lstopArea" /\ pc'[p] = "idle" /\ arg[p] \in Listeners
        /\ \A q \in Callers \ {p} : pc'[q] = pc[q] /\ arg'[q] = arg[q]
        /\ lbarrier[arg[p]].writer = {p} /\ lbarrier[arg[p]].readers = {}
    BY <1>0, <1>8 DEF ListenerStop, InStatusArea
  <2>2. PICK b \in {lbarrier[arg[p]], MarkStopped(lbarrier[arg[p]])} :
          lbarrier' = [lbarrier EXCEPT ![arg[p]] = OutOfStatusArea(b)]
    BY <1>8 DEF ListenerStop
  <2>3. b \in Barriers(Goroutines) /\ b.waiting = lbarrier[arg[p]].waiting
    BY <1>0, <2>1, <2>2, FlagFacts
  <2>4. /\ lbarrier'[arg[p]].writer = {} /\ lbarrier'[arg[p]].readers = lbarrier[arg[p]].waiting
        /\ lbarrier'[arg[p]].waiting = {}
        /\ \A l \in Listeners \ {arg[p]} : lbarrier'[l] = lbarrier[l]
    BY <1>0, <2>1, <2>2, <2>3, UnlockFacts
  <2>5. \A q \in Callers \ {p} : pc[q] = "lstopArea" => arg[q] # arg[p]
    BY <2>1 DEF ListenerLockInv
  <2>6. \A q \in Callers : pc'[q] = "lstopArea" => lbarrier'[arg'[q]].writer = {q}
    BY <1>0, <2>1, <2>4, <2>5 DEF ListenerLockInv
  <2>7. ASSUME NEW l \in Listeners
        PROVE  /\ \A g \in lbarrier'[l].writer : g \in Callers /\ pc'[g] = "lstopArea" /\ arg'[g] = l
               /\ \A g \in lbarrier'[l].readers \cup lbarrier'[l].waiting :
                    g = Worker /\ wpc \in {"write", "send"} /\ target = l
               /\ lbarrier'[l].waiting \cap lbarrier'[l].readers = {}
               /\ lbarrier'[l].waiting # {} => lbarrier'[l].writer # {}
    <3>1. CASE l = arg[p]
      BY <2>1, <2>4, <3>1 DEF ListenerLockInv
    <3>2. CASE l # arg[p]
      <4>1. p \notin lbarrier[l].writer /\ lbarrier'[l] = lbarrier[l]
        BY <2>4, <3>2 DEF ListenerLockInv
      <4> QED
        BY <2>1, <4>1 DEF ListenerLockInv
    <3> QED
      BY <3>1, <3>2
  <2>8. wpc = "write" => Worker \in lbarrier'[target].readers \cup lbarrier'[target].waiting
    BY <1>0, <2>1, <2>4 DEF ListenerLockInv
  <2> QED
    BY <2>1, <2>6, <2>7, <2>8 DEF ListenerLockInv
<1>9. ASSUME NEW p \in Callers, NEW l \in Listeners, StopListener(p, l) PROVE ListenerLockInv'
  <2>1. /\ UNCHANGED <<wpc, target, pc, arg>>
        /\ lbarrier'[l].writer = lbarrier[l].writer /\ lbarrier'[l].readers = lbarrier[l].readers
        /\ lbarrier'[l].waiting = lbarrier[l].waiting
        /\ \A k \in Listeners \ {l} : lbarrier'[k] = lbarrier[k]
    BY <1>0, <1>9, FlagFacts DEF StopListener
  <2> QED
    BY <1>0, <2>1 DEF ListenerLockInv
<1>10. CASE ParentCancel \/ (\E m \in Messages : Sender(m)) \/ (\E l \in Listeners : Receive(l))
  BY <1>10, ListenerLockAside DEF ParentCancel, Sender, Send, WriteTimeout, Receive
<1>11. CASE WorkerDone \/ WorkerReceive \/ WorkerReceiveClosed \/ WorkerRangeEnd
  <2>1. /\ UNCHANGED <<lbarrier, target, pc, arg>>
        /\ wpc \notin {"write", "send"} /\ wpc' \notin {"write", "send"}
    BY <1>11 DEF WorkerDone, WorkerReceive, WorkerReceiveClosed, WorkerRangeEnd
  <2> QED
    BY <2>1 DEF ListenerLockInv
<1>12. ASSUME NEW l \in Listeners, WorkerVisit(l) PROVE ListenerLockInv'
  <2>1. /\ UNCHANGED <<pc, arg>> /\ wpc = "range" /\ wpc' = "write" /\ target' = l
        /\ lbarrier'[l] = Entering(lbarrier[l], Worker)
        /\ \A k \in Listeners \ {l} : lbarrier'[k] = lbarrier[k]
    BY <1>0, <1>12 DEF WorkerVisit
  <2>2. \A k \in Listeners : lbarrier[k].readers = {} /\ lbarrier[k].waiting = {}
    BY <2>1 DEF ListenerLockInv
  <2>3. /\ lbarrier'[l].readers = IF lbarrier[l].writer = {} THEN {Worker} ELSE {}
        /\ lbarrier'[l].waiting = IF lbarrier[l].writer = {} THEN {} ELSE {Worker}
        /\ lbarrier'[l].writer = lbarrier[l].writer
    <3>1. lbarrier[l] \in Barriers(Goroutines)
      BY <1>0
    <3>2. /\ Entering(lbarrier[l], Worker).readers =
               IF lbarrier[l].writer = {} THEN lbarrier[l].readers \cup {Worker} ELSE lbarrier[l].readers
          /\ Entering(lbarrier[l], Worker).waiting =
               IF lbarrier[l].writer = {} THEN lbarrier[l].waiting ELSE lbarrier[l].waiting \cup {Worker}
          /\ Entering(lbarrier[l], Worker).writer = lbarrier[l].writer
      BY <3>1, EnterFacts
    <3> QED
      BY <2>1, <2>2, <3>2
  <2> QED
    BY <1>0, <2>1, <2>2, <2>3 DEF ListenerLockInv
<1>13. ASSUME wpc \in {"write", "send"}, Worker \in lbarrier[target].readers, UNCHANGED <<pc, arg>>,
              lbarrier' = [lbarrier EXCEPT ![target] = Out(@, Worker)], wpc' = "range"
       PROVE  ListenerLockInv'
  <2>1. /\ target \in Listeners
        /\ lbarrier'[target].readers = lbarrier[target].readers \ {Worker}
        /\ lbarrier'[target].waiting = lbarrier[target].waiting
        /\ lbarrier'[target].writer = lbarrier[target].writer
        /\ \A k \in Listeners \ {target} : lbarrier'[k] = lbarrier[k]
    BY <1>0, <1>13, LeaveFacts
  <2>2. \A k \in Listeners : lbarrier'[k].readers = {} /\ lbarrier'[k].waiting = {}
    BY <1>13, <2>1 DEF ListenerLockInv
  <2>3. \A k \in Listeners : lbarrier'[k].writer = lbarrier[k].writer
    BY <2>1
  <2> QED
    BY <1>0, <1>13, <2>2, <2>3 DEF ListenerLockInv
<1>14. CASE WorkerCheck
  <2>1. CASE IsStopped(lbarrier[target])
    BY <1>13, <1>14, <2>1 DEF WorkerCheck
  <2>2. CASE ~IsStopped(lbarrier[target])
    <3>1. wpc = "write" /\ wpc' = "send" /\ UNCHANGED <<lbarrier, target, pc, arg>>
      BY <1>14, <2>2 DEF WorkerCheck
    <3> QED
      BY <3>1 DEF ListenerLockInv
  <2> QED
    BY <2>1, <2>2
<1>15. CASE WorkerSend \/ WorkerTimeout
  <2>1. wpc = "send" /\ Worker \in lbarrier[target].readers
    BY <1>15 DEF WorkerSend, WorkerTimeout, IInv, ListenerInv
  <2> QED
    BY <1>13, <1>15, <2>1 DEF WorkerSend, WorkerTimeout
<1> QED
  BY <1>1, <1>2, <1>3, <1>4, <1>5, <1>6, <1>7, <1>8, <1>9, <1>10, <1>11, <1>12, <1>14, <1>15
     DEF Next, Proceed, WorkerStep

LEMMA NextKeepsTurn == IInv /\ LogInv /\ TurnInv /\ [Next]_vars => TurnInv'
<1> SUFFICES ASSUME IInv, LogInv, TurnInv, [Next]_vars PROVE TurnInv'
  OBVIOUS
<1> USE DEF bVars, lVars, wVars, cVars, hVars, Return, ReturnReader, ReturnWriter
<1>0. /\ pc \in [Callers -> CallerPCs] /\ arg \in [Callers -> Listeners \cup Messages \cup {None}]
      /\ mstate \in [Messages -> {"new", "called", "sending", "sent", "lost", "refused"}]
      /\ \A p \in Callers : pc[p] \in {"Write", "WriteSync", "sending"} => arg[p] \in Messages
  BY DEF IInv, TypeOK, ArgInv
<1>1. ASSUME done => done',
             \A q \in Callers : pc'[q] \in {"stopWait", "stopRange"} => pc[q] \in {"stopWait", "stopRange"} \/ done',
             wpc' \in {"range", "write", "send"} =>
               (wpc \in {"range", "write", "send"} /\ owed' \ reach' \subseteq owed \ reach) \/ owed' \subseteq reach',
             \A q \in Callers : pc'[q] = "sending" => pc[q] = "sending" /\ arg'[q] = arg[q],
             \A m \in Messages : mstate[m] \in {"sending", "sent", "lost"} => mstate'[m] \in {"sending", "sent", "lost"}
      PROVE  TurnInv'
  BY <1>0, <1>1 DEF TurnInv
<1>2. CASE UNCHANGED vars
  BY <1>1, <1>2 DEF vars
<1>3. ASSUME NEW p \in Callers, Invoke(p) PROVE TurnInv'
  <2>1. /\ UNCHANGED <<done, wpc, owed, reach>> /\ pc'[p] \notin {"stopWait", "stopRange", "sending"}
        /\ \A q \in Callers \ {p} : pc'[q] = pc[q] /\ arg'[q] = arg[q]
    BY <1>0, <1>3 DEF Invoke, InvokeSubscribe, InvokeUnsubscribe, InvokeQuery, InvokeWrite, InvokeReader,
       InvokeStart, InvokeStop
  <2>2. \A m \in Messages : mstate[m] \in {"sending", "sent", "lost"} => mstate'[m] = mstate[m]
    BY <1>0, <1>3 DEF Invoke, InvokeSubscribe, InvokeUnsubscribe, InvokeQuery, InvokeWrite, InvokeReader,
       InvokeStart, InvokeStop
  <2> QED
    BY <1>1, <2>1, <2>2
<1>4. ASSUME NEW p \in Callers,
             \/ EnterStatusArea(p) \/ Query(p) \/ ListenerEnterStatusArea(p) \/ ListenerStop(p)
             \/ WriteSyncReturn(p) \/ StopCancel(p) \/ StopWait(p) \/ StopEnd(p)
             \/ \E l \in Listeners : StopListener(p, l)
      PROVE  TurnInv'
  <2>1. /\ done => done'
        /\ pc'[p] \in {"stopWait", "stopRange"} => pc[p] \in {"stopWait", "stopRange"} \/ done'
        /\ UNCHANGED <<wpc, owed, reach, mstate>> /\ pc'[p] # "sending"
        /\ \A q \in Callers \ {p} : pc'[q] = pc[q] /\ arg'[q] = arg[q]
    BY <1>0, <1>4 DEF EnterStatusArea, Query, ListenerEnterStatusArea, ListenerStop, WriteSyncReturn,
       StopCancel, StopWait, StopEnd, StopListener
  <2> QED
    BY <1>1, <2>1
<1>5. ASSUME NEW p \in Callers, Subscribe(p) \/ Unsubscribe(p) \/ Start(p) PROVE TurnInv'
  <2>1. /\ UNCHANGED <<done, mstate>> /\ pc'[p] \notin {"stopWait", "stopRange", "sending"}
        /\ \A q \in Callers \ {p} : pc'[q] = pc[q] /\ arg'[q] = arg[q]
        /\ owed' \subseteq owed /\ reach \subseteq reach'
        /\ wpc' = wpc \/ wpc' = "select"
    BY <1>0, <1>5 DEF Subscribe, Unsubscribe, Start
  <2> QED
    BY <1>1, <2>1
<1>6. ASSUME NEW p \in Callers, Write(p) \/ WriteSync(p) PROVE TurnInv'
  <2>1. PICK st \in {"refused", "sending"} :
          /\ mstate' = [mstate EXCEPT ![arg[p]] = st]
          /\ pc'[p] = "sending" => st = "sending" /\ arg'[p] = arg[p]
    BY <1>0, <1>6 DEF Write, WriteSync
  <2>2. /\ pc[p] \in {"Write", "WriteSync"} /\ pc'[p] \in {"idle", "sending"} /\ UNCHANGED <<done, wpc, owed, reach>>
        /\ \A q \in Callers \ {p} : pc'[q] = pc[q] /\ arg'[q] = arg[q]
    BY <1>0, <1>6 DEF Write, WriteSync
  <2>3. mstate[arg[p]] = "called" /\ arg[p] \in Messages
    BY <1>0, <2>2 DEF LogInv
  <2>4. /\ mstate'[arg[p]] = st /\ \A m \in Messages \ {arg[p]} : mstate'[m] = mstate[m]
    BY <1>0, <2>1, <2>3
  <2>5. \A q \in Callers : pc[q] = "sending" => mstate'[arg[q]] \in {"sending", "sent", "lost"}
    BY <1>0, <2>3, <2>4 DEF TurnInv
  <2>6. \A q \in Callers : pc'[q] = "sending" => mstate'[arg'[q]] \in {"sending", "sent", "lost"}
    BY <2>1, <2>2, <2>4, <2>5
  <2> QED
    BY <2>2, <2>6 DEF TurnInv
<1>7. ASSUME NEW m \in Messages, Sender(m) PROVE TurnInv'
  <2>1. /\ UNCHANGED <<done, wpc, owed, reach, pc, arg>> /\ mstate'[m] \in {"sent", "lost"}
        /\ \A n \in Messages \ {m} : mstate'[n] = mstate[n]
    BY <1>0, <1>7 DEF Sender, Send, WriteTimeout
  <2> QED
    BY <1>1, <2>1
<1>8. CASE ParentCancel \/ \E l \in Listeners : Receive(l)
  BY <1>1, <1>8 DEF ParentCancel, Receive
<1>9. CASE WorkerStep
  <2>1. UNCHANGED <<done, pc, arg, mstate>>
    BY <1>9 DEF WorkerStep, WorkerDone, WorkerReceive, WorkerReceiveClosed, WorkerVisit, WorkerRangeEnd,
       WorkerCheck, WorkerSend, WorkerTimeout
  <2>2. wpc' \in {"range", "write", "send"} => owed' \subseteq reach'
    BY <1>9 DEF TurnInv, WorkerStep, WorkerDone, WorkerReceive, WorkerReceiveClosed, WorkerVisit, WorkerRangeEnd,
       WorkerCheck, WorkerSend, WorkerTimeout
  <2> QED
    BY <1>1, <2>1, <2>2
<1> QED
  BY <1>2, <1>3, <1>4, <1>5, <1>6, <1>7, <1>8, <1>9 DEF Next, Proceed

\* A worker with a message can go, or Unsubscribe can, for which it waits.
LEMMA WorkerGoes ==
  ASSUME IInv, ListenerLockInv, TurnInv, wpc \in {"range", "write", "send"}
  PROVE  WorkerCanGo \/ \E p \in Callers : CallerCanGo(p)
<1>1. CASE wpc \in {"range", "send"}
  BY <1>1 DEF TurnInv, WorkerCanGo
<1>2. CASE wpc = "write" /\ Worker \in lbarrier[target].readers
  BY <1>2 DEF WorkerCanGo
<1>3. CASE wpc = "write" /\ Worker \notin lbarrier[target].readers
  <2>1. target \in Listeners /\ lbarrier[target].readers = {}
    BY <1>3 DEF IInv, TypeOK, MadeInv, ListenerLockInv
  <2>2. PICK p \in lbarrier[target].writer : p \in Callers /\ pc[p] = "lstopArea" /\ arg[p] = target
    BY <1>3, <2>1 DEF ListenerLockInv
  <2>3. CallerCanGo(p)
    BY <2>1, <2>2 DEF CallerCanGo, InStatusArea, ListenerLockInv
  <2> QED
    BY <2>2, <2>3
<1> QED
  BY <1>1, <1>2, <1>3

\* With the worker idle or gone nobody reads at the barrier of a listener.
LEMMA ListenersFree ==
  ASSUME ListenerLockInv, wpc \notin {"range", "write", "send"}
  PROVE  \A l \in Listeners : lbarrier[l].readers = {}
  BY DEF ListenerLockInv

\* The second half of Unsubscribe can go, or another one that is before it.
LEMMA ListenerStopGoes ==
  ASSUME IInv, ListenerLockInv, wpc \notin {"range", "write", "send"},
         NEW p \in Callers, pc[p] \in {"lstop", "lstopArea"}
  PROVE  \E q \in Callers : CallerCanGo(q)
<1>1. arg[p] \in Listeners /\ lbarrier[arg[p]].readers = {}
  BY ListenersFree DEF IInv, ArgInv
<1>2. ASSUME NEW q \in Callers, pc[q] = "lstopArea", arg[q] = arg[p] PROVE CallerCanGo(q)
  BY <1>1, <1>2 DEF CallerCanGo, InStatusArea, ListenerLockInv
<1>3. CASE lbarrier[arg[p]].writer = {}
  BY <1>2, <1>3 DEF CallerCanGo
<1>4. CASE lbarrier[arg[p]].writer # {}
  BY <1>1, <1>2, <1>4 DEF ListenerLockInv
<1> QED
  BY <1>3, <1>4

\* A reader of the barrier can go, or one that it waits for.
LEMMA ReaderGoes ==
  ASSUME IInv, LockInv, ListenerLockInv, wpc \notin {"range", "write", "send"}, NEW g \in barrier.readers
  PROVE  (\E p \in Callers : CallerCanGo(p)) \/ \E m \in Messages : SenderCanGo(m)
<1>1. CASE g \in Messages /\ mstate[g] = "sending"
  BY <1>1 DEF SenderCanGo
<1>2. CASE g \in Callers /\ pc[g] \in ReaderCalls
  BY <1>2 DEF CallerCanGo
<1>3. CASE g \in Callers /\ pc[g] \in {"lstop", "lstopArea"}
  BY <1>3, ListenerStopGoes
<1> QED
  BY <1>1, <1>2, <1>3 DEF LockInv

\* Start or Stop with the mutex can go, or one that it waits for.
LEMMA WriterGoes ==
  ASSUME IInv, LockInv, ListenerLockInv, TurnInv, wpc \notin {"range", "write", "send"},
         NEW p \in Callers, pc[p] \in StatusAreaPCs
  PROVE  \/ \E q \in Callers : CallerCanGo(q)
         \/ \E m \in Messages : SenderCanGo(m)
         \/ WorkerCanGo
<1>1. p \in barrier.writer
  BY DEF IInv, BarrierInv
<1>2. CASE barrier.readers # {}
  BY <1>2, ReaderGoes
<1>3. CASE barrier.readers = {} /\ pc[p] \in {"startArea", "stopArea"}
  BY <1>1, <1>3 DEF CallerCanGo, InStatusArea, IInv, BarrierInv
<1>4. CASE pc[p] = "stopWait"
  BY <1>4 DEF CallerCanGo, WorkerCanGo, TurnInv, IInv, TypeOK
<1>5. CASE barrier.readers = {} /\ pc[p] = "stopRange"
  <2>1. ASSUME NEW l \in listeners PROVE lbarrier[l].writer = {} /\ lbarrier[l].readers = {}
    <3>1. l \in Listeners
      BY <2>1 DEF IInv, TypeOK
    <3>2. lbarrier[l].readers = {}
      BY <3>1, ListenersFree
    <3>3. ASSUME NEW g \in lbarrier[l].writer PROVE FALSE
      BY <1>5, <3>1, <3>3 DEF ListenerLockInv, IInv, BarrierInv
    <3> QED
      BY <3>2, <3>3
  <2> QED
    BY <1>5, <2>1 DEF CallerCanGo
<1> QED
  BY <1>2, <1>3, <1>4, <1>5 DEF StatusAreaPCs

\* No interleaving of any number of callers locks up the broadcaster: neither
\* the two levels of RWMutex, of which Unsubscribe and the worker hold one while they
\* wait at the other or at a channel, nor Stop, which waits for the worker with the
\* mutex in its hands (broadcaster.go:83).
THEOREM NeverLocksUp == Spec => []NobodyWaitsInACircle
<1>1. Init => LogInv /\ LockInv /\ ListenerLockInv /\ TurnInv
  BY NewFacts, FlagFacts, Disjoint DEF Init, LogInv, LockInv, ListenerLockInv, TurnInv, ReaderCalls, newStatusBarrier
<1>2. IInv /\ LogInv /\ LockInv /\ ListenerLockInv /\ TurnInv /\ [Next]_vars =>
        LogInv' /\ LockInv' /\ ListenerLockInv' /\ TurnInv'
  BY NextKeepsLog, NextKeepsLock, NextKeepsListenerLock, NextKeepsTurn
<1>3. ASSUME IInv, LogInv, LockInv, ListenerLockInv, TurnInv PROVE NobodyWaitsInACircle
  <2>1. CASE wpc \in {"range", "write", "send"}
    BY <1>3, <2>1, WorkerGoes DEF NobodyWaitsInACircle
  <2>2. ASSUME wpc \notin {"range", "write", "send"}, NEW p \in Callers, pc[p] # "idle"
        PROVE  \/ \E q \in Callers : CallerCanGo(q)
               \/ \E m \in Messages : SenderCanGo(m)
               \/ WorkerCanGo
    <3>1. ASSUME NEW q \in barrier.writer
          PROVE  \/ \E r \in Callers : CallerCanGo(r)
                 \/ \E m \in Messages : SenderCanGo(m)
                 \/ WorkerCanGo
      <4>1. q \in Callers /\ pc[q] \in StatusAreaPCs
        BY <1>3, <3>1 DEF LockInv, IInv, BarrierInv
      <4> QED
        BY <1>3, <2>2, <4>1, WriterGoes
    <3>2. CASE pc[p] \in ReaderCalls
      BY <1>3, <3>1, <3>2 DEF CallerCanGo, LockInv
    <3>3. CASE pc[p] = "sending"
      <4>1. arg[p] \in Messages
        BY <1>3, <3>3 DEF IInv, ArgInv
      <4> QED
        BY <1>3, <3>3, <4>1 DEF CallerCanGo, SenderCanGo, TurnInv
    <3>4. CASE pc[p] \in {"lstop", "lstopArea"}
      BY <1>3, <2>2, <3>4, ListenerStopGoes
    <3>5. CASE pc[p] \in {"Start", "Stop"}
      BY <3>1, <3>5 DEF CallerCanGo
    <3>6. CASE pc[p] \in StatusAreaPCs
      BY <1>3, <2>2, <3>6, WriterGoes
    <3>7. pc[p] \in CallerPCs
      BY <1>3 DEF IInv, TypeOK
    <3> QED
      BY <2>2, <3>2, <3>3, <3>4, <3>5, <3>6, <3>7 DEF CallerPCs, StatusAreaPCs
  <2> QED
    BY <2>1, <2>2 DEF NobodyWaitsInACircle
<1> QED
  BY <1>1, <1>2, <1>3, Invariance, PTL DEF Spec
=============================================================================
