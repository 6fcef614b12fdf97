---------------------------- MODULE Broadcaster ----------------------------
(***************************************************************************)
(* pkg/broadcaster/broadcaster.go: one worker goroutine takes messages     *)
(* from the channel b.c and writes each to the channel of every            *)
(* subscribed listener.  Callers run Start, Stop, Subscribe, Unsubscribe,  *)
(* Write, WriteSync, IsSubscribed and IsStopped concurrently; the context  *)
(* the broadcaster was created with may be cancelled at any time.          *)
(*                                                                         *)
(* Every call is split where the goroutine can be preempted or blocked:    *)
(* at the RWMutex of the barrier, between the check of the flag and the    *)
(* channel send, at worker.Wait and at each element of sync.Map.Range.     *)
(* A panic (send on, or close of, a closed channel) ends the program.      *)
(***************************************************************************)
EXTENDS Naturals, Sequences, StatusBarrier

CONSTANTS
  Callers,        \* goroutines that call the broadcaster
  Messages,       \* values written; each one is written at most once
  Listeners,      \* the *Listener values Subscribe can return
  Worker,         \* the worker goroutine
  None,           \* no argument, no target
  Calls,          \* the methods that each caller uses
  MaxStartCalls   \* bound: calls of Start

ASSUME Disjoint ==
  /\ Callers \cap Messages = {}
  /\ Callers \cap Listeners = {}
  /\ Messages \cap Listeners = {}
  /\ Worker \notin Callers \cup Messages \cup Listeners
  /\ None \notin Callers \cup Messages \cup Listeners
  /\ MaxStartCalls \in Nat

\* make(chan T, 1), for b.c and for every listener's channel.
BufferCap == 1

VARIABLES
  barrier,     \* b.statusBarrier
  listeners,   \* b.listeners: the keys of the sync.Map
  log,         \* every message ever sent on b.c, in order
  taken,       \* how many of them the worker received: b.c holds the rest
  bclosed,     \* b.c is closed
  done,        \* b.ctx is cancelled
  lbarrier,    \* l.statusBarrier of every listener
  got,         \* every index of log ever sent on l.c, in order (0: a zero value)
  rd,          \* how many of them the consumer received: l.c holds the rest
  lclosed,     \* l.c is closed
  wpc,         \* the worker: "off", "select", "range", "write", "send"
  cur,         \* d of the worker, as an index of log (0: zero value)
  target,      \* the listener being written
  owed,        \* keys in the map since Range began and not visited yet
  reach,       \* keys in the map at some point of this Range, not visited yet
  pc, arg,     \* where each caller is and the argument of its call
  mstate,      \* what became of each message
  made,        \* history: listeners returned by Subscribe
  since,       \* history: value of taken when the listener was stored
  dropped,     \* history: indices the worker gave up on for the listener
  starts,      \* history: times Start started the worker
  startCalls,  \* bound: calls of Start so far
  panicked     \* the program has panicked

bVars == <<barrier, listeners, log, taken, bclosed, done>>
lVars == <<lbarrier, got, rd, lclosed>>
wVars == <<wpc, cur, target, owed, reach>>
cVars == <<pc, arg, mstate>>
hVars == <<made, since, dropped, starts, startCalls, panicked>>
vars == <<bVars, lVars, wVars, cVars, hVars>>

Goroutines == Callers \cup Messages \cup {Worker}

\* Calls that take the read lock of the barrier for their whole duration.
ReaderCalls == {"Subscribe", "Unsubscribe", "Query", "Write", "WriteSync"}

CallerPCs == ReaderCalls \cup
  {"idle", "sending",                        \* WriteSync in its select
   "lstop", "lstopArea",                     \* Unsubscribe in l.stop()
   "Start", "startArea",
   "Stop", "stopArea", "stopWait", "stopRange"}

\* Start and Stop between Lock and Unlock, or waiting inside Lock.
StatusAreaPCs == {"startArea", "stopArea", "stopWait", "stopRange"}

TypeOK ==
  /\ barrier \in Barriers(Goroutines)
  /\ listeners \subseteq Listeners
  /\ log \in Seq(Messages)
  /\ taken \in Nat
  /\ bclosed \in BOOLEAN
  /\ done \in BOOLEAN
  /\ lbarrier \in [Listeners -> Barriers(Goroutines)]
  /\ got \in [Listeners -> Seq(Nat)]
  /\ rd \in [Listeners -> Nat]
  /\ lclosed \in [Listeners -> BOOLEAN]
  /\ wpc \in {"off", "select", "range", "write", "send"}
  /\ cur \in Nat
  /\ target \in Listeners \cup {None}
  /\ owed \subseteq Listeners
  /\ reach \subseteq Listeners
  /\ pc \in [Callers -> CallerPCs]
  /\ arg \in [Callers -> Listeners \cup Messages \cup {None}]
  /\ mstate \in [Messages -> {"new", "called", "sending", "sent", "lost", "refused"}]
  /\ made \subseteq Listeners
  /\ since \in [Listeners -> Nat]
  /\ dropped \in [Listeners -> SUBSET Nat]
  /\ starts \in Nat
  /\ startCalls \in Nat
  /\ panicked \in BOOLEAN

-----------------------------------------------------------------------------
(* New(ctx): not started.  NewAndStart is New followed by a Start call.    *)

Init ==
  /\ barrier = newStatusBarrier
  /\ listeners = {}
  /\ log = << >>
  /\ taken = 0
  /\ bclosed = FALSE
  /\ done = FALSE
  /\ lbarrier = [l \in Listeners |-> newStatusBarrier]
  /\ got = [l \in Listeners |-> << >>]
  /\ rd = [l \in Listeners |-> 0]
  /\ lclosed = [l \in Listeners |-> FALSE]
  /\ wpc = "off"
  /\ cur = 0
  /\ target = None
  /\ owed = {}
  /\ reach = {}
  /\ pc = [p \in Callers |-> "idle"]
  /\ arg = [p \in Callers |-> None]
  /\ mstate = [m \in Messages |-> "new"]
  /\ made = {}
  /\ since = [l \in Listeners |-> 0]
  /\ dropped = [l \in Listeners |-> {}]
  /\ starts = 0
  /\ startCalls = 0
  /\ panicked = FALSE

-----------------------------------------------------------------------------
(* Calls.  The context is an ancestor of the caller's choice: it can be    *)
(* cancelled by its owner at any time.                                     *)

ParentCancel ==
  /\ ~done
  /\ done' = TRUE
  /\ UNCHANGED <<barrier, listeners, log, taken, bclosed, lVars, wVars, cVars, hVars>>

\* Entry into a call that begins with b.statusBarrier.Entering().
InvokeReader(p, call, x) ==
  /\ pc[p] = "idle" /\ call \in Calls[p]
  /\ pc' = [pc EXCEPT ![p] = call]
  /\ arg' = [arg EXCEPT ![p] = x]
  /\ barrier' = Entering(barrier, p)
  /\ UNCHANGED <<listeners, log, taken, bclosed, done, lVars, wVars, hVars>>

\* l names the Listener that startListener is about to allocate.
InvokeSubscribe(p, l) ==
  /\ l \notin made
  /\ \A q \in Callers : ~(pc[q] = "Subscribe" /\ arg[q] = l)
  /\ InvokeReader(p, "Subscribe", l)
  /\ UNCHANGED mstate

InvokeUnsubscribe(p, l) ==
  l \in made /\ InvokeReader(p, "Unsubscribe", l) /\ UNCHANGED mstate

\* IsSubscribed and IsStopped: a lookup under the read lock.
InvokeQuery(p) == InvokeReader(p, "Query", None) /\ UNCHANGED mstate

InvokeWrite(p, m, call) ==
  /\ mstate[m] = "new"
  /\ InvokeReader(p, call, m)
  /\ mstate' = [mstate EXCEPT ![m] = "called"]

InvokeStart(p) ==
  /\ pc[p] = "idle" /\ "Start" \in Calls[p]
  /\ startCalls < MaxStartCalls
  /\ startCalls' = startCalls + 1
  /\ pc' = [pc EXCEPT ![p] = "Start"]
  /\ UNCHANGED <<bVars, lVars, wVars, arg, mstate, made, since, dropped, starts, panicked>>

InvokeStop(p) ==
  /\ pc[p] = "idle" /\ "Stop" \in Calls[p]
  /\ pc' = [pc EXCEPT ![p] = "Stop"]
  /\ UNCHANGED <<bVars, lVars, wVars, arg, mstate, hVars>>

\* Lock announces itself once no other writer holds or awaits the mutex.
EnterStatusArea(p) ==
  /\ pc[p] \in {"Start", "Stop"}
  /\ barrier.writer = {}
  /\ barrier' = EnteringStatusArea(barrier, p)
  /\ pc' = [pc EXCEPT ![p] = IF @ = "Start" THEN "startArea" ELSE "stopArea"]
  /\ UNCHANGED <<listeners, log, taken, bclosed, done, lVars, wVars, arg, mstate, hVars>>

Return(p) ==
  /\ pc' = [pc EXCEPT ![p] = "idle"]
  /\ arg' = [arg EXCEPT ![p] = None]

\* A call under the read lock returns: the deferred Out().
ReturnReader(p) == Return(p) /\ barrier' = Out(barrier, p)

\* Start or Stop returns: the deferred OutOfStatusArea().
ReturnWriter(p, b) == Return(p) /\ barrier' = OutOfStatusArea(b)

-----------------------------------------------------------------------------
Query(p) ==
  /\ pc[p] = "Query" /\ p \in barrier.readers
  /\ ReturnReader(p)
  /\ UNCHANGED <<listeners, log, taken, bclosed, done, lVars, wVars, mstate, hVars>>

\* A new listener, started, is stored in the map.  A Range in progress may
\* or may not visit a key stored meanwhile.
Subscribe(p) ==
  /\ pc[p] = "Subscribe" /\ p \in barrier.readers
  /\ ReturnReader(p)
  /\ \/ /\ IsStopped(barrier)
        /\ UNCHANGED <<listeners, lbarrier, reach, made, since>>
     \/ /\ ~IsStopped(barrier)
        /\ made' = made \cup {arg[p]}
        /\ lbarrier' = [lbarrier EXCEPT ![arg[p]] = MarkStarted(newStatusBarrier)]
        /\ listeners' = listeners \cup {arg[p]}
        /\ since' = [since EXCEPT ![arg[p]] = taken]
        /\ reach' = IF wpc \in {"range", "write", "send"} THEN reach \cup {arg[p]} ELSE reach
  /\ UNCHANGED <<log, taken, bclosed, done, got, rd, lclosed, wpc, cur, target, owed,
                 mstate, dropped, starts, startCalls, panicked>>

\* Check the flag, then LoadAndDelete; only the caller that deleted the key
\* goes on to l.stop().
Unsubscribe(p) ==
  /\ pc[p] = "Unsubscribe" /\ p \in barrier.readers
  /\ \/ /\ IsStopped(barrier) \/ arg[p] \notin listeners
        /\ ReturnReader(p)
        /\ UNCHANGED <<listeners, owed>>
     \/ /\ ~IsStopped(barrier) /\ arg[p] \in listeners
        /\ listeners' = listeners \ {arg[p]}
        /\ owed' = owed \ {arg[p]}
        /\ pc' = [pc EXCEPT ![p] = "lstop"]
        /\ UNCHANGED <<barrier, arg>>
  /\ UNCHANGED <<log, taken, bclosed, done, lVars, wpc, cur, target, reach,
                 mstate, hVars>>

\* l.stop() called by Unsubscribe: Lock of the listener's barrier ...
ListenerEnterStatusArea(p) ==
  /\ pc[p] = "lstop"
  /\ lbarrier[arg[p]].writer = {}
  /\ lbarrier' = [lbarrier EXCEPT ![arg[p]] = EnteringStatusArea(@, p)]
  /\ pc' = [pc EXCEPT ![p] = "lstopArea"]
  /\ UNCHANGED <<bVars, got, rd, lclosed, wVars, arg, mstate, hVars>>

\* Mutant: Listener.stop forgets the deferred OutOfStatusArea().
ListenerStopKeepsLock(p) ==
  /\ pc[p] = "lstopArea"
  /\ InStatusArea(lbarrier[arg[p]], p)
  /\ lbarrier' = [lbarrier EXCEPT ![arg[p]] = MarkStopped(@)]
  /\ lclosed' = [lclosed EXCEPT ![arg[p]] = TRUE]
  /\ ReturnReader(p)
  /\ UNCHANGED <<listeners, log, taken, bclosed, done, got, rd, wVars, mstate, hVars>>

\* ... and, with the worker out of the listener, close(l.c) unless stopped.
ListenerStop(p) ==
  /\ pc[p] = "lstopArea"
  /\ InStatusArea(lbarrier[arg[p]], p)
  /\ \/ /\ IsStopped(lbarrier[arg[p]])
        /\ lbarrier' = [lbarrier EXCEPT ![arg[p]] = OutOfStatusArea(@)]
        /\ UNCHANGED <<lclosed, panicked>>
     \/ /\ ~IsStopped(lbarrier[arg[p]])
        /\ lbarrier' = [lbarrier EXCEPT ![arg[p]] = OutOfStatusArea(MarkStopped(@))]
        /\ panicked' = lclosed[arg[p]]
        /\ lclosed' = [lclosed EXCEPT ![arg[p]] = TRUE]
  /\ ReturnReader(p)
  /\ UNCHANGED <<listeners, log, taken, bclosed, done, got, rd, wVars, mstate,
                 made, since, dropped, starts, startCalls>>

-----------------------------------------------------------------------------
\* Mutant: Write gives up the read lock before its goroutine sends.
WriteUnlocked(p) ==
  /\ pc[p] = "Write" /\ p \in barrier.readers
  /\ barrier' = Out(barrier, p)
  /\ mstate' = [mstate EXCEPT ![arg[p]] = IF IsStopped(barrier) THEN "refused" ELSE "sending"]
  /\ Return(p)
  /\ UNCHANGED <<listeners, log, taken, bclosed, done, lVars, wVars, hVars>>

\* Write: the check; the goroutine it starts inherits the read lock, and is
\* named by its message.
Write(p) ==
  /\ pc[p] = "Write" /\ p \in barrier.readers
  /\ \/ /\ IsStopped(barrier)
        /\ barrier' = Out(barrier, p)
        /\ mstate' = [mstate EXCEPT ![arg[p]] = "refused"]
     \/ /\ ~IsStopped(barrier)
        /\ barrier' = HandOver(barrier, p, arg[p])
        /\ mstate' = [mstate EXCEPT ![arg[p]] = "sending"]
  /\ Return(p)
  /\ UNCHANGED <<listeners, log, taken, bclosed, done, lVars, wVars, hVars>>

\* WriteSync: the same, but the caller itself waits in the select.
WriteSync(p) ==
  /\ pc[p] = "WriteSync" /\ p \in barrier.readers
  /\ \/ /\ IsStopped(barrier)
        /\ barrier' = Out(barrier, p)
        /\ mstate' = [mstate EXCEPT ![arg[p]] = "refused"]
        /\ Return(p)
     \/ /\ ~IsStopped(barrier)
        /\ barrier' = HandOver(barrier, p, arg[p])
        /\ mstate' = [mstate EXCEPT ![arg[p]] = "sending"]
        /\ pc' = [pc EXCEPT ![p] = "sending"]
        /\ UNCHANGED arg
  /\ UNCHANGED <<listeners, log, taken, bclosed, done, lVars, wVars, hVars>>

WriteSyncReturn(p) ==
  /\ pc[p] = "sending"
  /\ mstate[arg[p]] \in {"sent", "lost"}
  /\ Return(p)
  /\ UNCHANGED <<bVars, lVars, wVars, mstate, hVars>>

\* case b.c <- t: needs room in the buffer, and panics on a closed channel.
Send(m) ==
  /\ mstate[m] = "sending"
  /\ bclosed \/ Len(log) - taken < BufferCap
  /\ panicked' = bclosed
  /\ log' = IF bclosed THEN log ELSE Append(log, m)
  /\ mstate' = [mstate EXCEPT ![m] = "sent"]
  /\ barrier' = Out(barrier, m)
  /\ UNCHANGED <<listeners, taken, bclosed, done, lVars, wVars, pc, arg,
                 made, since, dropped, starts, startCalls>>

\* case <-ti.C: when both cases are ready select may take either.
WriteTimeout(m) ==
  /\ mstate[m] = "sending"
  /\ mstate' = [mstate EXCEPT ![m] = "lost"]
  /\ barrier' = Out(barrier, m)
  /\ UNCHANGED <<listeners, log, taken, bclosed, done, lVars, wVars, pc, arg, hVars>>

-----------------------------------------------------------------------------
\* Mutant: Start gives the worker a fresh context.
StartWithFreshContext(p) ==
  /\ pc[p] = "startArea"
  /\ InStatusArea(barrier, p)
  /\ ReturnWriter(p, MarkStarted(barrier))
  /\ IF IsStopped(barrier) THEN wpc' = "select" /\ starts' = starts + 1 /\ done' = FALSE
                           ELSE UNCHANGED <<wpc, starts, done>>
  /\ UNCHANGED <<listeners, log, taken, bclosed, lVars, cur, target, owed, reach,
                 mstate, made, since, dropped, startCalls, panicked>>

\* Start, with the write lock held.
Start(p) ==
  /\ pc[p] = "startArea"
  /\ InStatusArea(barrier, p)
  /\ \/ /\ ~IsStopped(barrier)
        /\ ReturnWriter(p, barrier)
        /\ UNCHANGED <<wpc, starts>>
     \/ /\ IsStopped(barrier)
        /\ wpc' = "select"
        /\ starts' = starts + 1
        /\ ReturnWriter(p, MarkStarted(barrier))
  /\ UNCHANGED <<listeners, log, taken, bclosed, done, lVars, cur, target, owed, reach,
                 mstate, made, since, dropped, startCalls, panicked>>

\* Mutant: Stop goes on to worker.Wait without b.cancel().
StopWithoutCancel(p) ==
  /\ pc[p] = "stopArea"
  /\ InStatusArea(barrier, p)
  /\ \/ /\ IsStopped(barrier)
        /\ ReturnWriter(p, barrier)
     \/ /\ ~IsStopped(barrier)
        /\ pc' = [pc EXCEPT ![p] = "stopWait"]
        /\ UNCHANGED <<barrier, arg>>
  /\ UNCHANGED <<listeners, log, taken, bclosed, done, lVars, wVars, mstate, hVars>>

\* Stop, with the write lock held, up to b.cancel().
StopCancel(p) ==
  /\ pc[p] = "stopArea"
  /\ InStatusArea(barrier, p)
  /\ \/ /\ IsStopped(barrier)
        /\ ReturnWriter(p, barrier)
        /\ UNCHANGED done
     \/ /\ ~IsStopped(barrier)
        /\ done' = TRUE
        /\ pc' = [pc EXCEPT ![p] = "stopWait"]
        /\ UNCHANGED <<barrier, arg>>
  /\ UNCHANGED <<listeners, log, taken, bclosed, lVars, wVars, mstate, hVars>>

\* Mutant: Stop does not wait for the worker.
StopWithoutWait(p) ==
  /\ pc[p] = "stopWait"
  /\ pc' = [pc EXCEPT ![p] = "stopRange"]
  /\ UNCHANGED <<bVars, lVars, wVars, arg, mstate, hVars>>

\* b.worker.Wait()
StopWait(p) ==
  /\ pc[p] = "stopWait"
  /\ wpc = "off"
  /\ pc' = [pc EXCEPT ![p] = "stopRange"]
  /\ UNCHANGED <<bVars, lVars, wVars, arg, mstate, hVars>>

\* One element of the Range of Stop: l.stop(), then Delete.
StopListener(p, l) ==
  /\ pc[p] = "stopRange"
  /\ l \in listeners
  /\ lbarrier[l].writer = {} /\ lbarrier[l].readers = {}
  /\ lbarrier' = [lbarrier EXCEPT ![l] = MarkStopped(@)]
  /\ panicked' = (lclosed[l] /\ ~IsStopped(lbarrier[l]))
  /\ lclosed' = [lclosed EXCEPT ![l] = @ \/ ~IsStopped(lbarrier[l])]
  /\ listeners' = listeners \ {l}
  /\ UNCHANGED <<barrier, log, taken, bclosed, done, got, rd, wVars, cVars,
                 made, since, dropped, starts, startCalls>>

\* Mutant: Stop closes b.c before its Range over the listeners is complete.
StopEndEarly(p) ==
  /\ pc[p] = "stopRange"
  /\ panicked' = bclosed
  /\ bclosed' = TRUE
  /\ ReturnWriter(p, MarkStopped(barrier))
  /\ UNCHANGED <<listeners, log, taken, done, lVars, wVars, mstate,
                 made, since, dropped, starts, startCalls>>

\* close(b.c), MarkStopped, and Stop returns.
StopEnd(p) ==
  /\ pc[p] = "stopRange"
  /\ listeners = {}
  /\ panicked' = bclosed
  /\ bclosed' = TRUE
  /\ ReturnWriter(p, MarkStopped(barrier))
  /\ UNCHANGED <<listeners, log, taken, done, lVars, wVars, mstate,
                 made, since, dropped, starts, startCalls>>

-----------------------------------------------------------------------------
(* The worker goroutine. *)

\* Mutant: the worker waits for b.c to be closed instead of for the context.
WorkerDoneOnClose ==
  /\ wpc = "select"
  /\ bclosed
  /\ wpc' = "off"
  /\ UNCHANGED <<bVars, lVars, cur, target, owed, reach, cVars, hVars>>

\* case <-b.ctx.Done(): chosen at random against a ready b.c.
WorkerDone ==
  /\ wpc = "select"
  /\ done
  /\ wpc' = "off"
  /\ UNCHANGED <<bVars, lVars, cur, target, owed, reach, cVars, hVars>>

\* case d := <-b.c, and Range begins.
WorkerReceive ==
  /\ wpc = "select"
  /\ taken < Len(log)
  /\ taken' = taken + 1
  /\ cur' = taken + 1
  /\ wpc' = "range"
  /\ owed' = listeners
  /\ reach' = listeners
  /\ UNCHANGED <<barrier, listeners, log, bclosed, done, lVars, target, cVars, hVars>>

\* The same from a closed and drained channel: d is the zero value.
WorkerReceiveClosed ==
  /\ wpc = "select"
  /\ bclosed
  /\ taken = Len(log)
  /\ cur' = 0
  /\ wpc' = "range"
  /\ owed' = listeners
  /\ reach' = listeners
  /\ UNCHANGED <<bVars, lVars, target, cVars, hVars>>

\* Mutant: the callback of Range does not look at the context.
WorkerVisitAlways(l) ==
  /\ wpc = "range"
  /\ l \in reach
  /\ target' = l
  /\ owed' = owed \ {l}
  /\ reach' = reach \ {l}
  /\ lbarrier' = [lbarrier EXCEPT ![l] = Entering(@, Worker)]
  /\ wpc' = "write"
  /\ UNCHANGED <<bVars, got, rd, lclosed, cur, cVars, hVars>>

\* Range calls back for key l, the context is not done, and l.write(d)
\* begins with l.statusBarrier.Entering().
WorkerVisit(l) ==
  /\ wpc = "range"
  /\ ~done
  /\ l \in reach
  /\ target' = l
  /\ owed' = owed \ {l}
  /\ reach' = reach \ {l}
  /\ lbarrier' = [lbarrier EXCEPT ![l] = Entering(@, Worker)]
  /\ wpc' = "write"
  /\ UNCHANGED <<bVars, got, rd, lclosed, cur, cVars, hVars>>

\* Range is over, or its callback returned false because the context is done.
WorkerRangeEnd ==
  /\ wpc = "range"
  /\ owed = {} \/ done
  /\ wpc' = "select"
  /\ cur' = 0
  /\ owed' = {}
  /\ reach' = {}
  /\ UNCHANGED <<bVars, lVars, target, cVars, hVars>>

\* l.write holds the read lock: a stopped listener is skipped.
WorkerCheck ==
  /\ wpc = "write"
  /\ Worker \in lbarrier[target].readers
  /\ \/ /\ IsStopped(lbarrier[target])
        /\ lbarrier' = [lbarrier EXCEPT ![target] = Out(@, Worker)]
        /\ wpc' = "range"
        /\ target' = None
     \/ /\ ~IsStopped(lbarrier[target])
        /\ wpc' = "send"
        /\ UNCHANGED <<lbarrier, target>>
  /\ UNCHANGED <<bVars, got, rd, lclosed, cur, owed, reach, cVars, hVars>>

\* case b.c <- t in l.write
WorkerSend ==
  /\ wpc = "send"
  /\ lclosed[target] \/ Len(got[target]) - rd[target] < BufferCap
  /\ panicked' = lclosed[target]
  /\ got' = IF lclosed[target] THEN got ELSE [got EXCEPT ![target] = Append(@, cur)]
  /\ lbarrier' = [lbarrier EXCEPT ![target] = Out(@, Worker)]
  /\ wpc' = "range"
  /\ target' = None
  /\ UNCHANGED <<bVars, rd, lclosed, cur, owed, reach, cVars,
                 made, since, dropped, starts, startCalls>>

\* Mutant: a listener that times out ends the Range (return err == nil).
WorkerTimeoutEndsRange ==
  /\ wpc = "send"
  /\ dropped' = [dropped EXCEPT ![target] = @ \cup {cur}]
  /\ lbarrier' = [lbarrier EXCEPT ![target] = Out(@, Worker)]
  /\ wpc' = "select"
  /\ cur' = 0 /\ target' = None /\ owed' = {} /\ reach' = {}
  /\ UNCHANGED <<bVars, got, rd, lclosed, cVars, made, since, starts, startCalls, panicked>>

\* Mutant: no timer in the select of Listener.write.
WorkerWithoutTimer == FALSE /\ wpc = "send" /\ UNCHANGED vars

\* case <-ti.C in l.write
WorkerTimeout ==
  /\ wpc = "send"
  /\ dropped' = [dropped EXCEPT ![target] = @ \cup {cur}]
  /\ lbarrier' = [lbarrier EXCEPT ![target] = Out(@, Worker)]
  /\ wpc' = "range"
  /\ target' = None
  /\ UNCHANGED <<bVars, got, rd, lclosed, cur, owed, reach, cVars,
                 made, since, starts, startCalls, panicked>>

\* The owner of a listener receives from l.C.
Receive(l) ==
  /\ rd[l] < Len(got[l])
  /\ rd' = [rd EXCEPT ![l] = @ + 1]
  /\ UNCHANGED <<bVars, lbarrier, got, lclosed, wVars, cVars, hVars>>

-----------------------------------------------------------------------------
Invoke(p) ==
  \/ \E l \in Listeners : InvokeSubscribe(p, l)
  \/ \E l \in Listeners : InvokeUnsubscribe(p, l)
  \/ InvokeQuery(p)
  \/ \E m \in Messages, call \in {"Write", "WriteSync"} : InvokeWrite(p, m, call)
  \/ InvokeStart(p)
  \/ InvokeStop(p)

\* What a caller does between the invocation and the return.
Proceed(p) ==
  \/ Query(p)
  \/ Subscribe(p)
  \/ Unsubscribe(p)
  \/ ListenerEnterStatusArea(p)
  \/ ListenerStop(p)
  \/ Write(p)
  \/ WriteSync(p)
  \/ WriteSyncReturn(p)
  \/ Start(p)
  \/ StopCancel(p)
  \/ StopWait(p)
  \/ \E l \in Listeners : StopListener(p, l)
  \/ StopEnd(p)

Sender(m) == Send(m) \/ WriteTimeout(m)

WorkerStep ==
  \/ WorkerDone
  \/ WorkerReceive
  \/ WorkerReceiveClosed
  \/ \E l \in Listeners : WorkerVisit(l)
  \/ WorkerRangeEnd
  \/ WorkerCheck
  \/ WorkerSend
  \/ WorkerTimeout

Next ==
  /\ ~panicked
  /\ \/ ParentCancel
     \/ \E p \in Callers : Invoke(p) \/ EnterStatusArea(p) \/ Proceed(p)
     \/ \E m \in Messages : Sender(m)
     \/ WorkerStep
     \/ \E l \in Listeners : Receive(l)

Spec == Init /\ [][Next]_vars

(***************************************************************************)
(* Goroutines that can run are run, timers fire, the mutex inside RWMutex  *)
(* is starvation free, and select does not ignore a ready case for ever.   *)
(* Nothing is assumed of the owners of listeners, of the context, or of    *)
(* callers that have not called.                                           *)
(***************************************************************************)
Fairness ==
  /\ \A p \in Callers : WF_vars(~panicked /\ Proceed(p))
  /\ \A p \in Callers : SF_vars(~panicked /\ EnterStatusArea(p))
  /\ \A m \in Messages : WF_vars(~panicked /\ Sender(m))
  /\ WF_vars(~panicked /\ WorkerStep)
  /\ SF_vars(~panicked /\ WorkerDone)

FairSpec == Spec /\ Fairness

-----------------------------------------------------------------------------
(* Safety. *)

\* Nothing is ever sent on, or closed on, a closed channel as long as the
\* broadcaster is started once: the barriers keep every send of Write,
\* WriteSync and Listener.write apart from the close of Stop and of
\* Listener.stop.  (A second Start after Stop reuses the closed b.c.)
NoPanicBeforeRestart == panicked => starts > 1

\* When Stop has marked the broadcaster as stopped, nothing of it is left: the
\* worker has ended, no accepted write is pending, no listener is registered,
\* and the channel of every listener ever handed out is closed, so that no
\* consumer waits for ever.
StopQuiesces ==
  IsStopped(barrier) =>
    /\ wpc = "off"
    /\ listeners = {}
    /\ \A l \in made : lclosed[l]
    /\ \A m \in Messages : mstate[m] # "sending"

\* What each goroutine needs for its next step: a lock of a barrier, the end
\* of the worker or of a send, a ready case of a select.
CallerCanGo(p) ==
  \/ pc[p] \in ReaderCalls /\ p \in barrier.readers
  \/ pc[p] = "sending" /\ mstate[arg[p]] \in {"sent", "lost"}
  \/ pc[p] = "lstop" /\ lbarrier[arg[p]].writer = {}
  \/ pc[p] = "lstopArea" /\ InStatusArea(lbarrier[arg[p]], p)
  \/ pc[p] \in {"Start", "Stop"} /\ barrier.writer = {}
  \/ pc[p] \in {"startArea", "stopArea"} /\ InStatusArea(barrier, p)
  \/ pc[p] = "stopWait" /\ wpc = "off"
  \/ pc[p] = "stopRange" /\ (listeners = {}
                             \/ \E l \in listeners : lbarrier[l].writer = {} /\ lbarrier[l].readers = {})

SenderCanGo(m) == mstate[m] = "sending"

WorkerCanGo ==
  \/ wpc = "select" /\ (done \/ bclosed \/ taken < Len(log))
  \/ wpc = "range" /\ (done \/ owed = {} \/ reach # {})
  \/ wpc = "write" /\ Worker \in lbarrier[target].readers
  \/ wpc = "send"

\* A worker with a message and a caller in a call never all wait for each
\* other: at the RWMutex of the broadcaster, at those of the listeners, at
\* worker.Wait in Stop and in the selects of Write and Listener.write one of
\* the goroutines can go on without a receive by a consumer, a cancellation
\* by the owner of the context or a further call.
NobodyWaitsInACircle ==
  wpc \in {"range", "write", "send"} \/ (\E p \in Callers : pc[p] # "idle") =>
    \/ \E p \in Callers : CallerCanGo(p)
    \/ \E m \in Messages : SenderCanGo(m)
    \/ WorkerCanGo

\* Every listener receives in the order of b.c, no message twice, none the
\* worker took before the last one it had taken when Subscribe returned (that
\* one may still be on its way through Range), and never the zero value of a
\* closed channel.
InOrder ==
  \A l \in Listeners :
    /\ \A i \in 1 .. Len(got[l]) : got[l][i] \in 1 .. taken /\ got[l][i] >= since[l]
    /\ \A i, j \in 1 .. Len(got[l]) : i < j => got[l][i] < got[l][j]

\* Until the context is cancelled a registered listener misses a message only
\* by the one second timeout: whatever the worker took after the listener
\* was stored was delivered, was dropped by the timer, or is being delivered.
NoSkippedListener ==
  ~done =>
    \A l \in listeners : \A i \in since[l] + 1 .. taken :
      \/ \E k \in 1 .. Len(got[l]) : got[l][k] = i
      \/ i \in dropped[l]
      \/ i = cur /\ l \in owed \cup {target}

\* A broadcaster started again after Stop is dead although it accepts calls:
\* its context is cancelled, so it delivers nothing more.
RestartDeliversNothing == [][starts > 1 => got' = got]_vars

\* What a client can see of a listener.
ListenerStatus ==
  [l \in Listeners |-> IF lclosed[l] THEN "closed" ELSE IF l \in made THEN "open" ELSE "new"]

Ordered ==
  INSTANCE OrderedBroadcast
    WITH published <- log, inbox <- got, status <- ListenerStatus, over <- bclosed

\* Started once, the broadcaster is an ordered at-most-once broadcast: all
\* its interleavings of callers, worker and consumers look to a client like
\* the atomic steps of OrderedBroadcast.
RefinesOrderedBroadcast == Ordered!Spec

-----------------------------------------------------------------------------
(* Liveness, under Fairness. *)

\* Every call returns, whatever the owners of listeners do: a consumer that
\* never receives delays Stop, Unsubscribe and WriteSync, it does not block
\* them.
CallsReturn == \A p \in Callers : (pc[p] # "idle") ~> (pc[p] = "idle" \/ panicked)

\* The worker ends once the context is cancelled, by Stop or by its owner.
WorkerEnds == done ~> (wpc = "off" \/ panicked)

\* While the context lives, the worker takes every message that was sent on
\* b.c: a slow or vanished listener delays the next message, never for ever.
SentIsTaken ==
  \A m \in Messages : (mstate[m] = "sent") ~> ((\E i \in 1 .. taken : log[i] = m) \/ done)
=============================================================================
