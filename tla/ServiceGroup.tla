---------------------------- MODULE ServiceGroup ----------------------------
(***************************************************************************)
(* test.ServiceGroup over BufConn: the owner starts services, waits until  *)
(* they are healthy and later until they have stopped.  Each service runs  *)
(* in a goroutine of its own and hands its error over an unbuffered        *)
(* channel that is closed at the end; each wait runs in a goroutine of its *)
(* own, with a timeout, and leaves its error in a queue.                   *)
(***************************************************************************)
EXTENDS BufConn, QueueSlice, FiniteSets

CONSTANTS
  Starters,  \* services, each at an address of its own
  MaxCalls,  \* calls of the owner
  MaxRuns    \* calls of Starter.Start, whose goroutines are numbered

ASSUME GroupAssumption ==
  Starters = Addrs /\ IsFiniteSet(Starters) /\ MaxCalls \in Nat /\ MaxRuns \in Nat

VARIABLES
  services,  \* the map of the group: starter -> its last run, 0 without one
  run,       \* runs: the starter, where it is, and the listener it serves on
  waiter,    \* the goroutines of the call under way, one per starter
  queue,     \* their errors, as the starters they are about
  op,        \* the call of the owner: "idle", "start" or "wait"
  size,      \* what DequeueAll has read under its first lock, or -1
  result,    \* the errors the last call has returned
  failed,    \* starters whose goroutine ended with an error in this call
  calls

groupVars == <<services, run, waiter, queue, op, size, result, failed, calls>>
allVars == <<connVars, groupVars>>

Runs == 1 .. Len(run)

NoWaiter == [at |-> "off", conn |-> 0]

GroupInit ==
  /\ ConnInit
  /\ services = [s \in Starters |-> 0]
  /\ run = <<>>
  /\ waiter = [s \in Starters |-> NoWaiter]
  /\ queue = <<>>
  /\ op = "idle"
  /\ size = -1
  /\ result = {}
  /\ failed = {}
  /\ calls = 0

-----------------------------------------------------------------------------
(* The goroutine of a service. *)

Move(i, at) == run' = [run EXCEPT ![i].at = at]

\* Start of the service listens at its address.  On a closed listener the
\* server ends at once with an error.
Listen(i) ==
  LET a == run[i].of IN
  /\ run[i].at = "starting"
  /\ listenerFor(a)
  /\ run' = [run EXCEPT ![i].at = IF Listener(a) \in closed THEN "sending" ELSE "serving",
                        ![i].conn = Listener(a)]
  /\ UNCHANGED <<services, waiter, queue, op, size, result, failed, calls>>

\* The server ends, with an error or without, and closes its listener; the
\* service may also fail before it listens.
ServiceEnds(i) ==
  /\ run[i].at = "serving"
  /\ \E at \in {"sending", "closing"} : Move(i, at)
  /\ CloseListener(run[i].of, run[i].conn)
  /\ UNCHANGED <<services, waiter, queue, op, size, result, failed, calls>>

ServiceFails(i) ==
  /\ run[i].at = "starting"
  /\ Move(i, "sending")
  /\ UNCHANGED <<connVars, services, waiter, queue, op, size, result, failed, calls>>

\* The deferred close of the channel.
CloseChannel(i) ==
  /\ run[i].at = "closing"
  /\ Move(i, "closed")
  /\ UNCHANGED <<connVars, services, waiter, queue, op, size, result, failed, calls>>

-----------------------------------------------------------------------------
(* The goroutines that wait for one service each. *)

At(s, at) == waiter' = [waiter EXCEPT ![s].at = at]

Succeed(s) == At(s, "done") /\ UNCHANGED failed

Fails(s) == At(s, "queueing") /\ failed' = failed \cup {s}

\* NewHealthCheckClient dials, or fails.
NewClient(s) ==
  /\ waiter[s].at = "client"
  /\ \/ /\ listenerFor(s)
        /\ waiter' = [waiter EXCEPT ![s].at = "check", ![s].conn = Listener(s)]
        /\ UNCHANGED failed
     \/ Fails(s) /\ UNCHANGED connVars
  /\ UNCHANGED <<services, run, queue, op, size, result, calls>>

Serving(l) == l \notin closed /\ \E i \in Runs : run[i].at = "serving" /\ run[i].conn = l

\* CheckOk is tried until it succeeds; closing the client may still fail.
Healthy(s) ==
  /\ waiter[s].at = "check"
  /\ Serving(waiter[s].conn)
  /\ Succeed(s) \/ Fails(s)
  /\ UNCHANGED <<connVars, services, run, queue, op, size, result, calls>>

\* Mutant of Timeout: only the wait for the end of a service has one.
TimeoutOfStop(s) ==
  /\ waiter[s].at = "waiting"
  /\ Fails(s)
  /\ UNCHANGED <<connVars, services, run, queue, op, size, result, calls>>

\* One second for the health check, five for the end of a service.
Timeout(s) ==
  /\ waiter[s].at \in {"check", "waiting"}
  /\ Fails(s)
  /\ UNCHANGED <<connVars, services, run, queue, op, size, result, calls>>

\* The service hands its error to the wait and goes on to close the channel.
ReceiveError(s) ==
  LET i == services[s] IN
  /\ waiter[s].at = "waiting"
  /\ run[i].at = "sending"
  /\ Move(i, "closing")
  /\ Fails(s)
  /\ UNCHANGED <<connVars, services, queue, op, size, result, calls>>

ReceiveClosed(s) ==
  /\ waiter[s].at = "waiting"
  /\ run[services[s]].at = "closed"
  /\ Succeed(s)
  /\ UNCHANGED <<connVars, services, run, queue, op, size, result, calls>>

\* Mutant of QueueError: only the last error is kept.
QueueLastError(s) ==
  /\ waiter[s].at = "queueing"
  /\ queue' = <<s>>
  /\ At(s, "done")
  /\ UNCHANGED <<connVars, services, run, op, size, result, failed, calls>>

QueueError(s) ==
  /\ waiter[s].at = "queueing"
  /\ queue' = Append(queue, s)
  /\ At(s, "done")
  /\ UNCHANGED <<connVars, services, run, op, size, result, failed, calls>>

-----------------------------------------------------------------------------
(* The owner of the group. *)

Begin(name) ==
  /\ op = "idle" /\ sweep = {} /\ calls < MaxCalls
  /\ op' = name
  /\ calls' = calls + 1
  /\ result' = {}
  /\ failed' = {}
  /\ queue' = <<>>

\* A starter that is started again gets a new entry and a new channel.
Start(starters) ==
  LET n == Cardinality(starters)
      order == CHOOSE f \in [starters -> 1 .. n] : \A s, t \in starters : s # t => f[s] # f[t]
      At0(k) == CHOOSE s \in starters : order[s] = k
  IN
  /\ Begin("start")
  /\ Len(run) + n <= MaxRuns
  /\ run' = run \o [k \in 1 .. n |-> [of |-> At0(k), at |-> "starting", conn |-> 0]]
  /\ services' = [s \in Starters |-> IF s \in starters THEN Len(run) + order[s] ELSE services[s]]
  /\ waiter' = [s \in Starters |-> IF s \in starters THEN [at |-> "client", conn |-> 0] ELSE NoWaiter]
  /\ UNCHANGED <<connVars, size>>

WaitUntilStopped ==
  /\ Begin("wait")
  /\ waiter' = [s \in Starters |-> IF services[s] # 0 THEN [at |-> "waiting", conn |-> 0] ELSE NoWaiter]
  /\ UNCHANGED <<connVars, services, run, size>>

\* WaitGroup.Wait, then the two locked sections of DequeueAll.
AllDone ==
  /\ op # "idle" /\ size = -1
  /\ \A s \in Starters : waiter[s].at \in {"off", "done"}
  /\ size' = Len(queue)
  /\ UNCHANGED <<connVars, services, run, waiter, queue, op, result, failed, calls>>

Return ==
  /\ size >= 0
  /\ result' = Elements(Front(queue, size))
  /\ queue' = Rest(queue, size)
  /\ op' = "idle"
  /\ size' = -1
  /\ UNCHANGED <<connVars, services, run, waiter, failed, calls>>

\* CloseAll is a call of the owner; Close may also come from another goroutine
\* while CloseAll is under way.
CleanUp ==
  /\ op = "idle" /\ calls < MaxCalls
  /\ calls' = calls + 1
  /\ (sweep = {} /\ CloseAll) \/ \E a \in Addrs : Close(a)
  /\ UNCHANGED <<services, run, waiter, queue, op, size, result, failed>>

CleanUpNext(a) ==
  /\ CloseNext(a)
  /\ UNCHANGED groupVars

Owner == \/ \E starters \in SUBSET Starters \ {{}} : Start(starters)
         \/ WaitUntilStopped \/ CleanUp

Waiter(s) == \/ NewClient(s) \/ Healthy(s) \/ Timeout(s)
             \/ ReceiveError(s) \/ ReceiveClosed(s) \/ QueueError(s)

GroupNext ==
  /\ ~fatal
  /\ \/ Owner \/ AllDone \/ Return
     \/ \E a \in Addrs : CleanUpNext(a)
     \/ \E s \in Starters : Waiter(s)
     \/ \E i \in Runs : Listen(i) \/ ServiceEnds(i) \/ ServiceFails(i) \/ CloseChannel(i)

\* Timers expire and goroutines that can go on do; nothing makes the owner
\* call, and nothing makes a service end.
GroupFairness ==
  /\ \A s \in Starters : WF_allVars(~fatal /\ Waiter(s))
  /\ WF_allVars(~fatal /\ (AllDone \/ Return))

GroupSpec == GroupInit /\ [][GroupNext]_allVars

-----------------------------------------------------------------------------
(* Properties. *)

\* Start and WaitUntilStopped return exactly the errors of their goroutines
\* (servicegroup.go:82 and 136), although these queue them concurrently; and
\* when WaitUntilStopped returns none, no service of the group is left
\* behind, running or blocked on its error (servicegroup.go:94).
ResultsTrue ==
  [][op # "idle" /\ op' = "idle" =>
       /\ result' = failed
       /\ op = "wait" /\ result' = {} =>
            \A s \in Starters : services[s] # 0 => run[services[s]].at = "closed"]_allVars

\* A listener that a server or CloseAll has closed stays in the map
\* (conn.go:168), so that a service that is started again at the address ends
\* at once.  That is the only reason: Close(addr) makes the address good again.
ListenFailsOnlyIfSpent ==
  [][\A i \in Runs :
       run[i].at = "starting" /\ run'[i].at = "sending" /\ run'[i].conn # 0
         => run[i].of \in spent]_allVars

\* Every call of the owner returns, whatever the services do: each wait has a
\* timeout (servicegroup.go:101 and 142).
OwnerReturns == op # "idle" ~> (op = "idle" \/ fatal)
=============================================================================
