---------------------------- MODULE EventStream ----------------------------
(***************************************************************************)
(* pkg/service/grpc/cache and pkg/service/grpc/stream: how a change of a   *)
(* cache reaches the listeners of a remote Client.                         *)
(*                                                                         *)
(*   AddOrUpdate, Update, Delete -> broadcaster of the Cache -> Events     *)
(*   (one handler per stream) -> gRPC -> Recv -> broadcaster of the Client *)
(*   -> the listeners that ListenerForEvents handed out                    *)
(*                                                                         *)
(* Both broadcasters are the abstract ones.  A call of ListenerForEvents   *)
(* that finds none makes a broadcaster and a stream; both, and the         *)
(* listener the call returns, carry the caller's name.  The contents of    *)
(* the map and of the events are left out.  gRPC is modelled by what the   *)
(* code relies on: messages in order, then the status of the handler; an   *)
(* error of RecvMsg cancels the context of the stream.                     *)
(***************************************************************************)
EXTENDS Broadcast, FiniteSets, FiniteSetsExt, SequencesExt

CONSTANTS
  Callers,     \* goroutines that call ListenerForEvents, each once
  Changes,     \* calls of AddOrUpdate, Update and Delete
  None,
  ChanCap,     \* capacity of a listener's channel
  WindowSize   \* bound: messages of one stream in transit (flow control)

ASSUME Parameters ==
  /\ None \notin Callers \cup Changes
  /\ ChanCap \in Nat \ {0} /\ WindowSize \in Nat \ {0}

\* nil is not a broadcaster either.
ASSUME NoneAssumption == None \notin Broadcasts(Callers, Changes)

VARIABLES
  publishing,  \* the cache was made with publish = TRUE
  mstate,      \* of each change
  cache,       \* the broadcaster of the cache
  hpc, hmsg,   \* Events, per stream: where it is, and the event in its hands
  taken,       \* history: the events it received from its listener
  hctx,        \* in.Context() is done
  net, fin,    \* messages in transit; the handler has returned its status
  link,        \* "none", "up" or "down"
  ctx, sctx,   \* ctx of the caller, and s.Context() of its stream, are done
  rpc, rmsg,   \* Recv, per stream: where it is, and the message in its hands
  pending,     \* events that Write's goroutines are sending, per broadcaster
  lost,        \* history: events given up by their timer there
  cb,          \* the broadcasters of the client
  current,     \* c.broadcasterEvent
  pc, from,    \* of each caller; the broadcaster of its listener
  clpc,        \* Client.Close: "open", "stopped" (broadcaster) or "closed"
  stopped      \* history: the broadcaster that Close stopped

srvVars == <<publishing, mstate, cache>>
hVars == <<hpc, hmsg, taken>>
rVars == <<rpc, rmsg, pending, lost>>
clVars == <<current, pc, from, clpc, stopped>>
vars == <<srvVars, hVars, hctx, net, fin, link, ctx, sctx, rVars, cb, clVars>>

TypeOK ==
  /\ publishing \in BOOLEAN
  /\ mstate \in [Changes -> {"new", "sending", "sent", "dropped"}]
  /\ cache \in Broadcasts(Callers, Changes)
  /\ hpc \in [Callers -> {"off", "called", "select", "send", "returned", "failed"}]
  /\ hmsg \in [Callers -> Changes \cup {None}]
  /\ taken \in [Callers -> SUBSET Changes]
  /\ net \in [Callers -> Seq(Changes)]
  /\ {hctx, fin, ctx, sctx} \subseteq [Callers -> BOOLEAN]
  /\ link \in [Callers -> {"none", "up", "down"}]
  /\ rpc \in [Callers -> {"off", "top", "recv", "write", "ended"}]
  /\ rmsg \in [Callers -> Changes \cup {None}]
  /\ pending \in [Callers -> SUBSET Changes] /\ lost \in [Callers -> SUBSET Changes]
  /\ cb \in [Callers -> Broadcasts(Callers, Changes) \cup {None}]
  /\ {current, stopped} \subseteq Callers \cup {None}
  /\ pc \in [Callers -> {"idle", "create", "open", "subscribe", "failed", "listening"}]
  /\ from \in [Callers -> Callers \cup {None}]
  /\ clpc \in {"open", "stopped", "closed"}

Init ==
  /\ publishing \in BOOLEAN
  /\ mstate = [m \in Changes |-> "new"]
  /\ cache = NewBroadcast(Callers)
  /\ hpc = [s \in Callers |-> "off"] /\ hmsg = [s \in Callers |-> None]
  /\ taken = [s \in Callers |-> {}]
  /\ hctx = [s \in Callers |-> FALSE]
  /\ net = [s \in Callers |-> << >>] /\ fin = [s \in Callers |-> FALSE]
  /\ link = [s \in Callers |-> "none"]
  /\ ctx = [s \in Callers |-> FALSE] /\ sctx = [s \in Callers |-> FALSE]
  /\ rpc = [s \in Callers |-> "off"] /\ rmsg = [s \in Callers |-> None]
  /\ pending = [s \in Callers |-> {}] /\ lost = [s \in Callers |-> {}]
  /\ cb = [s \in Callers |-> None]
  /\ current = None /\ stopped = None
  /\ pc = [p \in Callers |-> "idle"] /\ from = [p \in Callers |-> None]
  /\ clpc = "open"

-----------------------------------------------------------------------------
(* The cache. *)

\* AddOrUpdate, Update, Delete: the map is changed, then Write of the event is
\* refused after Stop and else left to a goroutine.
Change(m) ==
  /\ publishing
  /\ mstate[m] = "new"
  /\ mstate' = [mstate EXCEPT ![m] = IF cache.over THEN "dropped" ELSE "sending"]
  /\ UNCHANGED <<publishing, cache, hVars, hctx, net, fin, link, ctx, sctx, rVars, cb, clVars>>

\* The goroutine of Write, and the worker that takes the event.
PublishEvent(m) ==
  /\ mstate[m] = "sending"
  /\ \/ mstate' = [mstate EXCEPT ![m] = "sent"] /\ cache' = Published(cache, m)
     \/ mstate' = [mstate EXCEPT ![m] = "dropped"] /\ UNCHANGED cache
  /\ UNCHANGED <<publishing, hVars, hctx, net, fin, link, ctx, sctx, rVars, cb, clVars>>

\* The worker serves the listener of stream s.
DeliverEvent(s) ==
  /\ CanDeliver(cache, s)
  /\ \/ Len(cache.chan[s]) < ChanCap /\ cache' = Delivered(cache, s)
     \/ cache' = Dropped(cache, s)
  /\ UNCHANGED <<publishing, mstate, hVars, hctx, net, fin, link, ctx, sctx, rVars, cb, clVars>>

\* Cache.Close: Stop waits for the goroutines of Write.
CacheClose ==
  /\ publishing /\ ~cache.over
  /\ \A m \in Changes : mstate[m] # "sending"
  /\ cache' = Stopped(cache)
  /\ UNCHANGED <<publishing, mstate, hVars, hctx, net, fin, link, ctx, sctx, rVars, cb, clVars>>

-----------------------------------------------------------------------------
(* Events, the handler of one stream. *)

\* The handler returns: gRPC sends its status after its messages.
HandlerReturn(s, how) ==
  /\ hpc' = [hpc EXCEPT ![s] = how]
  /\ hmsg' = [hmsg EXCEPT ![s] = None]
  /\ fin' = [fin EXCEPT ![s] = TRUE]

\* s.cache.Subscribe: an error without a broadcaster or after its end.
HandlerSubscribe(s) ==
  /\ hpc[s] = "called"
  /\ \/ /\ ~publishing \/ cache.over
        /\ HandlerReturn(s, "returned")
        /\ UNCHANGED cache
     \/ /\ publishing /\ ~cache.over
        /\ \E n \in Positions(cache) : cache' = Subscribed(cache, s, n)
        /\ hpc' = [hpc EXCEPT ![s] = "select"]
        /\ UNCHANGED <<hmsg, fin>>
  /\ UNCHANGED <<publishing, mstate, taken, hctx, net, link, ctx, sctx, rVars, cb, clVars>>

\* Mutant: the handler forgets its listener.
HandlerDoneKeepsListener(s) ==
  /\ hpc[s] = "select"
  /\ hctx[s]
  /\ HandlerReturn(s, "returned")
  /\ UNCHANGED <<srvVars, taken, hctx, net, link, ctx, sctx, rVars, cb, clVars>>

\* case <-in.Context().Done()
HandlerDone(s) ==
  /\ hpc[s] = "select"
  /\ hctx[s]
  /\ cache' = Unsubscribed(cache, s)
  /\ HandlerReturn(s, "returned")
  /\ UNCHANGED <<publishing, mstate, taken, hctx, net, link, ctx, sctx, rVars, cb, clVars>>

\* case d := <-l.C
HandlerReceive(s) ==
  /\ hpc[s] = "select"
  /\ cache.chan[s] # << >>
  /\ hmsg' = [hmsg EXCEPT ![s] = Head(cache.chan[s])]
  /\ taken' = [taken EXCEPT ![s] = @ \cup {Head(cache.chan[s])}]
  /\ cache' = Received(cache, s)
  /\ hpc' = [hpc EXCEPT ![s] = "send"]
  /\ UNCHANGED <<publishing, mstate, hctx, net, fin, link, ctx, sctx, rVars, cb, clVars>>

\* The channel is closed and drained: ErrStopped.
HandlerClosed(s) ==
  /\ hpc[s] = "select"
  /\ cache.status[s] = "closed" /\ cache.chan[s] = << >>
  /\ HandlerReturn(s, "returned")
  /\ UNCHANGED <<srvVars, taken, hctx, net, link, ctx, sctx, rVars, cb, clVars>>

\* Mutant: the handler does not wait for the window of the stream.
HandlerSendDropping(s) ==
  /\ hpc[s] = "send"
  /\ net' = [net EXCEPT ![s] = IF Len(@) < WindowSize THEN Append(@, hmsg[s]) ELSE @]
  /\ hpc' = [hpc EXCEPT ![s] = "select"] /\ hmsg' = [hmsg EXCEPT ![s] = None]
  /\ UNCHANGED <<srvVars, taken, hctx, fin, link, ctx, sctx, rVars, cb, clVars>>

\* in.SendMsg succeeds, also when the other end is gone unnoticed.
HandlerSend(s) ==
  /\ hpc[s] = "send"
  /\ Len(net[s]) < WindowSize
  /\ net' = [net EXCEPT ![s] = Append(@, hmsg[s])]
  /\ hpc' = [hpc EXCEPT ![s] = "select"] /\ hmsg' = [hmsg EXCEPT ![s] = None]
  /\ UNCHANGED <<srvVars, taken, hctx, fin, link, ctx, sctx, rVars, cb, clVars>>

\* in.SendMsg fails: the handler returns and does not unsubscribe.
HandlerSendFails(s) ==
  /\ hpc[s] = "send"
  /\ hctx[s]
  /\ HandlerReturn(s, "failed")
  /\ UNCHANGED <<srvVars, taken, hctx, net, link, ctx, sctx, rVars, cb, clVars>>

-----------------------------------------------------------------------------
(* gRPC and the owners of contexts. *)

\* The connection under a stream breaks.
Break(s) ==
  /\ link[s] = "up"
  /\ link' = [link EXCEPT ![s] = "down"]
  /\ UNCHANGED <<srvVars, hVars, hctx, net, fin, ctx, sctx, rVars, cb, clVars>>

\* The owner of the context of a call cancels it.
Cancel(s) ==
  /\ pc[s] # "idle" /\ ~ctx[s]
  /\ ctx' = [ctx EXCEPT ![s] = TRUE]
  /\ UNCHANGED <<srvVars, hVars, hctx, net, fin, link, sctx, rVars, cb, clVars>>

\* The server learns that the stream is over.
Notify(s) ==
  /\ hpc[s] # "off" /\ ~hctx[s]
  /\ link[s] = "down" \/ ctx[s] \/ sctx[s]
  /\ hctx' = [hctx EXCEPT ![s] = TRUE]
  /\ UNCHANGED <<srvVars, hVars, net, fin, link, ctx, sctx, rVars, cb, clVars>>

-----------------------------------------------------------------------------
(* Recv, the goroutine of one stream. *)

\* Mutant: the loop of Recv looks only at the context it was given.
RecvSelectCtxOnly(s) ==
  /\ rpc[s] = "top"
  /\ rpc' = [rpc EXCEPT ![s] = IF ctx[s] THEN "ended" ELSE "recv"]
  /\ UNCHANGED <<srvVars, hVars, hctx, net, fin, link, ctx, sctx, rmsg, pending, lost, cb, clVars>>

\* select: returns when a context is done, else goes on to RecvMsg.
RecvSelect(s) ==
  /\ rpc[s] = "top"
  /\ rpc' = [rpc EXCEPT ![s] = IF ctx[s] \/ sctx[s] THEN "ended" ELSE "recv"]
  /\ UNCHANGED <<srvVars, hVars, hctx, net, fin, link, ctx, sctx, rmsg, pending, lost, cb, clVars>>

\* RecvMsg returns the next message.
RecvMsg(s) ==
  /\ rpc[s] = "recv" /\ ~sctx[s]
  /\ net[s] # << >>
  /\ rmsg' = [rmsg EXCEPT ![s] = Head(net[s])]
  /\ net' = [net EXCEPT ![s] = Tail(@)]
  /\ rpc' = [rpc EXCEPT ![s] = "write"]
  /\ UNCHANGED <<srvVars, hVars, hctx, fin, link, ctx, sctx, pending, lost, cb, clVars>>

\* RecvMsg returns an error: the status of the handler when every message has
\* been received, or the end of the stream; the loop continues.
RecvMsgFails(s) ==
  /\ rpc[s] = "recv"
  /\ (fin[s] /\ net[s] = << >>) \/ link[s] = "down" \/ ctx[s] \/ sctx[s]
  /\ sctx' = [sctx EXCEPT ![s] = TRUE]
  /\ rpc' = [rpc EXCEPT ![s] = "top"]
  /\ UNCHANGED <<srvVars, hVars, hctx, net, fin, link, ctx, rmsg, pending, lost, cb, clVars>>

\* bc.Write: an error ends Recv.
RecvWrite(s) ==
  /\ rpc[s] = "write"
  /\ rmsg' = [rmsg EXCEPT ![s] = None]
  /\ \/ /\ cb[s].over
        /\ rpc' = [rpc EXCEPT ![s] = "ended"]
        /\ UNCHANGED pending
     \/ /\ ~cb[s].over
        /\ rpc' = [rpc EXCEPT ![s] = "top"]
        /\ pending' = [pending EXCEPT ![s] = @ \cup {rmsg[s]}]
  /\ UNCHANGED <<srvVars, hVars, hctx, net, fin, link, ctx, sctx, lost, cb, clVars>>

\* A goroutine of that Write, with the worker of the client's broadcaster:
\* with its context cancelled there is no worker and the timer ends it.
Forward(s, m) ==
  /\ m \in pending[s]
  /\ pending' = [pending EXCEPT ![s] = @ \ {m}]
  /\ \/ cb' = [cb EXCEPT ![s] = Published(@, m)] /\ UNCHANGED lost
     \/ lost' = [lost EXCEPT ![s] = @ \cup {m}] /\ UNCHANGED cb
  /\ UNCHANGED <<srvVars, hVars, hctx, net, fin, link, ctx, sctx, rpc, rmsg, clVars>>

-----------------------------------------------------------------------------
(* The client. *)

\* ListenerForEvents: if c.broadcasterEvent == nil
ListenerForEvents(p) ==
  /\ pc[p] = "idle"
  /\ pc' = [pc EXCEPT ![p] = IF current = None THEN "create" ELSE "subscribe"]
  /\ UNCHANGED <<srvVars, hVars, hctx, net, fin, link, ctx, sctx, rVars, cb,
                 current, from, clpc, stopped>>

\* NewAndStart, and c.broadcasterEvent = cb
StartBroadcaster(p) ==
  /\ pc[p] = "create"
  /\ cb' = [cb EXCEPT ![p] = NewBroadcast(Callers)]
  /\ current' = p
  /\ pc' = [pc EXCEPT ![p] = "open"]
  /\ UNCHANGED <<srvVars, hVars, hctx, net, fin, link, ctx, sctx, rVars, from, clpc, stopped>>

\* c.client.Events: an error is returned, and the broadcaster stays.
OpenStream(p) ==
  /\ pc[p] = "open"
  /\ \/ /\ pc' = [pc EXCEPT ![p] = "failed"]
        /\ UNCHANGED <<hpc, link, rpc>>
     \/ /\ clpc # "closed" /\ ~ctx[p]
        /\ link' = [link EXCEPT ![p] = "up"]
        /\ hpc' = [hpc EXCEPT ![p] = "called"]
        /\ rpc' = [rpc EXCEPT ![p] = "top"]
        /\ pc' = [pc EXCEPT ![p] = "subscribe"]
  /\ UNCHANGED <<srvVars, hmsg, taken, hctx, net, fin, ctx, sctx, rmsg, pending, lost, cb,
                 current, from, clpc, stopped>>

\* c.broadcasterEvent.Subscribe(): of the broadcaster that is there now.
SubscribeClient(p) ==
  /\ pc[p] = "subscribe"
  /\ \/ /\ cb[current].over
        /\ pc' = [pc EXCEPT ![p] = "failed"]
        /\ UNCHANGED <<cb, from>>
     \/ /\ ~cb[current].over
        /\ cb' = [cb EXCEPT ![current] = Subscribed(@, p, Len(@.log))]
        /\ from' = [from EXCEPT ![p] = current]
        /\ pc' = [pc EXCEPT ![p] = "listening"]
  /\ UNCHANGED <<srvVars, hVars, hctx, net, fin, link, ctx, sctx, rVars, current, clpc, stopped>>

\* Mutant: Close leaves the broadcaster alone.
CloseStopsNothing ==
  /\ clpc = "open"
  /\ stopped' = current
  /\ clpc' = "stopped"
  /\ UNCHANGED <<srvVars, hVars, hctx, net, fin, link, ctx, sctx, rVars, cb, current, pc, from>>

\* Client.Close, first half: Stop of the broadcaster that is there, if any,
\* which waits for the goroutines of its Write.
CloseStop ==
  /\ clpc = "open"
  /\ \/ current = None /\ UNCHANGED cb
     \/ /\ current # None
        /\ pending[current] = {}
        /\ cb' = [cb EXCEPT ![current] = Stopped(@)]
  /\ stopped' = current
  /\ clpc' = "stopped"
  /\ UNCHANGED <<srvVars, hVars, hctx, net, fin, link, ctx, sctx, rVars, current, pc, from>>

\* Second half: c.conn.Close() ends every stream of the client.
CloseConn ==
  /\ clpc = "stopped"
  /\ clpc' = "closed"
  /\ link' = [s \in Callers |-> IF link[s] = "up" THEN "down" ELSE link[s]]
  /\ UNCHANGED <<srvVars, hVars, hctx, net, fin, ctx, sctx, rVars, cb, current, pc, from, stopped>>

-----------------------------------------------------------------------------
Handler(s) ==
  \/ HandlerSubscribe(s)
  \/ HandlerDone(s)
  \/ HandlerReceive(s)
  \/ HandlerClosed(s)
  \/ HandlerSend(s)
  \/ HandlerSendFails(s)

Recv(s) == RecvSelect(s) \/ RecvMsg(s) \/ RecvMsgFails(s) \/ RecvWrite(s)

Call(p) == ListenerForEvents(p) \/ StartBroadcaster(p) \/ OpenStream(p) \/ SubscribeClient(p)

Close == CloseStop \/ CloseConn

Next ==
  \/ \E m \in Changes : Change(m) \/ PublishEvent(m)
  \/ CacheClose
  \/ \E s \in Callers :
       \/ DeliverEvent(s) \/ Handler(s)
       \/ Break(s) \/ Cancel(s) \/ Notify(s)
       \/ Recv(s) \/ \E m \in Changes : Forward(s, m)
       \/ Call(s)
  \/ Close

Spec == Init /\ [][Next]_vars

(***************************************************************************)
(* Goroutines run, timers fire, and gRPC tells the server that a stream is *)
(* over; a Close that has begun goes on; select does not pass over a done  *)
(* context for ever.  Nobody has to call, cancel, close or change anything.*)
(***************************************************************************)
Fairness ==
  /\ WF_vars(CloseConn)
  /\ \A s \in Callers :
       /\ WF_vars(Handler(s)) /\ SF_vars(HandlerDone(s))
       /\ WF_vars(Recv(s))
       /\ WF_vars(Notify(s))

FairSpec == Spec /\ Fairness

-----------------------------------------------------------------------------
(* Safety. *)

\* Where an event of stream s can be between its handler and the client's worker.
InTransit(s) == {hmsg[s], rmsg[s]} \cup ToSet(net[s]) \cup pending[s]

\* An event that a handler took from its listener reaches the broadcaster of the
\* client once, as long as both ends of the stream are alive, unless the timer
\* of Recv's Write gave it up; Recv may forward events in another order.
NothingLostInTransit ==
  \A s \in Callers : cb[s] # None =>
    /\ IsInjective(net[s] \o cb[s].log)
    /\ (hpc[s] # "failed" /\ rpc[s] # "ended" /\ ~sctx[s])
          => taken[s] \subseteq InTransit(s) \cup ToSet(cb[s].log) \cup lost[s]

\* A handler that returned has given its listener back, except after a failed
\* SendMsg: then the cache keeps serving a listener that nobody reads, until
\* Close.
LeakOnlyAfterFailedSend ==
  \A s \in Callers : (fin[s] /\ cache.status[s] = "open") => hpc[s] = "failed"

\* After Close every listener that the client handed out has a closed channel,
\* unless calls of ListenerForEvents overlapped and left a broadcaster that
\* the client no longer knows, or Close found none.
OpenAfterCloseOnlyIfRaced ==
  (clpc # "open" /\ stopped # None) =>
    \/ \A p \in Callers : pc[p] = "listening" => cb[from[p]].status[p] = "closed"
    \/ Cardinality({p \in Callers : cb[p] # None}) > 1

(* Liveness, under Fairness. *)

\* A stream comes to an end on both sides, at the client (Recv) and at the
\* server (Events), when its context is cancelled, its connection is lost or
\* closed, or the cache is closed.
StreamsEnd ==
  \A s \in Callers :
    (rpc[s] # "off" /\ (ctx[s] \/ link[s] = "down" \/ clpc = "closed" \/ cache.over))
      ~> (rpc[s] = "ended" /\ fin[s])
=============================================================================
