-------------------------- MODULE EventStreamProofs --------------------------
(***************************************************************************)
(* Proofs about the event stream of the cache, for any number of callers,  *)
(* streams and changes, any capacity of a listener and any window: nothing *)
(* that a handler took is lost or doubled on its way to the client, only a *)
(* failed SendMsg leaves a listener behind, and only overlapping calls     *)
(* leave one open after Close.                                             *)
(***************************************************************************)
EXTENDS EventStream, SequenceTheorems, FiniteSetTheorems, TLAPS

\* No element occurs twice in a sequence.
Unique(q) == \A i, j \in 1 .. Len(q) : q[i] = q[j] => i = j

-----------------------------------------------------------------------------
(* Sequences. *)

\* The elements of a sequence.
LEMMA Elements == ASSUME NEW S, NEW q \in Seq(S)
                  PROVE  /\ ToSet(q) = {q[i] : i \in 1 .. Len(q)} /\ ToSet(q) \subseteq S
                         /\ Len(q) \in Nat
  BY ElementOfSeq, LenProperties DEF ToSet

LEMMA EmptyIs == ToSet(<< >>) = {} /\ Unique(<< >>)
  BY EmptySeq DEF ToSet, Unique

\* One more element.
LEMMA AppendIs ==
  ASSUME NEW S, NEW q \in Seq(S), NEW e \in S
  PROVE  /\ Append(q, e) \in Seq(S)
         /\ ToSet(Append(q, e)) = ToSet(q) \cup {e}
         /\ Unique(q) /\ e \notin ToSet(q) => Unique(Append(q, e))
<1>1. /\ Append(q, e) \in Seq(S) /\ Len(Append(q, e)) = Len(q) + 1
      /\ \A i \in 1 .. Len(q) : Append(q, e)[i] = q[i]
      /\ Append(q, e)[Len(q) + 1] = e
  BY AppendProperties
<1>2. Len(q) \in Nat /\ 1 .. Len(q) + 1 = 1 .. Len(q) \cup {Len(q) + 1}
  BY LenProperties
<1>3. /\ ToSet(q) = {q[i] : i \in 1 .. Len(q)}
      /\ ToSet(Append(q, e)) = {Append(q, e)[i] : i \in 1 .. Len(q) + 1}
  BY <1>1, Elements
<1>4. ToSet(Append(q, e)) = ToSet(q) \cup {e}
  BY <1>1, <1>2, <1>3
<1>5. ASSUME Unique(q), e \notin ToSet(q), NEW i \in 1 .. Len(q) + 1, NEW j \in 1 .. Len(q) + 1,
             Append(q, e)[i] = Append(q, e)[j]
      PROVE  i = j
  BY <1>1, <1>2, <1>3, <1>5 DEF Unique
<1> QED
  BY <1>1, <1>4, <1>5 DEF Unique

\* The first element and the others.
LEMMA TailIs ==
  ASSUME NEW S, NEW q \in Seq(S), q # << >>
  PROVE  /\ Head(q) \in S /\ Tail(q) \in Seq(S)
         /\ ToSet(q) = ToSet(Tail(q)) \cup {Head(q)}
         /\ Unique(q) => Unique(Tail(q)) /\ Head(q) \notin ToSet(Tail(q))
<1>1. /\ Tail(q) \in Seq(S) /\ Len(Tail(q)) = Len(q) - 1
      /\ \A i \in 1 .. Len(Tail(q)) : Tail(q)[i] = q[i + 1]
  BY HeadTailProperties
<1>2. Len(q) \in Nat \ {0} /\ Head(q) = q[1] /\ q[1] \in S
  BY EmptySeq, LenProperties, HeadTailProperties, ElementOfSeq
<1>3. /\ ToSet(q) = {q[i] : i \in 1 .. Len(q)}
      /\ ToSet(Tail(q)) = {Tail(q)[i] : i \in 1 .. Len(q) - 1}
  BY <1>1, Elements
<1>4. ToSet(Tail(q)) \cup {Head(q)} \subseteq ToSet(q)
  BY <1>1, <1>2, <1>3
<1>5. ASSUME NEW i \in 1 .. Len(q) PROVE q[i] \in ToSet(Tail(q)) \cup {Head(q)}
  <2>1. CASE i = 1
    BY <1>2, <2>1
  <2>2. CASE i # 1
    <3>1. i - 1 \in 1 .. Len(q) - 1 /\ q[i] = Tail(q)[i - 1]
      BY <1>1, <1>2, <2>2
    <3> QED
      BY <1>3, <3>1
  <2> QED
    BY <2>1, <2>2
<1>6. ASSUME Unique(q) PROVE Unique(Tail(q)) /\ Head(q) \notin ToSet(Tail(q))
  BY <1>1, <1>2, <1>3, <1>6 DEF Unique
<1> QED
  BY <1>1, <1>2, <1>3, <1>4, <1>5, <1>6

\* Two sequences without a common element.
LEMMA ConcatInjective ==
  ASSUME NEW S, NEW p \in Seq(S), NEW q \in Seq(S),
         Unique(p), Unique(q), ToSet(p) \cap ToSet(q) = {}
  PROVE  IsInjective(p \o q)
<1>1. /\ p \o q \in Seq(S) /\ Len(p \o q) = Len(p) + Len(q)
      /\ \A i \in 1 .. Len(p) : (p \o q)[i] = p[i]
      /\ \A i \in 1 .. Len(q) : (p \o q)[Len(p) + i] = q[i]
  BY ConcatProperties, LenProperties, Z3
<1>2. Len(p) \in Nat /\ Len(q) \in Nat /\ DOMAIN (p \o q) = 1 .. Len(p) + Len(q)
  BY <1>1, LenProperties
<1>3. ASSUME NEW i \in 1 .. Len(p) + Len(q)
      PROVE  \/ i \in 1 .. Len(p) /\ (p \o q)[i] = p[i] /\ p[i] \in ToSet(p)
             \/ i - Len(p) \in 1 .. Len(q) /\ (p \o q)[i] = q[i - Len(p)] /\ q[i - Len(p)] \in ToSet(q)
  <2>1. CASE i \in 1 .. Len(p)
    BY <1>1, <2>1, Elements
  <2>2. CASE i \notin 1 .. Len(p)
    <3>1. i - Len(p) \in 1 .. Len(q) /\ Len(p) + (i - Len(p)) = i
      BY <1>2, <2>2
    <3> QED
      BY <1>1, <3>1, Elements
  <2> QED
    BY <2>1, <2>2
<1>4. ASSUME NEW i \in 1 .. Len(p) + Len(q), NEW j \in 1 .. Len(p) + Len(q),
             (p \o q)[i] = (p \o q)[j]
      PROVE  i = j
  <2>1. i \in Int /\ j \in Int
    BY <1>2
  <2>2. CASE i \in 1 .. Len(p) /\ j \in 1 .. Len(p) /\ p[i] = p[j]
    BY <2>2 DEF Unique
  <2>3. CASE i - Len(p) \in 1 .. Len(q) /\ j - Len(p) \in 1 .. Len(q) /\ q[i - Len(p)] = q[j - Len(p)]
    <3>1. i - Len(p) = j - Len(p)
      BY <2>3 DEF Unique
    <3> QED
      BY <1>2, <2>1, <3>1
  <2> QED
    BY <1>3, <1>4, <2>2, <2>3
<1> QED
  BY <1>2, <1>4 DEF IsInjective

-----------------------------------------------------------------------------
(* What the operations of a broadcaster change. *)

Bs == Broadcasts(Callers, Changes)

LEMMA NewIs ==
  /\ NewBroadcast(Callers) \in Bs
  /\ NewBroadcast(Callers).log = << >> /\ NewBroadcast(Callers).over = FALSE
  /\ \A p \in Callers : /\ NewBroadcast(Callers).status[p] = "new"
                        /\ NewBroadcast(Callers).next[p] = 0
                        /\ NewBroadcast(Callers).chan[p] = << >>
  BY EmptySeq DEF Bs, NewBroadcast, Broadcasts

LEMMA FieldsOf ==
  ASSUME NEW b \in Bs
  PROVE  /\ b.log \in Seq(Changes) /\ b.over \in BOOLEAN
         /\ \A p \in Callers : /\ b.next[p] \in Nat /\ b.chan[p] \in Seq(Changes)
                               /\ b.status[p] \in {"new", "open", "closed"}
  BY DEF Bs, Broadcasts

LEMMA PublishedIs ==
  ASSUME NEW b \in Bs, NEW m \in Changes
  PROVE  /\ Published(b, m) \in Bs
         /\ Published(b, m).log = Append(b.log, m)
         /\ Published(b, m).next = b.next /\ Published(b, m).chan = b.chan
         /\ Published(b, m).status = b.status /\ Published(b, m).over = b.over
  BY AppendProperties DEF Bs, Published, Broadcasts

LEMMA SubscribedIs ==
  ASSUME NEW b \in Bs, NEW l \in Callers, NEW n \in Nat
  PROVE  /\ Subscribed(b, l, n) \in Bs
         /\ Subscribed(b, l, n).log = b.log /\ Subscribed(b, l, n).over = b.over
         /\ Subscribed(b, l, n).chan = b.chan
         /\ Subscribed(b, l, n).status[l] = "open" /\ Subscribed(b, l, n).next[l] = n
         /\ \A p \in Callers \ {l} : /\ Subscribed(b, l, n).status[p] = b.status[p]
                                     /\ Subscribed(b, l, n).next[p] = b.next[p]
  BY DEF Bs, Subscribed, Broadcasts

LEMMA DeliveredIs ==
  ASSUME NEW b \in Bs, NEW l \in Callers, CanDeliver(b, l)
  PROVE  /\ b.next[l] + 1 \in 1 .. Len(b.log) /\ b.log[b.next[l] + 1] \in Changes
         /\ Delivered(b, l) \in Bs
         /\ Delivered(b, l).log = b.log /\ Delivered(b, l).over = b.over
         /\ Delivered(b, l).status = b.status
         /\ Delivered(b, l).next[l] = b.next[l] + 1
         /\ Delivered(b, l).chan[l] = Append(b.chan[l], b.log[b.next[l] + 1])
         /\ \A p \in Callers \ {l} : /\ Delivered(b, l).chan[p] = b.chan[p]
                                     /\ Delivered(b, l).next[p] = b.next[p]
<1>1. b.next[l] + 1 \in 1 .. Len(b.log) /\ b.log[b.next[l] + 1] \in Changes
  BY FieldsOf, LenProperties, ElementOfSeq DEF CanDeliver
<1>2. b.next[l] + 1 \in Nat /\ Append(b.chan[l], b.log[b.next[l] + 1]) \in Seq(Changes)
  BY <1>1, FieldsOf, AppendProperties
<1> QED
  BY <1>1, <1>2 DEF Bs, Delivered, Broadcasts

LEMMA DroppedIs ==
  ASSUME NEW b \in Bs, NEW l \in Callers
  PROVE  /\ Dropped(b, l) \in Bs
         /\ Dropped(b, l).log = b.log /\ Dropped(b, l).over = b.over
         /\ Dropped(b, l).status = b.status /\ Dropped(b, l).chan = b.chan
         /\ Dropped(b, l).next[l] = b.next[l] + 1
         /\ \A p \in Callers \ {l} : Dropped(b, l).next[p] = b.next[p]
<1>1. b.next[l] + 1 \in Nat
  BY FieldsOf
<1> QED
  BY <1>1 DEF Bs, Dropped, Broadcasts

LEMMA ReceivedIs ==
  ASSUME NEW b \in Bs, NEW l \in Callers, b.chan[l] # << >>
  PROVE  /\ Received(b, l) \in Bs
         /\ Received(b, l).log = b.log /\ Received(b, l).over = b.over
         /\ Received(b, l).status = b.status /\ Received(b, l).next = b.next
         /\ Received(b, l).chan[l] = Tail(b.chan[l])
         /\ \A p \in Callers \ {l} : Received(b, l).chan[p] = b.chan[p]
<1>1. Tail(b.chan[l]) \in Seq(Changes)
  BY FieldsOf, HeadTailProperties
<1> QED
  BY <1>1 DEF Bs, Received, Broadcasts

LEMMA UnsubscribedIs ==
  ASSUME NEW b \in Bs, NEW l \in Callers
  PROVE  /\ Unsubscribed(b, l) \in Bs
         /\ Unsubscribed(b, l).log = b.log /\ Unsubscribed(b, l).over = b.over
         /\ Unsubscribed(b, l).next = b.next /\ Unsubscribed(b, l).chan = b.chan
         /\ Unsubscribed(b, l).status[l] = IF b.status[l] = "open" THEN "closed" ELSE b.status[l]
         /\ \A p \in Callers \ {l} : Unsubscribed(b, l).status[p] = b.status[p]
  BY DEF Bs, Unsubscribed, Broadcasts

LEMMA StoppedIs ==
  ASSUME NEW b \in Bs
  PROVE  /\ Stopped(b) \in Bs
         /\ Stopped(b).log = b.log /\ Stopped(b).over = TRUE
         /\ Stopped(b).next = b.next /\ Stopped(b).chan = b.chan
         /\ \A p \in Callers :
              Stopped(b).status[p] = IF b.status[p] = "open" THEN "closed" ELSE b.status[p]
  BY DEF Bs, Stopped, Broadcasts
-----------------------------------------------------------------------------
(* The inductive invariant, part by part. *)

\* What the broadcaster of stream s has taken, if there is one.
LogOf(s) == IF cb[s] = None THEN << >> ELSE cb[s].log

\* The log of the cache: the events that were sent, each once.
CacheLog ==
  /\ Unique(cache.log)
  /\ \A m \in ToSet(cache.log) : mstate[m] = "sent"

\* The handler: what it holds at which place, and its listener in the cache.
HandlerAt(s) ==
  /\ hpc[s] = "send" <=> hmsg[s] # None
  /\ fin[s] <=> hpc[s] \in {"returned", "failed"}
  /\ hpc[s] \in {"off", "called"} =>
       cache.status[s] = "new" /\ cache.chan[s] = << >> /\ taken[s] = {}
  /\ hpc[s] = "returned" => cache.status[s] # "open"

\* Recv: what it holds at which place.
RecvAt(s) ==
  /\ rpc[s] = "write" <=> rmsg[s] # None
  /\ rpc[s] = "off" => pending[s] = {}

\* The listener of a stream in the cache: what it has been given and not yet
\* received, and what its handler has received, are different messages of the
\* log up to its position.
ListenerAt(s) ==
  /\ cache.next[s] <= Len(cache.log)
  /\ Unique(cache.chan[s])
  /\ ToSet(cache.chan[s]) \cap taken[s] = {}
  /\ \A m \in ToSet(cache.chan[s]) \cup taken[s] :
       \E i \in 1 .. cache.next[s] : cache.log[i] = m

\* Where the events of a stream are: each at one place at most, and only those
\* that the handler took are anywhere.
Places(s) ==
  /\ InTransit(s) \ {None} \subseteq taken[s]
  /\ ToSet(LogOf(s)) \subseteq taken[s] \ InTransit(s)
  /\ Unique(net[s]) /\ Unique(LogOf(s))
  /\ hmsg[s] # None => hmsg[s] \notin ToSet(net[s]) \cup {rmsg[s]} \cup pending[s]
  /\ rmsg[s] # None => rmsg[s] \notin ToSet(net[s]) \cup pending[s]
  /\ pending[s] \cap ToSet(net[s]) = {}

\* Every event that was taken is at one of them, as NothingLostInTransit says.
Complete(s) ==
  hpc[s] # "failed" /\ rpc[s] # "ended" /\ ~sctx[s] =>
    taken[s] \subseteq InTransit(s) \cup ToSet(LogOf(s)) \cup lost[s]

StreamInv(s) == HandlerAt(s) /\ RecvAt(s) /\ ListenerAt(s) /\ Places(s) /\ Complete(s)

\* How far a call is: it makes its broadcaster, then its stream, then its
\* listener, each once.
CallAt(p) ==
  /\ pc[p] \in {"idle", "create"} => cb[p] = None
  /\ pc[p] \in {"idle", "create", "open"} => hpc[p] = "off" /\ rpc[p] = "off"
  /\ pc[p] = "open" => cb[p] # None
  /\ pc[p] \in {"open", "subscribe"} => current # None
  /\ rpc[p] # "off" \/ hpc[p] # "off" => cb[p] # None

\* A caller that listens has, or had, an open listener in the broadcaster that
\* it subscribed to.
CallerListens(p) ==
  pc[p] = "listening" =>
    /\ from[p] # None /\ cb[from[p]] # None
    /\ cb[from[p]].status[p] # "new"

\* A broadcaster of the client that is over has no open listener.
OverHasNone(q) ==
  cb[q] # None /\ cb[q].over => \A p \in Callers : cb[q].status[p] # "open"

\* The client: the broadcaster it knows, the one that Close stopped, and that
\* only finitely many were made.
ClientKnows ==
  /\ current # None => cb[current] # None
  /\ clpc # "open" /\ stopped # None => cb[stopped] # None /\ cb[stopped].over
  /\ IsFiniteSet({q \in Callers : cb[q] # None})

ClientInv ==
  /\ \A p \in Callers : CallAt(p) /\ CallerListens(p) /\ OverHasNone(p)
  /\ ClientKnows

IInv == TypeOK /\ CacheLog /\ (\A s \in Callers : StreamInv(s)) /\ ClientInv
-----------------------------------------------------------------------------
(* Streams: what a step leaves alone. *)

SameHandler(s) == hpc'[s] = hpc[s] /\ hmsg'[s] = hmsg[s] /\ taken'[s] = taken[s] /\ fin'[s] = fin[s]

SameRecv(s) ==
  rpc'[s] = rpc[s] /\ rmsg'[s] = rmsg[s] /\ pending'[s] = pending[s] /\ lost'[s] = lost[s]

LogGrows ==
  /\ Len(cache'.log) \in Nat /\ Len(cache'.log) >= Len(cache.log)
  /\ \A i \in 1 .. Len(cache.log) : cache'.log[i] = cache.log[i]

SameListener(s) ==
  /\ cache'.chan[s] = cache.chan[s] /\ cache'.next[s] = cache.next[s]
  /\ LogGrows

SameStream(s) ==
  /\ SameHandler(s) /\ SameRecv(s) /\ SameListener(s) /\ cache'.status[s] = cache.status[s]
  /\ net'[s] = net[s] /\ sctx'[s] = sctx[s] /\ LogOf(s)' = LogOf(s)

LEMMA Typed ==
  ASSUME TypeOK, NEW s \in Callers
  PROVE  /\ cache \in Bs /\ Len(cache.log) \in Nat /\ cache.log \in Seq(Changes)
         /\ cache.next[s] \in Nat /\ cache.chan[s] \in Seq(Changes)
         /\ net[s] \in Seq(Changes) /\ pending[s] \subseteq Changes /\ taken[s] \subseteq Changes
         /\ hmsg[s] \in Changes \cup {None} /\ rmsg[s] \in Changes \cup {None}
         /\ LogOf(s) \in Seq(Changes) /\ None \notin ToSet(LogOf(s))
         /\ None \notin ToSet(net[s]) \cup pending[s] \cup taken[s]
         /\ cb[s] # None => cb[s] \in Bs
<1>1. cache \in Bs /\ (cb[s] # None => cb[s] \in Bs)
  BY DEF TypeOK, Bs
<1>2. LogOf(s) \in Seq(Changes)
  BY <1>1, FieldsOf, EmptySeq DEF LogOf
<1>3. Len(cache.log) \in Nat /\ cache.log \in Seq(Changes)
  BY <1>1, FieldsOf, LenProperties
<1>4. net[s] \in Seq(Changes) /\ pending[s] \subseteq Changes /\ taken[s] \subseteq Changes
  BY DEF TypeOK
<1>5. None \notin ToSet(LogOf(s)) /\ None \notin ToSet(net[s]) \cup pending[s] \cup taken[s]
  BY <1>2, <1>4, Elements, Parameters
<1> QED
  BY <1>1, <1>2, <1>3, <1>4, <1>5, FieldsOf DEF TypeOK

LEMMA ListenerKept ==
  ASSUME TypeOK, NEW s \in Callers, ListenerAt(s), SameListener(s), taken'[s] = taken[s]
  PROVE  ListenerAt(s)'
<1>1. cache.next[s] \in Nat /\ Len(cache.log) \in Nat
  BY Typed
<1>2. cache'.next[s] <= Len(cache'.log)
  BY <1>1 DEF SameListener, LogGrows, ListenerAt
<1>3. ASSUME NEW m \in ToSet(cache.chan[s]) \cup taken[s]
      PROVE  \E i \in 1 .. cache.next[s] : cache'.log[i] = m
  <2>1. PICK i \in 1 .. cache.next[s] : cache.log[i] = m
    BY DEF ListenerAt
  <2>2. i \in 1 .. Len(cache.log)
    BY <1>1, <2>1 DEF ListenerAt
  <2> QED
    BY <2>1, <2>2 DEF SameListener, LogGrows
<1> QED
  BY <1>2, <1>3 DEF SameListener, ListenerAt

LEMMA StreamKept ==
  ASSUME TypeOK, NEW s \in Callers, StreamInv(s), SameStream(s)
  PROVE  StreamInv(s)'
<1>1. HandlerAt(s)' /\ RecvAt(s)'
  BY DEF StreamInv, SameStream, SameHandler, SameRecv, SameListener, HandlerAt, RecvAt
<1>2. ListenerAt(s)'
  BY ListenerKept DEF StreamInv, SameStream, SameHandler
<1>3. InTransit(s)' = InTransit(s)
  BY DEF SameStream, SameHandler, SameRecv, InTransit
<1>4. Places(s)' /\ Complete(s)'
  BY <1>3 DEF StreamInv, SameStream, SameHandler, SameRecv, Places, Complete
<1> QED
  BY <1>1, <1>2, <1>4 DEF StreamInv

\* The log of the cache stays.
LEMMA CacheSame ==
  ASSUME TypeOK, cache'.log = cache.log
  PROVE  LogGrows
<1>1. Len(cache.log) \in Nat
  BY FieldsOf, LenProperties DEF TypeOK, Bs
<1> QED
  BY <1>1 DEF LogGrows
LEMMA ListenerSame ==
  ASSUME TypeOK, cache' = cache
  PROVE  \A s \in Callers : SameListener(s) /\ cache'.status[s] = cache.status[s]
  BY CacheSame DEF SameListener

LEMMA StreamsKept ==
  ASSUME IInv, \A s \in Callers : SameStream(s)
  PROVE  \A s \in Callers : StreamInv(s)'
  BY StreamKept DEF IInv
-----------------------------------------------------------------------------
(* Streams: the steps of the handler and of Recv. *)

LEMMA HandlerSendStream ==
  ASSUME IInv, NEW s \in Callers, HandlerSend(s)
  PROVE  \A q \in Callers : StreamInv(q)'
<1>1. TypeOK /\ StreamInv(s)
  BY DEF IInv
<1>2. /\ hpc[s] = "send" /\ hpc'[s] = "select" /\ hmsg'[s] = None
      /\ net'[s] = Append(net[s], hmsg[s])
      /\ taken'[s] = taken[s] /\ fin'[s] = fin[s] /\ sctx'[s] = sctx[s] /\ LogOf(s)' = LogOf(s)
      /\ SameRecv(s) /\ SameListener(s) /\ cache'.status[s] = cache.status[s]
  BY <1>1, ListenerSame DEF HandlerSend, TypeOK, srvVars, rVars, SameRecv, LogOf
<1>3. ASSUME NEW q \in Callers \ {s} PROVE SameStream(q)
  BY <1>1, ListenerSame DEF HandlerSend, TypeOK, srvVars, rVars, SameStream, SameHandler, SameRecv, LogOf
<1>4. hmsg[s] \in Changes /\ hmsg[s] \notin ToSet(net[s]) /\ net[s] \in Seq(Changes)
  BY <1>1, <1>2, Typed DEF StreamInv, HandlerAt, Places
<1>5. ToSet(net'[s]) = ToSet(net[s]) \cup {hmsg[s]} /\ Unique(net'[s])
  BY <1>1, <1>2, <1>4, AppendIs DEF StreamInv, Places
<1>6. HandlerAt(s)' /\ RecvAt(s)'
  BY <1>1, <1>2, <1>4 DEF StreamInv, HandlerAt, RecvAt, SameRecv, SameListener
<1>7. ListenerAt(s)'
  BY <1>1, <1>2, ListenerKept DEF StreamInv
<1>8. InTransit(s)' = InTransit(s) \cup {None}
  BY <1>2, <1>5 DEF InTransit, SameRecv
<1>9. Places(s)'
  BY <1>1, <1>2, <1>5, <1>8, Typed DEF StreamInv, Places, SameRecv
<1>10. Complete(s)'
  BY <1>1, <1>2, <1>8 DEF StreamInv, Complete, SameRecv
<1>11. StreamInv(s)'
  BY <1>6, <1>7, <1>9, <1>10 DEF StreamInv
<1> QED
  BY <1>1, <1>3, <1>11, StreamKept DEF IInv

\* The handler takes the next event from its listener.
LEMMA HandlerReceiveStream ==
  ASSUME IInv, NEW s \in Callers, HandlerReceive(s)
  PROVE  \A q \in Callers : StreamInv(q)'
<1> DEFINE m == Head(cache.chan[s])
<1>1. TypeOK /\ StreamInv(s)
  BY DEF IInv
<1>a. /\ cache.chan[s] # << >> /\ cache \in Bs /\ cache' = Received(cache, s)
      /\ cache.chan[s] \in Seq(Changes)
  BY <1>1, Typed DEF HandlerReceive
<1>b. LogGrows
  BY <1>1, <1>a, ReceivedIs, CacheSame
<1>2. /\ hpc[s] = "select" /\ hpc'[s] = "send" /\ hmsg'[s] = m /\ taken'[s] = taken[s] \cup {m}
      /\ fin'[s] = fin[s] /\ net'[s] = net[s] /\ sctx'[s] = sctx[s] /\ LogOf(s)' = LogOf(s)
      /\ SameRecv(s)
  BY <1>1 DEF HandlerReceive, TypeOK, rVars, SameRecv, LogOf
<1>3. ASSUME NEW q \in Callers \ {s} PROVE SameStream(q)
  BY <1>1, <1>a, <1>b, ReceivedIs
     DEF HandlerReceive, TypeOK, rVars, SameStream, SameHandler, SameRecv, SameListener, LogOf
<1>4. /\ cache'.chan[s] = Tail(cache.chan[s]) /\ cache'.next[s] = cache.next[s]
      /\ cache'.log = cache.log /\ cache'.status[s] = cache.status[s]
  BY <1>a, ReceivedIs
<1>5. /\ m \in Changes /\ Unique(Tail(cache.chan[s]))
      /\ ToSet(cache.chan[s]) = ToSet(Tail(cache.chan[s])) \cup {m}
      /\ m \notin ToSet(Tail(cache.chan[s]))
  BY <1>1, <1>a, TailIs DEF StreamInv, ListenerAt
<1> HIDE DEF m
<1>6. m \notin taken[s]
  BY <1>1, <1>5 DEF StreamInv, ListenerAt
<1>7. hmsg[s] = None /\ m # None
  BY <1>1, <1>2, <1>5, Parameters DEF StreamInv, HandlerAt
<1>8. HandlerAt(s)' /\ RecvAt(s)'
  BY <1>1, <1>2, <1>4, <1>7 DEF StreamInv, HandlerAt, RecvAt, SameRecv
<1>9. ListenerAt(s)'
  <2>1. ToSet(cache'.chan[s]) \cup taken'[s] = ToSet(cache.chan[s]) \cup taken[s]
    BY <1>2, <1>4, <1>5
  <2>2. ToSet(cache'.chan[s]) \cap taken'[s] = {}
    BY <1>1, <1>2, <1>4, <1>5 DEF StreamInv, ListenerAt
  <2> QED
    BY <1>1, <1>4, <1>5, <2>1, <2>2 DEF StreamInv, ListenerAt
<1>10. InTransit(s)' \cup {None} = InTransit(s) \cup {m}
  BY <1>2, <1>7 DEF InTransit, SameRecv
<1>11. m \notin InTransit(s) \cup ToSet(LogOf(s))
  BY <1>1, <1>6, <1>7 DEF StreamInv, Places
<1>12. Places(s)'
  <2>1. None \notin ToSet(LogOf(s))
    BY <1>1, Typed
  <2>2. InTransit(s)' \ {None} \subseteq taken'[s]
    BY <1>1, <1>2, <1>10 DEF StreamInv, Places
  <2>3. ToSet(LogOf(s)) \subseteq taken'[s] \ InTransit(s)'
    BY <1>1, <1>2, <1>10, <1>11, <2>1 DEF StreamInv, Places
  <2>4. m \notin ToSet(net[s]) \cup {rmsg[s]} \cup pending[s]
    BY <1>11 DEF InTransit
  <2> QED
    BY <1>1, <1>2, <2>2, <2>3, <2>4 DEF StreamInv, Places, SameRecv
<1>13. Complete(s)'
  <2>1. m \in InTransit(s)'
    BY <1>2 DEF InTransit
  <2>2. None \notin taken[s]
    BY <1>1, Typed
  <2> QED
    BY <1>1, <1>2, <1>10, <2>1, <2>2 DEF StreamInv, Complete, SameRecv
<1>14. StreamInv(s)'
  BY <1>8, <1>9, <1>12, <1>13 DEF StreamInv
<1> QED
  BY <1>1, <1>3, <1>14, StreamKept DEF IInv

\* The handler subscribes, or finds that it cannot.
LEMMA HandlerSubscribeStream ==
  ASSUME IInv, NEW s \in Callers, HandlerSubscribe(s)
  PROVE  \A q \in Callers : StreamInv(q)'
<1>1. TypeOK /\ StreamInv(s) /\ cache \in Bs
  BY Typed DEF IInv
<1>2. /\ hpc[s] = "called" /\ taken[s] = {} /\ hmsg[s] = None
      /\ cache.chan[s] = << >> /\ cache.status[s] = "new"
  BY <1>1 DEF HandlerSubscribe, StreamInv, HandlerAt
<1>3. /\ taken'[s] = taken[s] /\ net'[s] = net[s] /\ sctx'[s] = sctx[s]
      /\ LogOf(s)' = LogOf(s) /\ SameRecv(s)
  BY DEF HandlerSubscribe, rVars, SameRecv, LogOf
<1>4. CASE cache' = cache /\ HandlerReturn(s, "returned")
  <2>1. hpc'[s] = "returned" /\ hmsg'[s] = None /\ fin'[s]
    BY <1>1, <1>4 DEF HandlerReturn, TypeOK
  <2>2. \A q \in Callers : SameListener(q) /\ cache'.status[q] = cache.status[q]
    BY <1>1, <1>4, ListenerSame
  <2>3. ASSUME NEW q \in Callers \ {s} PROVE SameStream(q)
    BY <1>1, <1>4, <2>2
       DEF HandlerSubscribe, HandlerReturn, TypeOK, rVars, SameStream, SameHandler, SameRecv, LogOf
  <2>4. InTransit(s)' = InTransit(s)
    BY <1>2, <1>3, <2>1 DEF InTransit, SameRecv
  <2>5. HandlerAt(s)' /\ RecvAt(s)'
    BY <1>1, <1>2, <1>3, <1>4, <2>1 DEF StreamInv, HandlerAt, RecvAt, SameRecv
  <2>6. ListenerAt(s)' /\ Places(s)' /\ Complete(s)'
    BY <1>1, <1>2, <1>3, <2>1, <2>2, <2>4, ListenerKept DEF StreamInv, Places, Complete, SameRecv
  <2>7. StreamInv(s)'
    BY <2>5, <2>6 DEF StreamInv
  <2> QED
    BY <1>1, <2>3, <2>7, StreamKept DEF IInv
<1>5. ASSUME NEW n \in Positions(cache), cache' = Subscribed(cache, s, n),
             hpc' = [hpc EXCEPT ![s] = "select"], UNCHANGED <<hmsg, fin>>
      PROVE  \A q \in Callers : StreamInv(q)'
  <2>1. n \in Nat /\ n <= Len(cache.log)
    BY <1>1, Typed DEF Positions
  <2>2. /\ cache'.next[s] = n /\ cache'.chan[s] = << >> /\ cache'.log = cache.log
        /\ cache'.status[s] = "open"
        /\ \A q \in Callers \ {s} : /\ cache'.next[q] = cache.next[q] /\ cache'.chan[q] = cache.chan[q]
                                    /\ cache'.status[q] = cache.status[q]
    <3>1. /\ cache'.next[s] = n /\ cache'.chan = cache.chan /\ cache'.log = cache.log
          /\ cache'.status[s] = "open"
          /\ \A q \in Callers \ {s} : /\ cache'.next[q] = cache.next[q]
                                      /\ cache'.status[q] = cache.status[q]
      BY <1>1, <1>5, <2>1, SubscribedIs
    <3> QED
      BY <1>2, <3>1
  <2>3. LogGrows
    BY <1>1, <2>2, CacheSame
  <2>4. ASSUME NEW q \in Callers \ {s} PROVE SameStream(q)
    BY <1>1, <1>5, <2>2, <2>3
       DEF HandlerSubscribe, TypeOK, rVars, SameStream, SameHandler, SameRecv, SameListener, LogOf
  <2>5. hpc'[s] = "select" /\ hmsg'[s] = hmsg[s] /\ fin'[s] = fin[s]
    BY <1>1, <1>5 DEF TypeOK
  <2>6. HandlerAt(s)' /\ RecvAt(s)'
    BY <1>1, <1>2, <1>3, <2>5 DEF StreamInv, HandlerAt, RecvAt, SameRecv
  <2>7. ListenerAt(s)'
    BY <1>2, <1>3, <2>1, <2>2, EmptyIs DEF ListenerAt
  <2>8. InTransit(s)' = InTransit(s)
    BY <1>3, <2>5 DEF InTransit, SameRecv
  <2>9. Places(s)' /\ Complete(s)'
    BY <1>1, <1>2, <1>3, <2>5, <2>8 DEF StreamInv, Places, Complete, SameRecv
  <2>10. StreamInv(s)'
    BY <2>6, <2>7, <2>9 DEF StreamInv
  <2> QED
    BY <1>1, <2>4, <2>10, StreamKept DEF IInv
<1> QED
  BY <1>4, <1>5 DEF HandlerSubscribe

\* The handler returns: because its context is done, its channel is closed or
\* SendMsg has failed.
LEMMA HandlerReturnStream ==
  ASSUME IInv, NEW s \in Callers, HandlerDone(s) \/ HandlerClosed(s) \/ HandlerSendFails(s)
  PROVE  \A q \in Callers : StreamInv(q)'
<1>1. TypeOK /\ StreamInv(s) /\ cache \in Bs
  BY Typed DEF IInv
<1>2. /\ fin'[s] /\ hmsg'[s] = None /\ taken'[s] = taken[s] /\ net'[s] = net[s]
      /\ sctx'[s] = sctx[s] /\ LogOf(s)' = LogOf(s) /\ SameRecv(s)
      /\ hpc[s] \notin {"off", "called"} /\ hpc'[s] \in {"returned", "failed"}
      /\ hpc'[s] # "failed" => hpc[s] = "select"
  BY <1>1 DEF HandlerDone, HandlerClosed, HandlerSendFails, HandlerReturn, TypeOK, srvVars, rVars,
              SameRecv, LogOf
<1>3. /\ cache'.log = cache.log /\ cache'.next = cache.next /\ cache'.chan = cache.chan
      /\ \A q \in Callers \ {s} : cache'.status[q] = cache.status[q]
      /\ hpc'[s] = "returned" => cache'.status[s] # "open"
  <2>1. CASE HandlerDone(s)
    BY <1>1, <2>1, UnsubscribedIs DEF HandlerDone
  <2>2. CASE HandlerClosed(s)
    BY <1>1, <2>2 DEF HandlerClosed, srvVars
  <2>3. CASE HandlerSendFails(s)
    BY <1>1, <2>3 DEF HandlerSendFails, HandlerReturn, srvVars, TypeOK
  <2> QED
    BY <2>1, <2>2, <2>3
<1>4. LogGrows /\ \A q \in Callers : SameListener(q)
  BY <1>1, <1>3, CacheSame DEF SameListener
<1>5. ASSUME NEW q \in Callers \ {s} PROVE SameStream(q)
  BY <1>1, <1>3, <1>4 DEF HandlerDone, HandlerClosed, HandlerSendFails, HandlerReturn, TypeOK, srvVars,
                          rVars, SameStream, SameHandler, SameRecv, LogOf
<1>6. HandlerAt(s)' /\ RecvAt(s)' /\ ListenerAt(s)'
  BY <1>1, <1>2, <1>3, <1>4, ListenerKept DEF StreamInv, HandlerAt, RecvAt, SameRecv
<1>7. InTransit(s)' \subseteq InTransit(s) \cup {None}
  BY <1>2 DEF InTransit, SameRecv
<1>8. Places(s)'
  BY <1>1, <1>2, <1>7, Typed DEF StreamInv, Places, SameRecv
<1>9. hpc'[s] # "failed" => InTransit(s)' = InTransit(s)
  BY <1>1, <1>2 DEF StreamInv, HandlerAt, InTransit, SameRecv
<1>10. Complete(s)'
  BY <1>1, <1>2, <1>9 DEF StreamInv, Complete, SameRecv
<1>11. StreamInv(s)'
  BY <1>6, <1>8, <1>10 DEF StreamInv
<1> QED
  BY <1>1, <1>5, <1>11, StreamKept DEF IInv

\* Recv looks at its contexts, or RecvMsg fails.
LEMMA RecvSelectStream ==
  ASSUME IInv, NEW s \in Callers, RecvSelect(s) \/ RecvMsgFails(s)
  PROVE  \A q \in Callers : StreamInv(q)'
<1>1. TypeOK /\ StreamInv(s)
  BY DEF IInv
<1>2. /\ SameHandler(s) /\ SameListener(s) /\ cache'.status[s] = cache.status[s]
      /\ net'[s] = net[s] /\ LogOf(s)' = LogOf(s)
      /\ rmsg'[s] = rmsg[s] /\ pending'[s] = pending[s] /\ lost'[s] = lost[s]
      /\ rpc[s] \in {"top", "recv"} /\ rpc'[s] \in {"top", "recv", "ended"}
      /\ sctx[s] => sctx'[s]
  BY <1>1, ListenerSame
     DEF RecvSelect, RecvMsgFails, TypeOK, srvVars, hVars, SameHandler, LogOf
<1>3. ASSUME NEW q \in Callers \ {s} PROVE SameStream(q)
  BY <1>1, ListenerSame DEF RecvSelect, RecvMsgFails, TypeOK, srvVars, hVars, SameStream, SameHandler,
                            SameRecv, LogOf
<1>4. InTransit(s)' = InTransit(s)
  BY <1>2 DEF InTransit, SameHandler
<1>5. HandlerAt(s)' /\ RecvAt(s)' /\ ListenerAt(s)'
  BY <1>1, <1>2, ListenerKept DEF StreamInv, HandlerAt, RecvAt, SameHandler, SameListener
<1>6. Places(s)' /\ Complete(s)'
  BY <1>1, <1>2, <1>4 DEF StreamInv, Places, Complete, SameHandler
<1>7. StreamInv(s)'
  BY <1>5, <1>6 DEF StreamInv
<1> QED
  BY <1>1, <1>3, <1>7, StreamKept DEF IInv

\* RecvMsg returns the next message.
LEMMA RecvMsgStream ==
  ASSUME IInv, NEW s \in Callers, RecvMsg(s)
  PROVE  \A q \in Callers : StreamInv(q)'
<1> DEFINE m == Head(net[s])
<1>1. TypeOK /\ StreamInv(s) /\ net[s] \in Seq(Changes) /\ net[s] # << >>
  BY Typed DEF IInv, RecvMsg
<1>2. /\ SameHandler(s) /\ SameListener(s) /\ cache'.status[s] = cache.status[s]
      /\ net'[s] = Tail(net[s]) /\ rmsg'[s] = m /\ LogOf(s)' = LogOf(s)
      /\ pending'[s] = pending[s] /\ lost'[s] = lost[s] /\ sctx'[s] = sctx[s]
      /\ rpc[s] = "recv" /\ rpc'[s] = "write"
  BY <1>1, ListenerSame DEF RecvMsg, TypeOK, srvVars, hVars, SameHandler, LogOf
<1>3. ASSUME NEW q \in Callers \ {s} PROVE SameStream(q)
  BY <1>1, ListenerSame DEF RecvMsg, TypeOK, srvVars, hVars, SameStream, SameHandler, SameRecv, LogOf
<1>4. /\ m \in Changes /\ Unique(net'[s]) /\ m \notin ToSet(net'[s])
      /\ ToSet(net[s]) = ToSet(net'[s]) \cup {m}
  BY <1>1, <1>2, TailIs DEF StreamInv, Places
<1> HIDE DEF m
<1>5. rmsg[s] = None /\ m # None
  BY <1>1, <1>2, <1>4, Parameters DEF StreamInv, RecvAt
<1>6. InTransit(s)' \cup {None} = InTransit(s)
  BY <1>2, <1>4, <1>5 DEF InTransit, SameHandler
<1>7. HandlerAt(s)' /\ RecvAt(s)' /\ ListenerAt(s)'
  BY <1>1, <1>2, <1>5, ListenerKept DEF StreamInv, HandlerAt, RecvAt, SameHandler, SameListener
<1>8. Places(s)'
  <2>1. m \notin pending[s] /\ (hmsg[s] # None => hmsg[s] # m)
    BY <1>1, <1>4 DEF StreamInv, Places
  <2> QED
    BY <1>1, <1>2, <1>4, <1>6, <2>1, Typed DEF StreamInv, Places, SameHandler
<1>9. Complete(s)'
  BY <1>1, <1>2, <1>6, Typed DEF StreamInv, Complete, SameHandler
<1>10. StreamInv(s)'
  BY <1>7, <1>8, <1>9 DEF StreamInv
<1> QED
  BY <1>1, <1>3, <1>10, StreamKept DEF IInv

\* Recv hands the message to Write.
LEMMA RecvWriteStream ==
  ASSUME IInv, NEW s \in Callers, RecvWrite(s)
  PROVE  \A q \in Callers : StreamInv(q)'
<1>1. TypeOK /\ StreamInv(s)
  BY DEF IInv
<1>2. /\ SameHandler(s) /\ SameListener(s) /\ cache'.status[s] = cache.status[s]
      /\ net'[s] = net[s] /\ rmsg'[s] = None /\ LogOf(s)' = LogOf(s)
      /\ lost'[s] = lost[s] /\ sctx'[s] = sctx[s]
      /\ rpc[s] = "write"
      /\ \/ rpc'[s] = "ended" /\ pending'[s] = pending[s]
         \/ rpc'[s] = "top" /\ pending'[s] = pending[s] \cup {rmsg[s]}
  BY <1>1, ListenerSame DEF RecvWrite, TypeOK, srvVars, hVars, SameHandler, LogOf
<1>3. ASSUME NEW q \in Callers \ {s} PROVE SameStream(q)
  BY <1>1, ListenerSame DEF RecvWrite, TypeOK, srvVars, hVars, SameStream, SameHandler, SameRecv, LogOf
<1>4. rmsg[s] # None /\ rmsg[s] \notin ToSet(net[s]) \cup pending[s] \cup {hmsg[s]}
  BY <1>1, <1>2 DEF StreamInv, RecvAt, Places
<1>5. /\ InTransit(s)' \subseteq InTransit(s) \cup {None}
      /\ rpc'[s] = "top" => InTransit(s) \subseteq InTransit(s)'
  BY <1>2, <1>4 DEF InTransit, SameHandler
<1>6. HandlerAt(s)' /\ RecvAt(s)' /\ ListenerAt(s)'
  BY <1>1, <1>2, ListenerKept DEF StreamInv, HandlerAt, RecvAt, SameHandler, SameListener
<1>7. Places(s)'
  BY <1>1, <1>2, <1>4, <1>5, Typed DEF StreamInv, Places, SameHandler
<1>8. Complete(s)'
  BY <1>1, <1>2, <1>5 DEF StreamInv, Complete, SameHandler
<1>9. StreamInv(s)'
  BY <1>6, <1>7, <1>8 DEF StreamInv
<1> QED
  BY <1>1, <1>3, <1>9, StreamKept DEF IInv

\* A goroutine of Write brings its event to the worker, or gives it up.
LEMMA ForwardStream ==
  ASSUME IInv, NEW s \in Callers, NEW m \in Changes, Forward(s, m)
  PROVE  \A q \in Callers : StreamInv(q)'
<1>1. TypeOK /\ StreamInv(s)
  BY DEF IInv
<1>2. cb[s] \in Bs /\ cb[s] # None
  BY <1>1, Typed DEF IInv, ClientInv, CallAt, StreamInv, RecvAt, Forward
<1>3. /\ SameHandler(s) /\ SameListener(s) /\ cache'.status[s] = cache.status[s]
      /\ net'[s] = net[s] /\ rmsg'[s] = rmsg[s] /\ sctx'[s] = sctx[s] /\ rpc'[s] = rpc[s]
      /\ m \in pending[s] /\ pending'[s] = pending[s] \ {m}
      /\ \/ lost'[s] = lost[s] /\ cb'[s] = Published(cb[s], m)
         \/ lost'[s] = lost[s] \cup {m} /\ cb'[s] = cb[s]
  BY <1>1, ListenerSame DEF Forward, TypeOK, srvVars, hVars, SameHandler
<1>4. ASSUME NEW q \in Callers \ {s} PROVE SameStream(q)
  BY <1>1, ListenerSame DEF Forward, TypeOK, srvVars, hVars, SameStream, SameHandler, SameRecv, LogOf
<1>5. m \notin ToSet(LogOf(s)) /\ m # None
  BY <1>1, <1>3, Parameters DEF StreamInv, Places, InTransit
<1>6. /\ Unique(LogOf(s)')
      /\ \/ lost'[s] = lost[s] /\ ToSet(LogOf(s)') = ToSet(LogOf(s)) \cup {m}
         \/ lost'[s] = lost[s] \cup {m} /\ ToSet(LogOf(s)') = ToSet(LogOf(s))
  <2>1. CASE lost'[s] = lost[s] /\ cb'[s] = Published(cb[s], m)
    <3>1. cb'[s] \in Bs /\ cb'[s] # None /\ cb'[s].log = Append(cb[s].log, m)
      BY <1>2, <2>1, PublishedIs, NoneAssumption DEF Bs
    <3>2. LogOf(s)' = Append(LogOf(s), m)
      BY <1>2, <3>1 DEF LogOf
    <3> QED
      BY <1>1, <1>5, <2>1, <3>2, AppendIs, Typed DEF StreamInv, Places
  <2>2. CASE lost'[s] = lost[s] \cup {m} /\ cb'[s] = cb[s]
    BY <1>1, <2>2 DEF LogOf, StreamInv, Places
  <2> QED
    BY <1>3, <2>1, <2>2
<1>7. m \notin ToSet(net[s]) \cup {hmsg[s], rmsg[s]}
  BY <1>1, <1>3, <1>5 DEF StreamInv, Places
<1>8. InTransit(s)' = InTransit(s) \ {m}
  BY <1>3, <1>7 DEF InTransit, SameHandler
<1>9. HandlerAt(s)' /\ RecvAt(s)' /\ ListenerAt(s)'
  BY <1>1, <1>3, ListenerKept DEF StreamInv, HandlerAt, RecvAt, SameHandler, SameListener
<1>10. Places(s)'
  <2>1. m \in taken[s]
    BY <1>1, <1>3, <1>5 DEF StreamInv, Places, InTransit
  <2> QED
    BY <1>1, <1>3, <1>6, <1>8, <2>1 DEF StreamInv, Places, SameHandler
<1>11. Complete(s)'
  BY <1>1, <1>3, <1>6, <1>8 DEF StreamInv, Complete, SameHandler
<1>12. StreamInv(s)'
  BY <1>9, <1>10, <1>11 DEF StreamInv
<1> QED
  BY <1>1, <1>4, <1>12, StreamKept DEF IInv

-----------------------------------------------------------------------------
(* Streams: the steps of the cache. *)

\* The worker of the cache serves a listener.
LEMMA DeliverStream ==
  ASSUME IInv, NEW s \in Callers, DeliverEvent(s)
  PROVE  CacheLog' /\ \A q \in Callers : StreamInv(q)'
<1> DEFINE e == cache.log[cache.next[s] + 1]
<1>1. TypeOK /\ StreamInv(s) /\ cache \in Bs /\ CanDeliver(cache, s) /\ CacheLog
  BY Typed DEF IInv, DeliverEvent
<1>2. /\ cache.next[s] \in Nat /\ cache.next[s] + 1 \in 1 .. Len(cache.log) /\ Len(cache.log) \in Nat
      /\ cache.chan[s] \in Seq(Changes) /\ e \in Changes
  BY <1>1, DeliveredIs, Typed
<1>3. /\ cache'.log = cache.log /\ cache'.status = cache.status
      /\ cache'.next[s] = cache.next[s] + 1
      /\ cache'.chan[s] = cache.chan[s] \/ cache'.chan[s] = Append(cache.chan[s], e)
      /\ \A q \in Callers \ {s} : cache'.chan[q] = cache.chan[q] /\ cache'.next[q] = cache.next[q]
  <2>1. CASE cache' = Delivered(cache, s)
    BY <1>1, <2>1, DeliveredIs
  <2>2. CASE cache' = Dropped(cache, s)
    BY <1>1, <2>2, DroppedIs
  <2> QED
    BY <2>1, <2>2 DEF DeliverEvent
<1>4. LogGrows
  BY <1>1, <1>3, CacheSame
<1>5. CacheLog'
  BY <1>1, <1>3 DEF CacheLog, DeliverEvent
<1>6. ASSUME NEW q \in Callers \ {s} PROVE SameStream(q)
  BY <1>3, <1>4 DEF DeliverEvent, hVars, rVars, SameStream, SameHandler, SameRecv, SameListener, LogOf
<1>7. \A i \in 1 .. cache.next[s] : cache.log[i] # e
  BY <1>1, <1>2 DEF CacheLog, Unique
<1> HIDE DEF e
<1>8. e \notin ToSet(cache.chan[s]) \cup taken[s]
  BY <1>1, <1>7 DEF StreamInv, ListenerAt
<1>9. /\ Unique(cache'.chan[s]) /\ ToSet(cache'.chan[s]) \subseteq ToSet(cache.chan[s]) \cup {e}
  <2>1. Unique(cache.chan[s])
    BY <1>1 DEF StreamInv, ListenerAt
  <2>2. /\ Unique(Append(cache.chan[s], e))
        /\ ToSet(Append(cache.chan[s], e)) = ToSet(cache.chan[s]) \cup {e}
    BY <1>2, <1>8, <2>1, AppendIs
  <2> QED
    BY <1>3, <2>1, <2>2
<1>10. taken'[s] = taken[s] /\ hpc[s] \notin {"off", "called"}
  BY <1>1 DEF DeliverEvent, hVars, CanDeliver, StreamInv, HandlerAt
<1>11. ListenerAt(s)'
  <2>1. cache'.next[s] <= Len(cache'.log) /\ ToSet(cache'.chan[s]) \cap taken'[s] = {}
    BY <1>1, <1>2, <1>3, <1>8, <1>9, <1>10 DEF StreamInv, ListenerAt
  <2>2. ASSUME NEW m \in ToSet(cache'.chan[s]) \cup taken'[s]
        PROVE  \E i \in 1 .. cache'.next[s] : cache'.log[i] = m
    <3>1. CASE m = e
      BY <1>2, <1>3, <3>1 DEF e
    <3>2. CASE m \in ToSet(cache.chan[s]) \cup taken[s]
      <4>1. PICK i \in 1 .. cache.next[s] : cache.log[i] = m
        BY <1>1, <3>2 DEF StreamInv, ListenerAt
      <4> QED
        BY <1>2, <1>3, <4>1
    <3> QED
      BY <1>9, <1>10, <3>1, <3>2
  <2> QED
    BY <1>9, <2>1, <2>2 DEF ListenerAt
<1>12. HandlerAt(s)' /\ RecvAt(s)'
  <2>1. SameHandler(s) /\ SameRecv(s)
    BY DEF DeliverEvent, hVars, rVars, SameHandler, SameRecv
  <2> QED
    BY <1>1, <1>3, <1>10, <2>1 DEF SameHandler, SameRecv, StreamInv, HandlerAt, RecvAt
<1>13. Places(s)' /\ Complete(s)'
  BY <1>1 DEF DeliverEvent, hVars, rVars, StreamInv, Places, Complete, InTransit, LogOf
<1>14. StreamInv(s)'
  BY <1>11, <1>12, <1>13 DEF StreamInv
<1> QED
  BY <1>1, <1>5, <1>6, <1>14, StreamKept DEF IInv

\* The worker of the cache takes an event, which it has not had before.
LEMMA PublishStream ==
  ASSUME IInv, NEW m \in Changes, PublishEvent(m)
  PROVE  CacheLog' /\ \A q \in Callers : StreamInv(q)'
<1>1. TypeOK /\ CacheLog /\ cache \in Bs /\ cache.log \in Seq(Changes) /\ Len(cache.log) \in Nat
  BY FieldsOf, LenProperties DEF IInv, TypeOK, Bs
<1>2. m \notin ToSet(cache.log)
  BY <1>1 DEF CacheLog, PublishEvent
<1>3. \A n \in ToSet(cache.log) : mstate'[n] = "sent"
  BY <1>1, <1>2, Elements DEF CacheLog, PublishEvent, TypeOK
<1>4. CASE mstate'[m] = "sent" /\ cache' = Published(cache, m)
  <2>1. /\ cache'.log = Append(cache.log, m) /\ cache'.next = cache.next
        /\ cache'.chan = cache.chan /\ cache'.status = cache.status
    BY <1>1, <1>4, PublishedIs
  <2>2. CacheLog'
    BY <1>1, <1>2, <1>3, <1>4, <2>1, AppendIs DEF CacheLog
  <2>3. LogGrows
    BY <1>1, <2>1, AppendProperties DEF LogGrows
  <2>4. \A q \in Callers : SameStream(q)
    BY <2>1, <2>3 DEF PublishEvent, hVars, rVars, SameStream, SameHandler, SameRecv, SameListener, LogOf
  <2> QED
    BY <2>2, <2>4, StreamsKept
<1>5. CASE UNCHANGED cache
  <2>1. CacheLog'
    BY <1>1, <1>3, <1>5 DEF CacheLog
  <2>2. \A q \in Callers : SameStream(q)
    BY <1>1, <1>5, ListenerSame DEF PublishEvent, hVars, rVars, SameStream, SameHandler, SameRecv, LogOf
  <2> QED
    BY <2>1, <2>2, StreamsKept
<1> QED
  BY <1>1, <1>4, <1>5 DEF PublishEvent, TypeOK

\* The cache is closed.
LEMMA CacheCloseStream ==
  ASSUME IInv, CacheClose
  PROVE  CacheLog' /\ \A q \in Callers : StreamInv(q)'
<1>1. TypeOK /\ CacheLog /\ cache \in Bs
  BY DEF IInv, TypeOK, Bs
<1>2. /\ cache'.log = cache.log /\ cache'.next = cache.next /\ cache'.chan = cache.chan
      /\ \A q \in Callers :
           cache'.status[q] = IF cache.status[q] = "open" THEN "closed" ELSE cache.status[q]
  BY <1>1, StoppedIs DEF CacheClose
<1>3. CacheLog'
  BY <1>1, <1>2 DEF CacheLog, CacheClose
<1>4. ASSUME NEW q \in Callers PROVE StreamInv(q)'
  <2>1. StreamInv(q) /\ SameListener(q)
    BY <1>1, <1>2, CacheSame DEF IInv, SameListener
  <2>2. HandlerAt(q)' /\ RecvAt(q)'
    BY <1>2, <2>1 DEF CacheClose, hVars, rVars, StreamInv, HandlerAt, RecvAt
  <2>3. ListenerAt(q)'
    BY <1>1, <2>1, ListenerKept DEF CacheClose, hVars, StreamInv
  <2>4. Places(q)' /\ Complete(q)'
    BY <2>1 DEF CacheClose, hVars, rVars, StreamInv, Places, Complete, InTransit, LogOf
  <2> QED
    BY <2>2, <2>3, <2>4 DEF StreamInv
<1> QED
  BY <1>3, <1>4

-----------------------------------------------------------------------------
(* Streams: the steps of gRPC, the owners of contexts and the client. *)

\* The client has a broadcaster where it subscribes to one or stops one.
LEMMA LogsKept ==
  ASSUME IInv,
         (\E p \in Callers : StartBroadcaster(p) \/ SubscribeClient(p)) \/ CloseStop
  PROVE  \A q \in Callers : LogOf(q)' = LogOf(q)
<1>1. TypeOK /\ ClientKnows /\ \A p \in Callers : CallAt(p)
  BY DEF IInv, ClientInv
<1>2. ASSUME NEW p \in Callers, StartBroadcaster(p)
      PROVE  \A q \in Callers : LogOf(q)' = LogOf(q)
  BY <1>1, <1>2, NewIs, NoneAssumption DEF StartBroadcaster, CallAt, LogOf, TypeOK, Bs
<1>3. CASE UNCHANGED cb
  BY <1>3 DEF LogOf
<1>4. ASSUME current # None, NEW b \in Bs, b.log = cb[current].log, cb' = [cb EXCEPT ![current] = b]
      PROVE  \A q \in Callers : LogOf(q)' = LogOf(q)
  BY <1>1, <1>4, NoneAssumption DEF ClientKnows, LogOf, TypeOK, Bs
<1>5. current # None => current \in Callers /\ cb[current] \in Bs
  BY <1>1 DEF ClientKnows, TypeOK, Bs
<1>6. ASSUME NEW p \in Callers, SubscribeClient(p)
      PROVE  \A q \in Callers : LogOf(q)' = LogOf(q)
  <2>1. current # None
    BY <1>1, <1>6 DEF SubscribeClient, CallAt
  <2>2. Len(cb[current].log) \in Nat
    BY <1>5, <2>1, FieldsOf, LenProperties
  <2>3. /\ Subscribed(cb[current], p, Len(cb[current].log)) \in Bs
        /\ Subscribed(cb[current], p, Len(cb[current].log)).log = cb[current].log
    BY <1>5, <2>1, <2>2, SubscribedIs
  <2> QED
    BY <1>3, <1>4, <1>6, <2>1, <2>3 DEF SubscribeClient
<1>7. CASE CloseStop
  BY <1>3, <1>4, <1>5, <1>7, StoppedIs DEF CloseStop
<1> QED
  BY <1>2, <1>6, <1>7

LEMMA ClientStream ==
  ASSUME IInv,
         \/ \E m \in Changes : Change(m)
         \/ \E p \in Callers :
              \/ Break(p) \/ Cancel(p) \/ Notify(p)
              \/ ListenerForEvents(p) \/ StartBroadcaster(p) \/ SubscribeClient(p)
         \/ CloseStop \/ CloseConn \/ UNCHANGED vars
  PROVE  CacheLog' /\ \A q \in Callers : StreamInv(q)'
<1>1. TypeOK /\ CacheLog
  BY DEF IInv
<1>2. /\ cache' = cache /\ hpc' = hpc /\ hmsg' = hmsg /\ taken' = taken /\ fin' = fin /\ net' = net
      /\ sctx' = sctx /\ rpc' = rpc /\ rmsg' = rmsg /\ pending' = pending /\ lost' = lost
  BY DEF Change, Break, Cancel, Notify, ListenerForEvents, StartBroadcaster, SubscribeClient, CloseStop,
         CloseConn, srvVars, hVars, rVars, vars
<1>3. \A n \in Changes : mstate[n] = "sent" => mstate'[n] = "sent"
  BY <1>1 DEF Change, Break, Cancel, Notify, ListenerForEvents, StartBroadcaster, SubscribeClient,
         CloseStop, CloseConn, srvVars, vars, TypeOK
<1>4. \A q \in Callers : LogOf(q)' = LogOf(q)
  BY LogsKept DEF Change, Break, Cancel, Notify, ListenerForEvents, CloseConn, vars, LogOf
<1>5. CacheLog'
  <2>1. ToSet(cache.log) \subseteq Changes
    BY <1>1, Elements, FieldsOf DEF TypeOK, Bs
  <2> QED
    BY <1>1, <1>2, <1>3, <2>1 DEF CacheLog
<1>6. \A q \in Callers : SameStream(q)
  BY <1>1, <1>2, <1>4, ListenerSame DEF SameStream, SameHandler, SameRecv
<1> QED
  BY <1>5, <1>6, StreamsKept

\* The stream is opened, or is not.
LEMMA OpenStreamStream ==
  ASSUME IInv, NEW p \in Callers, OpenStream(p)
  PROVE  \A q \in Callers : StreamInv(q)'
<1>1. TypeOK /\ StreamInv(p) /\ hpc[p] = "off" /\ rpc[p] = "off"
  BY DEF IInv, ClientInv, CallAt, OpenStream
<1>2. /\ hmsg'[p] = hmsg[p] /\ taken'[p] = taken[p] /\ fin'[p] = fin[p] /\ net'[p] = net[p]
      /\ sctx'[p] = sctx[p] /\ LogOf(p)' = LogOf(p) /\ rmsg'[p] = rmsg[p]
      /\ pending'[p] = pending[p] /\ lost'[p] = lost[p]
      /\ SameListener(p) /\ cache'.status[p] = cache.status[p]
      /\ hpc'[p] \in {"off", "called"} /\ rpc'[p] \in {"off", "top"}
  BY <1>1, ListenerSame DEF OpenStream, TypeOK, srvVars, LogOf
<1>3. ASSUME NEW q \in Callers \ {p} PROVE SameStream(q)
  BY <1>1, ListenerSame DEF OpenStream, TypeOK, srvVars, SameStream, SameHandler, SameRecv, LogOf
<1>4. InTransit(p)' = InTransit(p)
  BY <1>2 DEF InTransit
<1>5. HandlerAt(p)' /\ RecvAt(p)' /\ ListenerAt(p)'
  BY <1>1, <1>2, ListenerKept DEF StreamInv, HandlerAt, RecvAt, SameListener
<1>6. Places(p)' /\ Complete(p)'
  BY <1>1, <1>2, <1>4 DEF StreamInv, Places, Complete
<1>7. StreamInv(p)'
  BY <1>5, <1>6 DEF StreamInv
<1> QED
  BY <1>1, <1>3, <1>7, StreamKept DEF IInv

-----------------------------------------------------------------------------
(* The steps of the streams, together. *)

\* Only the worker of the cache writes its log.
LEMMA LogSame ==
  ASSUME IInv, NEW s \in Callers,
         Handler(s) \/ Recv(s) \/ OpenStream(s) \/ \E m \in Changes : Forward(s, m)
  PROVE  CacheLog'
<1>1. cache \in Bs /\ CacheLog /\ Len(cache.log) \in Nat
  BY FieldsOf, LenProperties DEF IInv, TypeOK, Bs
<1>2. mstate' = mstate
  BY DEF Handler, HandlerSubscribe, HandlerDone, HandlerReceive, HandlerClosed, HandlerSend,
         HandlerSendFails, Recv, RecvSelect, RecvMsg, RecvMsgFails, RecvWrite, OpenStream, Forward, srvVars
<1>3. cache'.log = cache.log
  <2>1. CASE HandlerSubscribe(s)
    <3>1. ASSUME NEW n \in Positions(cache), cache' = Subscribed(cache, s, n)
          PROVE  cache'.log = cache.log
      <4>1. n \in Nat
        BY <1>1 DEF Positions
      <4> QED
        BY <1>1, <3>1, <4>1, SubscribedIs
    <3> QED
      BY <2>1, <3>1 DEF HandlerSubscribe
  <2>2. CASE HandlerDone(s)
    BY <1>1, <2>2, UnsubscribedIs DEF HandlerDone
  <2>3. CASE HandlerReceive(s)
    BY <1>1, <2>3, ReceivedIs DEF HandlerReceive
  <2>4. CASE UNCHANGED cache
    BY <2>4
  <2> QED
    BY <2>1, <2>2, <2>3, <2>4
       DEF Handler, HandlerClosed, HandlerSend, HandlerSendFails, Recv, RecvSelect, RecvMsg, RecvMsgFails,
           RecvWrite, OpenStream, Forward, srvVars
<1> QED
  BY <1>1, <1>2, <1>3 DEF CacheLog

LEMMA StreamStep ==
  ASSUME IInv, [Next]_vars
  PROVE  CacheLog' /\ \A q \in Callers : StreamInv(q)'
<1>1. ASSUME NEW s \in Callers, Handler(s)
      PROVE  CacheLog' /\ \A q \in Callers : StreamInv(q)'
  BY <1>1, LogSame, HandlerSubscribeStream, HandlerReturnStream, HandlerReceiveStream, HandlerSendStream
     DEF Handler
<1>2. ASSUME NEW s \in Callers, Recv(s)
      PROVE  CacheLog' /\ \A q \in Callers : StreamInv(q)'
  BY <1>2, LogSame, RecvSelectStream, RecvMsgStream, RecvWriteStream DEF Recv
<1>3. ASSUME NEW s \in Callers, NEW m \in Changes, Forward(s, m)
      PROVE  CacheLog' /\ \A q \in Callers : StreamInv(q)'
  BY <1>3, LogSame, ForwardStream
<1>4. ASSUME NEW s \in Callers, OpenStream(s)
      PROVE  CacheLog' /\ \A q \in Callers : StreamInv(q)'
  BY <1>4, LogSame, OpenStreamStream
<1>5. ASSUME NEW s \in Callers, DeliverEvent(s)
      PROVE  CacheLog' /\ \A q \in Callers : StreamInv(q)'
  BY <1>5, DeliverStream
<1>6. ASSUME NEW m \in Changes, PublishEvent(m)
      PROVE  CacheLog' /\ \A q \in Callers : StreamInv(q)'
  BY <1>6, PublishStream
<1> QED
  BY <1>1, <1>2, <1>3, <1>4, <1>5, <1>6, CacheCloseStream, ClientStream DEF Next, Call, Close

-----------------------------------------------------------------------------
(* The client. *)

\* No stream begins.
NoneBegins ==
  \A p \in Callers : /\ hpc'[p] # "off" => hpc[p] # "off"
                     /\ rpc'[p] # "off" => rpc[p] # "off"

\* What the invariant says of the callers and of the client: no step of the cache,
\* of a handler or of Recv changes it.
LEMMA ClientKept ==
  ASSUME ClientInv, cb' = cb, current' = current, pc' = pc, from' = from, clpc' = clpc, stopped' = stopped,
         NoneBegins
  PROVE  ClientInv'
<1>1. ASSUME NEW p \in Callers PROVE CallAt(p)'
  <2>1. CallAt(p) /\ (hpc'[p] # "off" => hpc[p] # "off") /\ (rpc'[p] # "off" => rpc[p] # "off")
    BY DEF NoneBegins, ClientInv
  <2> QED
    BY <2>1 DEF CallAt
<1>2. \A p \in Callers : CallerListens(p)' /\ OverHasNone(p)'
  BY DEF ClientInv, CallerListens, OverHasNone
<1>3. ClientKnows'
  BY DEF ClientInv, ClientKnows
<1> QED
  BY <1>1, <1>2, <1>3 DEF ClientInv

\* A broadcaster of the client is replaced by one that is as much over, with the
\* same listeners.
LEMMA ForwardClient ==
  ASSUME IInv, NEW s \in Callers, NEW m \in Changes, Forward(s, m)
  PROVE  ClientInv'
<1>1. TypeOK /\ ClientInv /\ RecvAt(s)
  BY DEF IInv, StreamInv
<1>2. cb[s] \in Bs /\ cb[s] # None
  BY <1>1, Typed DEF IInv, ClientInv, CallAt, RecvAt, Forward
<1>3. /\ \A q \in Callers : cb'[q] = None <=> cb[q] = None
      /\ \A q \in Callers : cb[q] # None =>
           cb'[q].status = cb[q].status /\ cb'[q].over = cb[q].over
  <2>1. CASE cb' = [cb EXCEPT ![s] = Published(@, m)]
    <3>1. /\ Published(cb[s], m) # None
          /\ Published(cb[s], m).status = cb[s].status /\ Published(cb[s], m).over = cb[s].over
      BY <1>2, PublishedIs, NoneAssumption DEF Bs
    <3>2. cb'[s] = Published(cb[s], m) /\ \A q \in Callers \ {s} : cb'[q] = cb[q]
      BY <1>1, <2>1 DEF TypeOK
    <3> QED
      BY <1>2, <3>1, <3>2
  <2>2. CASE UNCHANGED cb
    BY <2>2
  <2> QED
    BY <2>1, <2>2 DEF Forward
<1>4. /\ current' = current /\ pc' = pc /\ from' = from /\ clpc' = clpc /\ stopped' = stopped
      /\ hpc' = hpc /\ rpc' = rpc
  BY DEF Forward, hVars, clVars
<1>5. \A p \in Callers : CallAt(p)' /\ OverHasNone(p)'
  BY <1>1, <1>3, <1>4 DEF ClientInv, CallAt, OverHasNone
<1>6. /\ current \in Callers \cup {None} /\ stopped \in Callers \cup {None}
      /\ \A p \in Callers : from[p] \in Callers \cup {None}
  BY <1>1 DEF TypeOK
<1>7. \A p \in Callers : CallerListens(p)'
  BY <1>1, <1>3, <1>4, <1>6 DEF ClientInv, CallerListens
<1>8. {q \in Callers : cb'[q] # None} = {q \in Callers : cb[q] # None}
  BY <1>3
<1>9. ClientKnows'
  BY <1>1, <1>3, <1>4, <1>6, <1>8 DEF ClientInv, ClientKnows
<1> QED
  BY <1>5, <1>7, <1>9 DEF ClientInv

\* The caller makes its broadcaster.
LEMMA StartClient ==
  ASSUME IInv, NEW p \in Callers, StartBroadcaster(p)
  PROVE  ClientInv'
<1>1. TypeOK /\ ClientInv /\ cb[p] = None
  BY DEF IInv, ClientInv, CallAt, StartBroadcaster
<1>2. /\ cb'[p] = NewBroadcast(Callers) /\ cb'[p] # None
      /\ \A q \in Callers \ {p} : cb'[q] = cb[q] /\ pc'[q] = pc[q]
      /\ current' = p /\ pc[p] = "create" /\ pc'[p] = "open"
      /\ from' = from /\ clpc' = clpc /\ stopped' = stopped /\ hpc' = hpc /\ rpc' = rpc
  BY <1>1, NewIs, NoneAssumption DEF StartBroadcaster, TypeOK, Bs, hVars, rVars
<1>3. \A q \in Callers : CallAt(q)'
  BY <1>1, <1>2, Parameters DEF ClientInv, CallAt
<1>4. \A q \in Callers : OverHasNone(q)'
  BY <1>1, <1>2, NewIs DEF ClientInv, OverHasNone
<1>5. /\ current' \in Callers /\ stopped \in Callers \cup {None}
      /\ \A q \in Callers : from[q] \in Callers \cup {None}
  BY <1>1, <1>2 DEF TypeOK
<1>6. \A q \in Callers : CallerListens(q)'
  BY <1>1, <1>2, <1>5 DEF ClientInv, CallerListens
<1>7. {q \in Callers : cb'[q] # None} = {q \in Callers : cb[q] # None} \cup {p}
  BY <1>2
<1>8. IsFiniteSet({q \in Callers : cb'[q] # None})
  BY <1>1, <1>7, FS_AddElement DEF ClientInv, ClientKnows
<1>9. ClientKnows'
  BY <1>1, <1>2, <1>5, <1>8 DEF ClientInv, ClientKnows
<1> QED
  BY <1>3, <1>4, <1>6, <1>9 DEF ClientInv

\* The caller subscribes to the broadcaster that the client knows.
LEMMA SubscribeClientClient ==
  ASSUME IInv, NEW p \in Callers, SubscribeClient(p)
  PROVE  ClientInv'
<1>1. TypeOK /\ ClientInv /\ current \in Callers /\ current # None /\ cb[current] # None
      /\ cb[current] \in Bs /\ pc[p] = "subscribe"
  BY DEF IInv, ClientInv, ClientKnows, CallAt, SubscribeClient, TypeOK, Bs
<1>2. CASE cb' = cb /\ from' = from /\ pc' = [pc EXCEPT ![p] = "failed"]
  BY <1>1, <1>2 DEF SubscribeClient, TypeOK, ClientInv, CallAt, CallerListens, OverHasNone, ClientKnows,
                    hVars, rVars
<1>3. CASE /\ ~cb[current].over
           /\ cb' = [cb EXCEPT ![current] = Subscribed(@, p, Len(@.log))]
           /\ from' = [from EXCEPT ![p] = current]
           /\ pc' = [pc EXCEPT ![p] = "listening"]
  <2> DEFINE b == Subscribed(cb[current], p, Len(cb[current].log))
  <2>1. Len(cb[current].log) \in Nat
    BY <1>1, FieldsOf, LenProperties
  <2>2. /\ b # None /\ b.over = cb[current].over /\ b.status[p] = "open"
        /\ \A q \in Callers \ {p} : b.status[q] = cb[current].status[q]
    BY <1>1, <2>1, SubscribedIs, NoneAssumption DEF Bs
  <2>3. /\ cb'[current] = b /\ \A q \in Callers \ {current} : cb'[q] = cb[q]
        /\ from'[p] = current /\ \A q \in Callers \ {p} : from'[q] = from[q]
        /\ pc'[p] = "listening" /\ \A q \in Callers \ {p} : pc'[q] = pc[q]
    BY <1>1, <1>3 DEF TypeOK
  <2> HIDE DEF b
  <2>4. current' = current /\ clpc' = clpc /\ stopped' = stopped /\ hpc' = hpc /\ rpc' = rpc
    BY DEF SubscribeClient, hVars, rVars
  <2>5. \A q \in Callers : cb'[q] = None <=> cb[q] = None
    BY <1>1, <2>2, <2>3
  <2>6. \A q \in Callers : CallAt(q)'
    BY <1>1, <2>3, <2>4, <2>5 DEF ClientInv, CallAt
  <2>7. \A q \in Callers : OverHasNone(q)'
    BY <1>1, <1>3, <2>2, <2>3 DEF ClientInv, OverHasNone
  <2>8. stopped \in Callers \cup {None} /\ \A q \in Callers : from[q] \in Callers \cup {None}
    BY <1>1 DEF TypeOK
  <2>9. \A q \in Callers : CallerListens(q)'
    BY <1>1, <2>2, <2>3, <2>5, <2>8 DEF ClientInv, CallerListens
  <2>10. {q \in Callers : cb'[q] # None} = {q \in Callers : cb[q] # None}
    BY <2>5
  <2>11. ClientKnows'
    <3>1. current' # None => cb'[current'] # None
      BY <1>1, <2>4, <2>5
    <3>2. clpc' # "open" /\ stopped' # None => cb'[stopped'] # None /\ cb'[stopped'].over
      BY <1>1, <2>2, <2>3, <2>4, <2>8 DEF ClientInv, ClientKnows
    <3> QED
      BY <1>1, <2>10, <3>1, <3>2 DEF ClientInv, ClientKnows
  <2> QED
    BY <2>6, <2>7, <2>9, <2>11 DEF ClientInv
<1> QED
  BY <1>2, <1>3 DEF SubscribeClient

\* Close stops the broadcaster that the client knows.
LEMMA CloseStopClient ==
  ASSUME IInv, CloseStop
  PROVE  ClientInv'
<1>1. TypeOK /\ ClientInv /\ current \in Callers \cup {None} /\ clpc = "open"
  BY DEF IInv, CloseStop, TypeOK
<1>2. /\ stopped' = current /\ clpc' = "stopped"
      /\ current' = current /\ pc' = pc /\ from' = from /\ hpc' = hpc /\ rpc' = rpc
  BY DEF CloseStop, hVars, rVars
<1>3. CASE current = None /\ cb' = cb
  BY <1>1, <1>2, <1>3 DEF ClientInv, CallAt, CallerListens, OverHasNone, ClientKnows
<1>4. CASE current # None /\ cb' = [cb EXCEPT ![current] = Stopped(@)]
  <2>1. cb[current] \in Bs /\ cb[current] # None /\ current \in Callers
    BY <1>1, <1>4 DEF ClientInv, ClientKnows, TypeOK, Bs
  <2>2. /\ Stopped(cb[current]) # None /\ Stopped(cb[current]).over
        /\ \A q \in Callers :
             /\ Stopped(cb[current]).status[q] # "open"
             /\ cb[current].status[q] # "new" => Stopped(cb[current]).status[q] # "new"
    BY <2>1, StoppedIs, FieldsOf, NoneAssumption DEF Bs
  <2>3. cb'[current] = Stopped(cb[current]) /\ \A q \in Callers \ {current} : cb'[q] = cb[q]
    BY <1>1, <1>4, <2>1 DEF TypeOK
  <2>4. \A q \in Callers : cb'[q] = None <=> cb[q] = None
    BY <2>1, <2>2, <2>3
  <2>5. \A q \in Callers : CallAt(q)'
    BY <1>1, <1>2, <2>4 DEF ClientInv, CallAt
  <2>6. \A q \in Callers : OverHasNone(q)'
    BY <1>1, <2>2, <2>3 DEF ClientInv, OverHasNone
  <2>7. \A q \in Callers : from[q] \in Callers \cup {None}
    BY <1>1 DEF TypeOK
  <2>8. \A q \in Callers : CallerListens(q)'
    BY <1>1, <1>2, <2>2, <2>3, <2>4, <2>7 DEF ClientInv, CallerListens
  <2>9. {q \in Callers : cb'[q] # None} = {q \in Callers : cb[q] # None}
    BY <2>4
  <2>10. ClientKnows'
    BY <1>1, <1>2, <2>1, <2>2, <2>3, <2>4, <2>9 DEF ClientInv, ClientKnows
  <2> QED
    BY <2>5, <2>6, <2>8, <2>10 DEF ClientInv
<1> QED
  BY <1>3, <1>4 DEF CloseStop

LEMMA ClientStep ==
  ASSUME IInv, [Next]_vars
  PROVE  ClientInv'
<1>1. TypeOK /\ ClientInv
  BY DEF IInv
<1>2. ASSUME \/ \E m \in Changes : Change(m) \/ PublishEvent(m)
             \/ CacheClose
             \/ \E s \in Callers : \/ DeliverEvent(s) \/ Break(s) \/ Cancel(s) \/ Notify(s)
                                   \/ Recv(s) \/ Handler(s)
             \/ UNCHANGED vars
      PROVE  ClientInv'
  <2>1. cb' = cb /\ current' = current /\ pc' = pc /\ from' = from /\ clpc' = clpc /\ stopped' = stopped
    BY <1>2 DEF Change, PublishEvent, CacheClose, DeliverEvent, Break, Cancel, Notify, Recv, RecvSelect,
                RecvMsg, RecvMsgFails, RecvWrite, Handler, HandlerSubscribe, HandlerDone, HandlerReceive,
                HandlerClosed, HandlerSend, HandlerSendFails, clVars, vars
  <2>2. NoneBegins
    <3>1. CASE hpc' = hpc /\ rpc' = rpc
      BY <3>1 DEF NoneBegins
    <3>2. ASSUME NEW s \in Callers, Recv(s)
          PROVE  NoneBegins
      BY <1>1, <3>2 DEF Recv, RecvSelect, RecvMsg, RecvMsgFails, RecvWrite, hVars, TypeOK, NoneBegins
    <3>3. ASSUME NEW s \in Callers, Handler(s)
          PROVE  NoneBegins
      BY <1>1, <3>3 DEF Handler, HandlerSubscribe, HandlerDone, HandlerReceive, HandlerClosed,
                        HandlerSend, HandlerSendFails, HandlerReturn, rVars, TypeOK, NoneBegins
    <3> QED
      BY <1>2, <3>1, <3>2, <3>3 DEF Change, PublishEvent, CacheClose, DeliverEvent, Break, Cancel, Notify,
                                    hVars, rVars, vars
  <2> QED
    BY <1>1, <2>1, <2>2, ClientKept
<1>3. ASSUME NEW p \in Callers, ListenerForEvents(p)
      PROVE  ClientInv'
  BY <1>1, <1>3 DEF ListenerForEvents, hVars, rVars, TypeOK, ClientInv, CallAt, CallerListens,
                    OverHasNone, ClientKnows
<1>4. ASSUME NEW p \in Callers, OpenStream(p)
      PROVE  ClientInv'
  <2>1. /\ cb' = cb /\ current' = current /\ from' = from /\ clpc' = clpc /\ stopped' = stopped
        /\ pc[p] = "open" /\ pc'[p] \in {"failed", "subscribe"}
        /\ \A q \in Callers \ {p} : pc'[q] = pc[q] /\ hpc'[q] = hpc[q] /\ rpc'[q] = rpc[q]
    BY <1>1, <1>4 DEF OpenStream, TypeOK
  <2> QED
    BY <1>1, <2>1 DEF ClientInv, CallAt, CallerListens, OverHasNone, ClientKnows
<1>5. ASSUME CloseConn
      PROVE  ClientInv'
  BY <1>1, <1>5 DEF CloseConn, hVars, rVars, ClientInv, CallAt, CallerListens, OverHasNone, ClientKnows
<1> QED
  BY <1>2, <1>3, <1>4, <1>5, ForwardClient, StartClient, SubscribeClientClient, CloseStopClient
     DEF Next, Call, Close

-----------------------------------------------------------------------------
(* Types. *)

LEMMA CacheType ==
  ASSUME IInv, [Next]_vars
  PROVE  cache' \in Bs
<1>1. cache \in Bs
  BY DEF IInv, TypeOK, Bs
<1>2. ASSUME NEW s \in Callers, HandlerSubscribe(s) \/ HandlerReceive(s) \/ HandlerDone(s)
      PROVE  cache' \in Bs
  <2>1. ASSUME NEW n \in Positions(cache) PROVE Subscribed(cache, s, n) \in Bs
    <3>1. n \in Nat
      BY DEF Positions
    <3> QED
      BY <1>1, <3>1, SubscribedIs
  <2>2. Unsubscribed(cache, s) \in Bs
    BY <1>1, UnsubscribedIs
  <2>3. cache.chan[s] # << >> => Received(cache, s) \in Bs
    BY <1>1, ReceivedIs
  <2> QED
    BY <1>1, <1>2, <2>1, <2>2, <2>3 DEF HandlerSubscribe, HandlerReceive, HandlerDone
<1>3. ASSUME NEW s \in Callers, DeliverEvent(s) PROVE cache' \in Bs
  BY <1>1, <1>3, DeliveredIs, DroppedIs DEF DeliverEvent
<1>4. ASSUME NEW m \in Changes, PublishEvent(m) PROVE cache' \in Bs
  BY <1>1, <1>4, PublishedIs DEF PublishEvent
<1>5. CASE CacheClose
  BY <1>1, <1>5, StoppedIs DEF CacheClose
<1>6. CASE UNCHANGED cache
  BY <1>1, <1>6
<1>7. ASSUME NEW s \in Callers, Recv(s) \/ Call(s) \/ Break(s) \/ Cancel(s) \/ Notify(s)
      PROVE  UNCHANGED cache
  BY <1>7 DEF Recv, RecvSelect, RecvMsg, RecvMsgFails, RecvWrite, Call, ListenerForEvents,
              StartBroadcaster, OpenStream, SubscribeClient, Break, Cancel, Notify, srvVars
<1>8. ASSUME NEW s \in Callers, HandlerClosed(s) \/ HandlerSend(s) \/ HandlerSendFails(s)
      PROVE  UNCHANGED cache
  BY <1>8 DEF HandlerClosed, HandlerSend, HandlerSendFails, srvVars
<1>9. ASSUME \/ \E m \in Changes : Change(m) \/ \E s \in Callers : Forward(s, m)
             \/ Close \/ UNCHANGED vars
      PROVE  UNCHANGED cache
  BY <1>9 DEF Change, Forward, Close, CloseStop, CloseConn, srvVars, vars
<1> QED
  BY <1>2, <1>3, <1>4, <1>5, <1>6, <1>7, <1>8, <1>9 DEF Next, Handler

LEMMA BroadcasterType ==
  ASSUME IInv, [Next]_vars
  PROVE  cb' \in [Callers -> Bs \cup {None}]
<1>1. TypeOK /\ cb \in [Callers -> Bs \cup {None}]
  BY DEF IInv, TypeOK, Bs
<1>2. current # None => cb[current] \in Bs /\ Len(cb[current].log) \in Nat
  BY <1>1, FieldsOf, LenProperties DEF IInv, ClientInv, ClientKnows, TypeOK
<1>3. ASSUME NEW s \in Callers, NEW m \in Changes, Forward(s, m)
      PROVE  cb' \in [Callers -> Bs \cup {None}]
  <2>1. cb[s] \in Bs
    BY <1>1, <1>3 DEF IInv, ClientInv, CallAt, StreamInv, RecvAt, Forward
  <2>2. Published(cb[s], m) \in Bs
    BY <2>1, PublishedIs
  <2> QED
    BY <1>1, <1>3, <2>2 DEF Forward
<1>4. ASSUME NEW p \in Callers, StartBroadcaster(p)
      PROVE  cb' \in [Callers -> Bs \cup {None}]
  BY <1>1, <1>4, NewIs DEF StartBroadcaster
<1>5. ASSUME NEW p \in Callers, SubscribeClient(p)
      PROVE  cb' \in [Callers -> Bs \cup {None}]
  <2>1. current # None
    BY <1>5 DEF IInv, ClientInv, CallAt, SubscribeClient
  <2>2. Subscribed(cb[current], p, Len(cb[current].log)) \in Bs
    BY <1>2, <2>1, SubscribedIs
  <2> QED
    BY <1>1, <1>5, <2>2 DEF SubscribeClient
<1>6. CASE CloseStop
  BY <1>1, <1>2, <1>6, StoppedIs DEF CloseStop
<1>7. ASSUME \/ \E m \in Changes : Change(m) \/ PublishEvent(m)
             \/ CacheClose \/ CloseConn \/ UNCHANGED vars
             \/ \E s \in Callers : \/ DeliverEvent(s) \/ Handler(s) \/ Recv(s)
                                   \/ Break(s) \/ Cancel(s) \/ Notify(s)
                                   \/ ListenerForEvents(s) \/ OpenStream(s)
      PROVE  UNCHANGED cb
  BY <1>7 DEF Change, PublishEvent, CacheClose, CloseConn, vars, DeliverEvent, Handler, HandlerSubscribe,
              HandlerDone, HandlerReceive, HandlerClosed, HandlerSend, HandlerSendFails, Recv, RecvSelect,
              RecvMsg, RecvMsgFails, RecvWrite, Break, Cancel, Notify, ListenerForEvents, OpenStream
<1> QED
  BY <1>1, <1>3, <1>4, <1>5, <1>6, <1>7 DEF Next, Call, Close

\* The handlers and Recv, with what is between them.
StreamsTyped ==
  /\ hmsg \in [Callers -> Changes \cup {None}] /\ taken \in [Callers -> SUBSET Changes]
  /\ net \in [Callers -> Seq(Changes)] /\ rmsg \in [Callers -> Changes \cup {None}]
  /\ pending \in [Callers -> SUBSET Changes] /\ lost \in [Callers -> SUBSET Changes]

LEMMA StreamTypes ==
  ASSUME IInv, [Next]_vars
  PROVE  StreamsTyped'
<1>1. TypeOK /\ StreamsTyped
  BY DEF IInv, TypeOK, StreamsTyped
<1>2. ASSUME NEW s \in Callers, Handler(s)
      PROVE  StreamsTyped'
  <2>1. CASE HandlerReceive(s)
    <3>1. Head(cache.chan[s]) \in Changes
      BY <1>1, <2>1, Typed, TailIs DEF HandlerReceive
    <3> QED
      BY <1>1, <2>1, <3>1 DEF HandlerReceive, rVars, StreamsTyped
  <2>2. CASE HandlerSend(s)
    <3>1. hmsg[s] \in Changes /\ net[s] \in Seq(Changes)
      BY <1>1, <2>2, Typed DEF HandlerSend, IInv, StreamInv, HandlerAt
    <3>2. Append(net[s], hmsg[s]) \in Seq(Changes)
      BY <3>1, AppendProperties
    <3> QED
      BY <1>1, <2>2, <3>2 DEF HandlerSend, rVars, StreamsTyped
  <2> QED
    BY <1>1, <1>2, <2>1, <2>2 DEF Handler, HandlerSubscribe, HandlerDone, HandlerClosed, HandlerSendFails,
                                  HandlerReturn, rVars, StreamsTyped
<1>3. ASSUME NEW s \in Callers, Recv(s)
      PROVE  StreamsTyped'
  <2>1. CASE RecvMsg(s)
    <3>1. Head(net[s]) \in Changes /\ Tail(net[s]) \in Seq(Changes)
      BY <1>1, <2>1, Typed, TailIs DEF RecvMsg
    <3> QED
      BY <1>1, <2>1, <3>1 DEF RecvMsg, hVars, StreamsTyped
  <2>2. CASE RecvWrite(s)
    <3>1. rmsg[s] \in Changes
      BY <1>1, <2>2, Typed DEF RecvWrite, IInv, StreamInv, RecvAt
    <3>2. pending[s] \cup {rmsg[s]} \in SUBSET Changes
      BY <1>1, <3>1, Typed
    <3> QED
      BY <1>1, <2>2, <3>2 DEF RecvWrite, hVars, StreamsTyped
  <2> QED
    BY <1>1, <1>3, <2>1, <2>2 DEF Recv, RecvSelect, RecvMsgFails, hVars, StreamsTyped
<1>4. ASSUME NEW s \in Callers, NEW m \in Changes, Forward(s, m)
      PROVE  StreamsTyped'
  BY <1>1, <1>4 DEF Forward, hVars, StreamsTyped
<1>5. ASSUME \/ \E m \in Changes : Change(m) \/ PublishEvent(m)
             \/ CacheClose \/ Close \/ UNCHANGED vars
             \/ \E s \in Callers : DeliverEvent(s) \/ Break(s) \/ Cancel(s) \/ Notify(s) \/ Call(s)
      PROVE  StreamsTyped'
  BY <1>1, <1>5 DEF StreamsTyped, Change, PublishEvent, CacheClose, Close, CloseStop, CloseConn, vars,
                    DeliverEvent, Break, Cancel, Notify, Call, ListenerForEvents, StartBroadcaster,
                    OpenStream, SubscribeClient, hVars, rVars
<1> QED
  BY <1>2, <1>3, <1>4, <1>5 DEF Next

\* The places and the flags.
HandlersTyped ==
  /\ hpc \in [Callers -> {"off", "called", "select", "send", "returned", "failed"}]
  /\ hctx \in [Callers -> BOOLEAN] /\ fin \in [Callers -> BOOLEAN]
  /\ mstate \in [Changes -> {"new", "sending", "sent", "dropped"}] /\ publishing \in BOOLEAN

ClientsTyped ==
  /\ rpc \in [Callers -> {"off", "top", "recv", "write", "ended"}]
  /\ ctx \in [Callers -> BOOLEAN] /\ sctx \in [Callers -> BOOLEAN]
  /\ link \in [Callers -> {"none", "up", "down"}]
  /\ current \in Callers \cup {None} /\ stopped \in Callers \cup {None}
  /\ pc \in [Callers -> {"idle", "create", "open", "subscribe", "failed", "listening"}]
  /\ from \in [Callers -> Callers \cup {None}]
  /\ clpc \in {"open", "stopped", "closed"}

LEMMA TypeParts ==
  TypeOK => /\ cache \in Bs /\ cb \in [Callers -> Bs \cup {None}]
            /\ StreamsTyped /\ HandlersTyped /\ ClientsTyped
<1>1. {hctx, fin, ctx, sctx} \subseteq [Callers -> BOOLEAN]
      <=> /\ hctx \in [Callers -> BOOLEAN] /\ fin \in [Callers -> BOOLEAN]
          /\ ctx \in [Callers -> BOOLEAN] /\ sctx \in [Callers -> BOOLEAN]
  OBVIOUS
<1>2. {current, stopped} \subseteq Callers \cup {None}
      <=> current \in Callers \cup {None} /\ stopped \in Callers \cup {None}
  OBVIOUS
<1> QED
  BY <1>1, <1>2, Zenon DEF TypeOK, Bs, StreamsTyped, HandlersTyped, ClientsTyped

LEMMA HandlerTypes == HandlersTyped /\ [Next]_vars => HandlersTyped'
<1> SUFFICES ASSUME HandlersTyped, [Next]_vars PROVE HandlersTyped'
  OBVIOUS
<1> USE DEF HandlersTyped
<1>1. ASSUME NEW s \in Callers, Handler(s) PROVE HandlersTyped'
  BY <1>1 DEF Handler, HandlerSubscribe, HandlerDone, HandlerReceive, HandlerClosed, HandlerSend,
              HandlerSendFails, HandlerReturn, srvVars
<1>2. ASSUME NEW s \in Callers, OpenStream(s) \/ Notify(s) PROVE HandlersTyped'
  BY <1>2 DEF OpenStream, Notify, srvVars, hVars
<1>3. ASSUME NEW m \in Changes, Change(m) \/ PublishEvent(m) PROVE HandlersTyped'
  BY <1>3 DEF Change, PublishEvent, hVars
<1>4. ASSUME \/ \E s \in Callers : \/ DeliverEvent(s) \/ Break(s) \/ Cancel(s) \/ Recv(s)
                                   \/ \E m \in Changes : Forward(s, m)
             \/ CacheClose \/ Close \/ UNCHANGED vars
      PROVE  HandlersTyped'
  BY <1>4 DEF DeliverEvent, Break, Cancel, Recv, RecvSelect, RecvMsg, RecvMsgFails, RecvWrite, Forward,
              CacheClose, Close, CloseStop, CloseConn, srvVars, hVars, vars
<1>5. ASSUME NEW s \in Callers, ListenerForEvents(s) \/ StartBroadcaster(s) \/ SubscribeClient(s)
      PROVE  HandlersTyped'
  BY <1>5 DEF ListenerForEvents, StartBroadcaster, SubscribeClient, srvVars, hVars
<1> QED
  BY <1>1, <1>2, <1>3, <1>4, <1>5 DEF Next, Call

LEMMA ClientTypes == ClientsTyped /\ [Next]_vars => ClientsTyped'
<1> SUFFICES ASSUME ClientsTyped, [Next]_vars PROVE ClientsTyped'
  OBVIOUS
<1> USE DEF ClientsTyped
<1>1. ASSUME NEW s \in Callers, Recv(s) PROVE ClientsTyped'
  BY <1>1 DEF Recv, RecvSelect, RecvMsg, RecvMsgFails, RecvWrite, clVars
<1>2. ASSUME NEW s \in Callers, Break(s) \/ Cancel(s) PROVE ClientsTyped'
  BY <1>2 DEF Break, Cancel, rVars, clVars
<1>3. ASSUME NEW s \in Callers, ListenerForEvents(s) \/ StartBroadcaster(s) \/ OpenStream(s)
      PROVE  ClientsTyped'
  BY <1>3 DEF ListenerForEvents, StartBroadcaster, OpenStream, rVars
<1>4. ASSUME NEW s \in Callers, SubscribeClient(s) PROVE ClientsTyped'
  BY <1>4 DEF SubscribeClient, rVars
<1>5. ASSUME Close PROVE ClientsTyped'
  BY <1>5 DEF Close, CloseStop, CloseConn, rVars
<1>6. ASSUME \/ \E m \in Changes : Change(m) \/ PublishEvent(m)
             \/ \E s \in Callers : DeliverEvent(s) \/ Notify(s) \/ \E m \in Changes : Forward(s, m)
             \/ CacheClose \/ UNCHANGED vars
      PROVE  ClientsTyped'
  BY <1>6 DEF Change, PublishEvent, DeliverEvent, Notify, Forward, CacheClose, rVars, clVars, vars
<1>7. ASSUME NEW s \in Callers, Handler(s) PROVE ClientsTyped'
  BY <1>7 DEF Handler, HandlerSubscribe, HandlerDone, HandlerReceive, HandlerClosed, HandlerSend,
              HandlerSendFails, rVars, clVars
<1> QED
  BY <1>1, <1>2, <1>3, <1>4, <1>5, <1>6, <1>7 DEF Next, Call

LEMMA TypeStep ==
  ASSUME IInv, [Next]_vars
  PROVE  TypeOK'
<1>1. TypeOK
  BY DEF IInv
<1>2. HandlersTyped' /\ ClientsTyped'
  BY <1>1, TypeParts, HandlerTypes, ClientTypes
<1>3. cache' \in Bs /\ cb' \in [Callers -> Bs \cup {None}] /\ StreamsTyped'
  BY CacheType, BroadcasterType, StreamTypes
<1>4. /\ {hctx, fin, ctx, sctx}' \subseteq [Callers -> BOOLEAN]
      /\ {current, stopped}' \subseteq Callers \cup {None}
  BY <1>2 DEF HandlersTyped, ClientsTyped
<1> QED
  BY <1>2, <1>3, <1>4, Zenon DEF TypeOK, Bs, StreamsTyped, HandlersTyped, ClientsTyped

-----------------------------------------------------------------------------
(* The invariant, and what follows from it. *)

LEMMA InitOK == Init => IInv
<1> SUFFICES ASSUME Init PROVE IInv
  OBVIOUS
<1>1. cache \in Bs
  BY NewIs DEF Init
<1>2. TypeOK
  BY <1>1, EmptySeq DEF Init, TypeOK, Bs
<1>3. CacheLog
  BY NewIs, EmptyIs DEF Init, CacheLog
<1>4. ASSUME NEW s \in Callers PROVE StreamInv(s)
  <2>1. /\ hpc[s] = "off" /\ hmsg[s] = None /\ fin[s] = FALSE /\ taken[s] = {} /\ net[s] = << >>
        /\ rpc[s] = "off" /\ rmsg[s] = None /\ pending[s] = {} /\ LogOf(s) = << >>
    BY DEF Init, LogOf
  <2>2. cache.status[s] = "new" /\ cache.chan[s] = << >> /\ cache.next[s] = 0 /\ cache.log = << >>
    BY NewIs DEF Init
  <2>3. HandlerAt(s) /\ RecvAt(s)
    BY <2>1, <2>2 DEF HandlerAt, RecvAt
  <2>4. ListenerAt(s)
    BY <2>1, <2>2, EmptyIs, EmptySeq DEF ListenerAt
  <2>5. InTransit(s) = {None}
    BY <2>1, EmptyIs DEF InTransit
  <2>6. Places(s) /\ Complete(s)
    BY <2>1, <2>5, EmptyIs DEF Places, Complete
  <2> QED
    BY <2>3, <2>4, <2>6 DEF StreamInv
<1>5. {q \in Callers : cb[q] # None} = {}
  BY DEF Init
<1>6. ClientInv
  BY <1>5, FS_EmptySet DEF Init, ClientInv, CallAt, CallerListens, OverHasNone, ClientKnows
<1> QED
  BY <1>2, <1>3, <1>4, <1>6 DEF IInv

LEMMA NextOK == IInv /\ [Next]_vars => IInv'
  BY TypeStep, StreamStep, ClientStep DEF IInv

LEMMA Inductive == Spec => []IInv
  BY InitOK, NextOK, PTL DEF Spec

\* The variables of the event stream have their types: every event in a
\* handler's or Recv's hands is one, and no broadcaster is taken for another
\* value (cache.go, stream.go, client.go).
THEOREM TypeCorrect == Spec => []TypeOK
<1>1. IInv => TypeOK
  BY DEF IInv
<1> QED
  BY <1>1, Inductive, PTL

\* Whatever the interleaving of handlers, Recv, the goroutines of Write and the
\* breaking of streams: an event that Events took from its listener
\* (cache/service.go) reaches the client's broadcaster once (stream/client.go),
\* as long as both ends live and no timer gave it up.
THEOREM Delivery == Spec => []NothingLostInTransit
<1>1. ASSUME IInv PROVE NothingLostInTransit
  <2>1. ASSUME NEW s \in Callers, cb[s] # None
        PROVE  /\ IsInjective(net[s] \o cb[s].log)
               /\ (hpc[s] # "failed" /\ rpc[s] # "ended" /\ ~sctx[s])
                     => taken[s] \subseteq InTransit(s) \cup ToSet(cb[s].log) \cup lost[s]
    <3>1. TypeOK /\ StreamInv(s) /\ LogOf(s) = cb[s].log
      BY <1>1, <2>1 DEF IInv, LogOf
    <3>2. ToSet(net[s]) \cap ToSet(LogOf(s)) = {}
      BY <3>1 DEF StreamInv, Places, InTransit
    <3>3. IsInjective(net[s] \o LogOf(s))
      BY <3>1, <3>2, ConcatInjective, Typed DEF StreamInv, Places
    <3> QED
      BY <3>1, <3>3 DEF StreamInv, Complete
  <2> QED
    BY <2>1 DEF NothingLostInTransit
<1> QED
  BY <1>1, Inductive, PTL

\* Every way out of Events unsubscribes its listener or finds it closed, but for
\* a failed SendMsg.
THEOREM Leak == Spec => []LeakOnlyAfterFailedSend
<1>1. IInv => LeakOnlyAfterFailedSend
  BY DEF IInv, StreamInv, HandlerAt, LeakOnlyAfterFailedSend
<1> QED
  BY <1>1, Inductive, PTL

\* After Client.Close a listener can be open only in a broadcaster that another
\* call of ListenerForEvents has replaced, or that Close did not find.
THEOREM OpenAfterClose == Spec => []OpenAfterCloseOnlyIfRaced
<1>1. ASSUME IInv PROVE OpenAfterCloseOnlyIfRaced
  <2> DEFINE made == {q \in Callers : cb[q] # None}
  <2> SUFFICES ASSUME clpc # "open", stopped # None, NEW p \in Callers, pc[p] = "listening",
                      cb[from[p]].status[p] # "closed"
               PROVE  Cardinality(made) > 1
    BY DEF OpenAfterCloseOnlyIfRaced
  <2>1. /\ stopped \in made /\ cb[stopped].over /\ IsFiniteSet(made)
        /\ from[p] \in made /\ cb[from[p]].status[p] = "open"
    BY <1>1, FieldsOf DEF IInv, ClientInv, ClientKnows, CallerListens, TypeOK, Bs
  <2>2. from[p] # stopped
    BY <1>1, <2>1 DEF IInv, ClientInv, OverHasNone
  <2> HIDE DEF made
  <2>3. {stopped, from[p]} \subseteq made /\ Cardinality({stopped, from[p]}) = 2
    <3>1. IsFiniteSet({stopped}) /\ Cardinality({stopped}) = 1
      BY FS_Singleton
    <3>2. {stopped, from[p]} = {stopped} \cup {from[p]} /\ from[p] \notin {stopped}
      BY <2>2
    <3>3. Cardinality({stopped} \cup {from[p]}) = 1 + 1
      BY <3>1, <3>2, FS_AddElement
    <3> QED
      BY <2>1, <3>2, <3>3
  <2>4. Cardinality({stopped, from[p]}) <= Cardinality(made) /\ Cardinality(made) \in Nat
    BY <2>1, <2>3, FS_Subset, FS_CardinalityType
  <2> QED
    BY <2>3, <2>4
<1> QED
  BY <1>1, Inductive, PTL
=============================================================================
