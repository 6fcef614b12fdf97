----------------------------- MODULE SyncProofs -----------------------------
(***************************************************************************)
(* Proofs about the small concurrent parts: the safety properties of       *)
(* OnceDisposable for any set of goroutines, what the two locks of the     *)
(* queue's methods leave open for any goroutines and elements, and the     *)
(* results of a service group for any services, addresses and calls.       *)
(***************************************************************************)
EXTENDS OnceDisposable, SyncQueue, ServiceGroup, SequenceTheorems, FiniteSetTheorems, TLAPS

-----------------------------------------------------------------------------
(* OnceDisposable. *)

\* The call of t has called its initialiser, and o.done does not show it yet.
InitPending(t) == pc[t] = "DoF" \/ (pc[t] \in {"DoResult", "DoOut"} /\ ran[t])

FinalPending(t) == pc[t] = "DisposeF" \/ (pc[t] \in {"DisposeResult", "DisposeOut"} /\ ran[t])

\* The mutex: who is past Lock holds it, and so does who has called f.
LockInv ==
  \A t \in Threads :
    /\ pc[t] \in Critical => m = {t}
    /\ InitPending(t) \/ FinalPending(t) => m = {t}

\* ran is set by f and by nothing else.
RanInv ==
  \A t \in Threads :
    pc[t] \in (DoPCs \cup DisposePCs) \ {"DoResult", "DoOut", "DisposeResult", "DisposeOut"}
      => ~ran[t]

\* The counters follow the flags: a function has run iff its flag is set or
\* its call is pending.
InitInv ==
  /\ inits \in {0, 1}
  /\ (~done /\ \A t \in Threads : ~InitPending(t)) => inits = 0
  /\ done => inits = 1
  /\ \A t \in Threads : InitPending(t) => inits = 1
  /\ \A t \in Threads : pc[t] = "DoF" => ~done /\ ~disposed

FinalInv ==
  /\ finals \in {0, 1}
  /\ (~disposed /\ \A t \in Threads : ~FinalPending(t)) => finals = 0
  /\ disposed => finals = 1
  /\ \A t \in Threads : FinalPending(t) => finals = 1
  /\ \A t \in Threads : pc[t] = "DisposeF" => ~disposed

\* A call is about to return, or has returned, only once a flag is set or
\* its own f has run.
ReturnInv ==
  \A t \in Threads :
    /\ pc[t] \in {"DoResult", "DoOut"} => done \/ disposed \/ ran[t]
    /\ (pc[t] = "DoReturned" /\ ret[t] = "nil") => done \/ disposed
    /\ pc[t] \in {"DisposeResult", "DisposeOut"} => disposed \/ ran[t]
    /\ pc[t] = "DisposeReturned" => disposed

\* A failed initialiser has its error stored before anybody can report nil.
ErrorInv ==
  /\ initOutcome = "err" => errDone = "err"
  /\ \A t \in Threads :
       (pc[t] \in {"DoOut", "DoReturned"} /\ ret[t] = "nil") => initOutcome # "err"

\* A call that began after disposal gets no further than its first check.
LateInv ==
  \A t \in Threads : late[t] =>
    /\ disposed
    /\ pc[t] \notin DoPCs \ {"Do"}
    /\ pc[t] = "DoReturned" => ret[t] = "disposed"

OnceInv ==
  /\ TypeOK /\ LockInv /\ RanInv /\ InitInv /\ FinalInv /\ ReturnInv /\ ErrorInv /\ LateInv

-----------------------------------------------------------------------------
LEMMA InitEstablishes == Init => OnceInv
<1> SUFFICES ASSUME Init PROVE OnceInv
  OBVIOUS
<1>1. TypeOK
  BY DEF Init, TypeOK
<1>2. \A t \in Threads : pc[t] = "idle"
  BY DEF Init
<1>3. LockInv /\ RanInv
  BY <1>2 DEF LockInv, RanInv, InitPending, FinalPending, Critical, DoPCs, DisposePCs
<1>4. InitInv /\ FinalInv
  BY <1>2 DEF Init, InitInv, FinalInv, InitPending, FinalPending
<1>5. ReturnInv /\ ErrorInv /\ LateInv
  BY <1>2 DEF Init, ReturnInv, ErrorInv, LateInv
<1> QED
  BY <1>1, <1>3, <1>4, <1>5 DEF OnceInv

\* Every step of every goroutine keeps the invariant.  Each action is one
\* step; Lock is split because only there the holder of the mutex changes
\* from nobody to somebody.
LEMMA NextPreserves == OnceInv /\ [Next]_vars => OnceInv'
<1> SUFFICES ASSUME OnceInv, [Next]_vars PROVE OnceInv'
  OBVIOUS
<1> USE DEF Goto, flags, history, OnceInv, TypeOK, LockInv, RanInv, InitInv, FinalInv,
              ReturnInv, ErrorInv, LateInv, InitPending, FinalPending, Critical, DoPCs, DisposePCs
<1>1. ASSUME NEW t \in Threads, NEW method \in {"Do", "Dispose"}, Call(t, method) PROVE OnceInv'
  BY <1>1 DEF Call
<1>2. ASSUME NEW t \in Threads, Lock(t) PROVE OnceInv'
  <2>1. \A u \in Threads : pc[u] \notin Critical /\ ~InitPending(u) /\ ~FinalPending(u)
    <3>1. \A u \in Threads : m # {u}
      BY <1>2 DEF Lock
    <3> QED
      BY <3>1
  <2>2. m' = {t} /\ pc' = [pc EXCEPT ![t] = IF pc[t] = "DoLock" THEN "DoRecheck" ELSE "DisposeRecheck"]
        /\ pc[t] \in {"DoLock", "DisposeLock"} /\ UNCHANGED <<flags, ran, ret, history>>
    BY <1>2 DEF Lock
  <2>3. TypeOK'
    BY <2>2
  <2>4. LockInv'
    BY <2>1, <2>2
  <2>5. RanInv' /\ InitInv' /\ FinalInv'
    BY <2>1, <2>2
  <2>6. ReturnInv' /\ ErrorInv' /\ LateInv'
    BY <2>2
  <2> QED
    BY <2>3, <2>4, <2>5, <2>6
<1>3. ASSUME NEW t \in Threads, DoEnter(t) PROVE OnceInv'
  BY <1>3 DEF DoEnter
<1>4. ASSUME NEW t \in Threads, DoLoadDone(t) PROVE OnceInv'
  BY <1>4 DEF DoLoadDone
<1>5. ASSUME NEW t \in Threads, DoLoadDisposed(t) PROVE OnceInv'
  BY <1>5 DEF DoLoadDisposed
<1>6. ASSUME NEW t \in Threads, DoRecheck(t) PROVE OnceInv'
  BY <1>6 DEF DoRecheck
<1>7. ASSUME NEW t \in Threads, NEW outcome \in {"nil", "err", "panic"}, DoF(t, outcome) PROVE OnceInv'
  BY <1>7 DEF DoF
<1>8. ASSUME NEW t \in Threads, DoResult(t) PROVE OnceInv'
  BY <1>8 DEF DoResult
<1>9. ASSUME NEW t \in Threads, DoOut(t) PROVE OnceInv'
  BY <1>9 DEF DoOut
<1>10. ASSUME NEW t \in Threads, DisposeEnter(t) PROVE OnceInv'
  BY <1>10 DEF DisposeEnter
<1>11. ASSUME NEW t \in Threads, DisposeRecheck(t) PROVE OnceInv'
  BY <1>11 DEF DisposeRecheck
<1>12. ASSUME NEW t \in Threads, NEW outcome \in {"nil", "err", "panic"}, DisposeF(t, outcome) PROVE OnceInv'
  BY <1>12 DEF DisposeF
<1>13. ASSUME NEW t \in Threads, DisposeResult(t) PROVE OnceInv'
  BY <1>13 DEF DisposeResult
<1>14. ASSUME NEW t \in Threads, DisposeOut(t) PROVE OnceInv'
  BY <1>14 DEF DisposeOut
<1>15. CASE UNCHANGED vars
  BY <1>15 DEF vars
<1> QED
  BY <1>1, <1>2, <1>3, <1>4, <1>5, <1>6, <1>7, <1>8, <1>9, <1>10, <1>11, <1>12, <1>13, <1>14, <1>15 DEF Next, Step

\* The invariant holds in every reachable state.
THEOREM OnceInvariance == Spec => []OnceInv
  BY InitEstablishes, NextPreserves, PTL DEF Spec

\* The flags, errors, counters and program counters keep their types for any
\* set of goroutines calling Do and Dispose.
THEOREM TypeCorrect == Spec => []TypeOK
<1>1. OnceInv => TypeOK
  BY DEF OnceInv
<1> QED
  BY <1>1, OnceInvariance, PTL

\* Neither the function of Do nor the function of Dispose runs twice, for
\* any number of goroutines (the second checks under o.m).
THEOREM RunsAtMostOnce == Spec => []AtMostOnce
<1>1. OnceInv => AtMostOnce
  BY DEF OnceInv, InitInv, FinalInv, AtMostOnce
<1> QED
  BY <1>1, OnceInvariance, PTL

\* The functions of Do and Dispose exclude each other, and neither runs once
\* o.disposed is set.
THEOREM FunctionsExclude == Spec => []NoOverlap
<1>1. OnceInv => NoOverlap
  <2> SUFFICES ASSUME OnceInv PROVE NoOverlap
    OBVIOUS
  <2>1. ASSUME NEW t \in Threads, NEW u \in Threads, {pc[t], pc[u]} \subseteq {"DoF", "DisposeF"}
        PROVE  t = u
    <3>1. m = {t} /\ m = {u}
      BY <2>1 DEF OnceInv, LockInv, Critical
    <3> QED
      BY <3>1
  <2>2. disposed => \A t \in Threads : pc[t] \notin {"DoF", "DisposeF"}
    BY DEF OnceInv, InitInv, FinalInv
  <2> QED
    BY <2>1, <2>2 DEF NoOverlap
<1> QED
  BY <1>1, OnceInvariance, PTL

\* A Do that begins after disposal is complete returns the error of the
\* first check.
THEOREM DisposedIsFinal == Spec => []DoAfterDisposeFails
<1>1. OnceInv => DoAfterDisposeFails
  BY DEF OnceInv, LateInv, DoAfterDisposeFails
<1> QED
  BY <1>1, OnceInvariance, PTL

\* No caller of Do is told nil when the initialiser failed.
THEOREM ErrorsReachEverybody == Spec => []NoSwallowedError
<1>1. OnceInv => NoSwallowedError
  BY DEF OnceInv, ErrorInv, NoSwallowedError
<1> QED
  BY <1>1, OnceInvariance, PTL

\* Do returns nil without any initialiser having run only to a caller that
\* Dispose overtook.
THEOREM NilIsEarned == Spec => []NilMeansRanOrOvertaken
<1>1. OnceInv => NilMeansRanOrOvertaken
  BY DEF OnceInv, InitInv, ReturnInv, LateInv, NilMeansRanOrOvertaken
<1> QED
  BY <1>1, OnceInvariance, PTL

\* A Dispose that returned means that the finaliser has run exactly once.
THEOREM DisposeIsComplete == Spec => []DisposeReturnsDisposed
<1>1. OnceInv => DisposeReturnsDisposed
  BY DEF OnceInv, FinalInv, ReturnInv, DisposeReturnsDisposed
<1> QED
  BY <1>1, OnceInvariance, PTL

\* What the run checks, for any number of goroutines: the two functions run at
\* most once each, and exclude each other.
THEOREM FunctionsRunOnceAlone == Spec => []RunOnceAlone
  BY RunsAtMostOnce, FunctionsExclude, PTL DEF RunOnceAlone

\* Do returns nil only for an initialiser that ran without an error, or to a
\* caller that Dispose overtook.
THEOREM NilIsTheTruth == Spec => []NilIsTrue
  BY ErrorsReachEverybody, NilIsEarned, PTL DEF NilIsTrue

\* A Dispose that returned is complete, and every later Do fails.
THEOREM DisposalStays == Spec => []DisposalIsFinal
  BY DisposeIsComplete, DisposedIsFinal, PTL DEF DisposalIsFinal

-----------------------------------------------------------------------------
(* SyncQueue. *)

QueueTypes ==
  /\ data \in Seq(Items)
  /\ call \in [Procs -> {Idle, "DequeueAll", "Peek"}]
  /\ length \in [Procs -> Nat]
  /\ seen \in [Procs -> SUBSET Items]
  /\ raced \in [Procs -> BOOLEAN]
  /\ crashed \in BOOLEAN

\* Past as many elements as the method has counted, the slice has none that was
\* there when it did.
SeenInFront ==
  \A p \in Procs : \A i \in 1 .. Len(data) : i > length[p] => data[i] \notin seen[p]

\* The slice has got shorter only by what the others have taken.
ShorterIfRaced ==
  \A p \in Procs : call[p] # Idle /\ ~raced[p] => length[p] <= Len(data)

QueueInv == QueueTypes /\ SeenInFront /\ ShorterIfRaced

-----------------------------------------------------------------------------
\* A part of the slice, from some element on.
SuffixOf(rest, q) ==
  \E k \in 0 .. Len(q) :
    Len(rest) = Len(q) - k /\ \A i \in 1 .. Len(rest) : rest[i] = q[i + k]

\* What Rest and Front do with a number that is not negative.
LEMMA RestIs ==
  ASSUME NEW S, NEW q \in Seq(S), NEW n \in Nat
  PROVE  /\ Rest(q, n) \in Seq(S)
         /\ Len(Rest(q, n)) = IF n > Len(q) THEN 0 ELSE Len(q) - n
         /\ \A i \in 1 .. Len(Rest(q, n)) : Rest(q, n)[i] = q[i + n]
         /\ SuffixOf(Rest(q, n), q)
<1> DEFINE k == AtMost(q, n)
<1>1. k \in 0 .. Len(q) /\ k = IF n > Len(q) THEN Len(q) ELSE n
  BY DEF AtMost
<1>2. Rest(q, n) = SubSeq(q, k + 1, Len(q))
  BY DEF Rest
<1>3. \A i \in 1 .. Len(q) : q[i] \in S
  BY ElementOfSeq
<1> HIDE DEF k
<1>4. /\ SubSeq(q, k + 1, Len(q)) \in Seq(S)
      /\ Len(SubSeq(q, k + 1, Len(q))) = Len(q) - k
      /\ \A i \in 1 .. Len(q) - k : SubSeq(q, k + 1, Len(q))[i] = q[i + k]
  BY <1>1, <1>3
<1>5. Rest(q, n) \in Seq(S) /\ Len(Rest(q, n)) = Len(q) - k
      /\ \A i \in 1 .. Len(Rest(q, n)) : Rest(q, n)[i] = q[i + k]
  BY <1>2, <1>4
<1>6. SuffixOf(Rest(q, n), q)
  BY <1>1, <1>5 DEF SuffixOf
<1> QED
  BY <1>1, <1>5, <1>6

LEMMA FrontIsAll ==
  ASSUME NEW S, NEW q \in Seq(S)
  PROVE  Front(q, Len(q)) = q
<1>1. AtMost(q, Len(q)) = Len(q)
  BY DEF AtMost
<1>2. SubSeq(q, 1, Len(q)) = q
  OBVIOUS
<1> QED
  BY <1>1, <1>2 DEF Front

-----------------------------------------------------------------------------
LEMMA QueueInitOK == QueueInit => QueueInv
<1> SUFFICES ASSUME QueueInit PROVE QueueInv
  OBVIOUS
<1>1. QueueTypes
  <2>1. data \in Seq(Items)
    BY DEF QueueInit
  <2>2. /\ call \in [Procs -> {Idle, "DequeueAll", "Peek"}]
        /\ length \in [Procs -> Nat]
    BY DEF QueueInit
  <2>3. seen \in [Procs -> SUBSET Items]
    BY DEF QueueInit
  <2>4. raced \in [Procs -> BOOLEAN] /\ crashed \in BOOLEAN
    BY DEF QueueInit
  <2> QED
    BY <2>1, <2>2, <2>3, <2>4 DEF QueueTypes
<1>2. Len(data) = 0 /\ \A p \in Procs : call[p] = Idle
  BY DEF QueueInit
<1>3. SeenInFront /\ ShorterIfRaced
  BY <1>2 DEF SeenInFront, ShorterIfRaced
<1> QED
  BY <1>1, <1>3 DEF QueueInv

\* Taking elements from the front, for the goroutines that are in a call, and
\* for p, which is in none or comes out of one.
LEMMA TakeKeeps ==
  ASSUME QueueInv, NEW p \in Procs, NEW rest, rest \in Seq(Items), SuffixOf(rest, data), Take(p, rest),
         crashed' \in BOOLEAN,
         (call[p] = Idle /\ UNCHANGED <<call, length, seen>>) \/ Out(p)
  PROVE  QueueInv'
<1>1. PICK k \in 0 .. Len(data) : /\ Len(rest) = Len(data) - k
                                  /\ \A i \in 1 .. Len(rest) : rest[i] = data[i + k]
  BY DEF SuffixOf
<1>2. data' = rest /\ data \in Seq(Items) /\ Len(data) \in Nat
  BY DEF Take, QueueInv, QueueTypes
<1>3. /\ call' \in [Procs -> {Idle, "DequeueAll", "Peek"}] /\ call'[p] = Idle
      /\ length' \in [Procs -> Nat] /\ seen' \in [Procs -> SUBSET Items]
      /\ \A q \in Procs : seen'[q] = {} \/ (seen'[q] = seen[q] /\ length'[q] = length[q])
      /\ \A q \in Procs \ {p} : call'[q] = call[q] /\ length'[q] = length[q]
  <2>1. /\ call \in [Procs -> {Idle, "DequeueAll", "Peek"}]
        /\ length \in [Procs -> Nat] /\ seen \in [Procs -> SUBSET Items]
    BY DEF QueueInv, QueueTypes
  <2>2. CASE call[p] = Idle /\ UNCHANGED <<call, length, seen>>
    BY <2>1, <2>2
  <2>3. CASE Out(p)
    <3>1. /\ call' \in [Procs -> {Idle, "DequeueAll", "Peek"}] /\ call'[p] = Idle
          /\ \A q \in Procs \ {p} : call'[q] = call[q]
      BY <2>1, <2>3 DEF Out
    <3>2. length' \in [Procs -> Nat] /\ \A q \in Procs \ {p} : length'[q] = length[q]
      BY <2>1, <2>3 DEF Out
    <3>3. /\ seen' \in [Procs -> SUBSET Items] /\ seen'[p] = {}
          /\ \A q \in Procs \ {p} : seen'[q] = seen[q]
      BY <2>1, <2>3 DEF Out
    <3> QED
      BY <3>1, <3>2, <3>3
  <2> QED
    BY <2>2, <2>3
<1>4. raced' = [q \in Procs |-> raced[q] \/ (q # p /\ call[q] # Idle /\ rest # data)]
  BY DEF Take
<1>5. QueueTypes'
  <2>1. raced' \in [Procs -> BOOLEAN]
    BY <1>4 DEF QueueInv, QueueTypes
  <2> QED
    BY <1>2, <1>3, <2>1 DEF QueueTypes
<1>6. SeenInFront'
  <2> SUFFICES ASSUME NEW q \in Procs, NEW i \in 1 .. Len(rest), i > length'[q],
                      seen'[q] = seen[q], length'[q] = length[q]
               PROVE  rest[i] \notin seen[q]
    BY <1>2, <1>3 DEF SeenInFront
  <2>1. i + k \in 1 .. Len(data) /\ i + k > length[q]
    BY <1>1, <1>2, <1>3
  <2> QED
    BY <1>1, <2>1 DEF QueueInv, SeenInFront
<1>7. ShorterIfRaced'
  <2> SUFFICES ASSUME NEW q \in Procs, call'[q] # Idle, ~raced'[q]
               PROVE  length'[q] <= Len(rest)
    BY <1>2 DEF ShorterIfRaced
  <2>1. q # p /\ call[q] # Idle /\ length'[q] = length[q]
    BY <1>3
  <2>2. ~raced[q] /\ rest = data
    BY <1>4, <2>1
  <2> QED
    BY <2>1, <2>2 DEF QueueInv, ShorterIfRaced
<1> QED
  BY <1>5, <1>6, <1>7 DEF QueueInv

LEMMA EnqueueOK == ASSUME QueueInv, NEW x \in Items, Queue(x) PROVE QueueInv'
<1>1. data \in Seq(Items) /\ data' = Append(data, x) /\ UNCHANGED <<call, length, seen, raced, crashed>>
  BY DEF Queue, QueueInv, QueueTypes
<1>2. /\ data' \in Seq(Items) /\ Len(data') = Len(data) + 1 /\ Len(data) \in Nat
      /\ \A i \in 1 .. Len(data) : data'[i] = data[i]
      /\ data'[Len(data) + 1] = x
  BY <1>1
<1>3. \A p \in Procs : x \notin seen[p]
  BY DEF Queue
<1>4. QueueTypes'
  BY <1>1, <1>2 DEF QueueInv, QueueTypes
<1>5. SeenInFront'
  <2> SUFFICES ASSUME NEW p \in Procs, NEW i \in 1 .. Len(data'), i > length[p]
               PROVE  data'[i] \notin seen[p]
    BY <1>1 DEF SeenInFront
  <2>1. CASE i = Len(data) + 1
    BY <1>2, <1>3, <2>1
  <2>2. CASE i \in 1 .. Len(data)
    BY <1>2, <2>2 DEF QueueInv, SeenInFront
  <2> QED
    BY <1>2, <2>1, <2>2
<1>6. ShorterIfRaced'
  BY <1>1, <1>2 DEF QueueInv, QueueTypes, ShorterIfRaced
<1> QED
  BY <1>4, <1>5, <1>6 DEF QueueInv

LEMMA NoneTakenOK ==
  ASSUME QueueInv, UNCHANGED <<data, call, length, seen, raced>>, crashed' \in BOOLEAN
  PROVE  QueueInv'
  BY DEF QueueInv, QueueTypes, SeenInFront, ShorterIfRaced

LEMMA DequeueOK == ASSUME QueueInv, NEW p \in Procs, call[p] = Idle, Dequeue(p) PROVE QueueInv'
<1>1. UNCHANGED <<call, length, seen>> /\ crashed' \in BOOLEAN
  BY DEF Dequeue
<1>2. CASE data = <<>>
  BY <1>1, <1>2, NoneTakenOK DEF Dequeue
<1>3. CASE data # <<>>
  <2>1. data \in Seq(Items)
    BY DEF QueueInv, QueueTypes
  <2>2. /\ Tail(data) \in Seq(Items) /\ Len(Tail(data)) = Len(data) - 1
        /\ \A i \in 1 .. Len(Tail(data)) : Tail(data)[i] = data[i + 1]
        /\ 1 \in 0 .. Len(data)
    BY <1>3, <2>1
  <2>3. SuffixOf(Tail(data), data)
    BY <2>2 DEF SuffixOf
  <2> QED
    BY <1>1, <1>3, <2>2, <2>3, TakeKeeps DEF Dequeue
<1> QED
  BY <1>2, <1>3

LEMMA DequeueNOK ==
  ASSUME QueueInv, NEW p \in Procs, NEW n \in Sizes, call[p] = Idle, DequeueN(p, n)
  PROVE  QueueInv'
<1>1. UNCHANGED <<call, length, seen>> /\ crashed' \in BOOLEAN
  BY DEF DequeueN
<1>2. CASE n < 0
  BY <1>1, <1>2, NoneTakenOK DEF DequeueN
<1>3. CASE ~ n < 0
  <2>1. n \in Nat /\ data \in Seq(Items)
    BY <1>3, QueueAssumption DEF QueueInv, QueueTypes
  <2>2. Rest(data, n) \in Seq(Items) /\ SuffixOf(Rest(data, n), data)
    BY <2>1, RestIs
  <2> QED
    BY <1>1, <1>3, <2>2, TakeKeeps DEF DequeueN
<1> QED
  BY <1>2, <1>3

LEMMA ClearOK == ASSUME QueueInv, NEW p \in Procs, call[p] = Idle, Clear(p) PROVE QueueInv'
<1>1. UNCHANGED <<call, length, seen>> /\ crashed' \in BOOLEAN
  BY DEF Clear, QueueInv, QueueTypes
<1>2. Len(data) \in Nat
  BY DEF QueueInv, QueueTypes
<1>3. <<>> \in Seq(Items) /\ SuffixOf(<<>>, data)
  BY <1>2 DEF SuffixOf
<1> QED
  BY <1>1, <1>3, TakeKeeps DEF Clear

LEMMA SizeOK ==
  ASSUME QueueInv, NEW p \in Procs, NEW method \in {"DequeueAll", "Peek"}, Size(p, method)
  PROVE  QueueInv'
<1>1. data \in Seq(Items) /\ Len(data) \in Nat /\ Elements(data) \subseteq Items
  BY ElementOfSeq DEF QueueInv, QueueTypes, Elements
<1>2. UNCHANGED <<data, crashed>>
  BY DEF Size
<1>3. /\ length'[p] = Len(data) /\ \A q \in Procs \ {p} : length'[q] = length[q]
      /\ \A q \in Procs \ {p} : seen'[q] = seen[q]
      /\ \A q \in Procs \ {p} : call'[q] = call[q]
      /\ \A q \in Procs \ {p} : raced'[q] = raced[q]
  BY DEF Size, QueueInv, QueueTypes
<1>4. QueueTypes'
  BY <1>1 DEF Size, QueueInv, QueueTypes
<1>5. SeenInFront'
  BY <1>1, <1>2, <1>3 DEF QueueInv, SeenInFront
<1>6. ShorterIfRaced'
  BY <1>1, <1>2, <1>3 DEF QueueInv, ShorterIfRaced
<1> QED
  BY <1>4, <1>5, <1>6 DEF QueueInv

LEMMA DequeueAllOK == ASSUME QueueInv, NEW p \in Procs, DequeueAll(p) PROVE QueueInv'
<1>1. length[p] \in Nat /\ data \in Seq(Items) /\ crashed' \in BOOLEAN
  BY DEF DequeueAll, QueueInv, QueueTypes
<1>2. Rest(data, length[p]) \in Seq(Items) /\ SuffixOf(Rest(data, length[p]), data)
  BY <1>1, RestIs
<1> QED
  BY <1>1, <1>2, TakeKeeps DEF DequeueAll

LEMMA PeekOK == ASSUME QueueInv, NEW p \in Procs, Peek(p) PROVE QueueInv'
<1>1. UNCHANGED <<data, raced>> /\ crashed' \in BOOLEAN /\ Out(p)
  BY DEF Peek
<1>2. /\ call'[p] = Idle /\ seen'[p] = {}
      /\ \A q \in Procs \ {p} : call'[q] = call[q]
      /\ \A q \in Procs \ {p} : length'[q] = length[q]
      /\ \A q \in Procs \ {p} : seen'[q] = seen[q]
  BY <1>1 DEF Out, QueueInv, QueueTypes
<1>3. QueueTypes'
  BY <1>1 DEF Out, QueueInv, QueueTypes
<1>4. SeenInFront' /\ ShorterIfRaced'
  BY <1>1, <1>2 DEF QueueInv, SeenInFront, ShorterIfRaced
<1> QED
  BY <1>3, <1>4 DEF QueueInv

LEMMA QueueNextOK == QueueInv /\ [QueueNext]_qVars => QueueInv'
<1> SUFFICES ASSUME QueueInv, [QueueNext]_qVars PROVE QueueInv'
  OBVIOUS
<1>1. CASE UNCHANGED qVars
  BY <1>1 DEF qVars, QueueInv, QueueTypes, SeenInFront, ShorterIfRaced
<1> QED
  BY <1>1, EnqueueOK, DequeueOK, DequeueNOK, ClearOK, SizeOK, DequeueAllOK, PeekOK DEF QueueNext

\* For any goroutines and elements, whatever they do between the two locks of
\* a method: DequeueAll leaves none of the elements that were there when it
\* began, and Peek panics only if somebody has taken elements since.
THEOREM SecondLockIsSafe == QueueSpec => TwoLocksSafe
<1> DEFINE P == \A p \in Procs :
                  call[p] # Idle /\ call'[p] = Idle =>
                    /\ call[p] = "DequeueAll" => seen[p] \cap Elements(data') = {}
                    /\ crashed' => raced[p]
<1>1. QueueInv /\ [QueueNext]_qVars => [P]_qVars
  <2> SUFFICES ASSUME QueueInv, QueueNext, NEW p \in Procs, call[p] # Idle, call'[p] = Idle
               PROVE  /\ call[p] = "DequeueAll" => seen[p] \cap Elements(data') = {}
                      /\ crashed' => raced[p]
    OBVIOUS
  <2>1. DequeueAll(p) \/ Peek(p)
    BY DEF QueueNext, Queue, Dequeue, DequeueN, Clear, Size, DequeueAll, Peek, Out, QueueInv, QueueTypes
  <2>2. length[p] \in Nat /\ data \in Seq(Items) /\ Len(data) \in Nat
    BY DEF QueueInv, QueueTypes
  <2>3. CASE DequeueAll(p)
    <3>1. ~crashed' /\ data' = Rest(data, length[p])
      BY <2>3 DEF DequeueAll, Take, QueueNext
    <3>2. \A i \in 1 .. Len(data') :
            i + length[p] \in 1 .. Len(data) /\ i + length[p] > length[p]
              /\ data'[i] = data[i + length[p]]
      BY <2>2, <3>1, RestIs
    <3>3. \A i \in 1 .. Len(data') : data'[i] \notin seen[p]
      BY <3>2 DEF QueueInv, SeenInFront
    <3> QED
      BY <3>1, <3>3 DEF Elements
  <2>4. CASE Peek(p)
    <3>1. call[p] = "Peek" /\ (crashed' => length[p] > 0 /\ PeekSlice(data, 1) = <<>>)
      BY <2>4 DEF Peek
    <3>2. PeekSlice(data, 1) = <<>> => Len(data) = 0
      <4> SUFFICES ASSUME Len(data) > 0 PROVE PeekSlice(data, 1) # <<>>
        BY <2>2
      <4>1. AtMost(data, 1) = 1
        BY <2>2 DEF AtMost
      <4>2. PeekSlice(data, 1) = SubSeq(data, 1, 1)
            <5>1. PeekSlice(data, 1) = Front(data, 1)
          BY DEF PeekSlice
        <5> QED
          BY <4>1, <5>1 DEF Front
      <4>3. Len(SubSeq(data, 1, 1)) = 1
        BY <2>2
      <4> QED
        BY <4>2, <4>3
    <3>3. ~raced[p] => length[p] <= Len(data)
      BY DEF QueueInv, ShorterIfRaced
    <3> HIDE DEF Peek
    <3> QED
      BY <2>2, <3>1, <3>2, <3>3
  <2> QED
    BY <2>1, <2>3, <2>4
<1> QED
  BY <1>1, QueueInitOK, QueueNextOK, PTL DEF QueueSpec, TwoLocksSafe

-----------------------------------------------------------------------------
(* ServiceGroup over BufConn. *)

Places == {"starting", "serving", "sending", "closing", "closed"}
WaiterPlaces == {"off", "client", "check", "waiting", "queueing", "done"}

ConnTypes ==
  /\ made \in Nat
  /\ listeners \in [Addrs -> 0 .. made]
  /\ closed \subseteq 0 .. made
  /\ spent \subseteq Addrs

\* No two addresses share a listener, and one of the map is closed only if its
\* address is spent.
ConnInv ==
  /\ ConnTypes
  /\ \A a, b \in Addrs : listeners[a] = listeners[b] /\ listeners[a] # 0 => a = b
  /\ \A a \in Addrs : listeners[a] # 0 /\ listeners[a] \in closed => a \in spent

RunRecords == [of : Starters, at : Places, conn : Nat]

\* A run has the listener of its own address, which the map may have replaced.
RunInv ==
  /\ run \in Seq(RunRecords)
  /\ \A i \in 1 .. Len(run) :
       /\ run[i].conn <= made
       /\ run[i].at = "starting" => run[i].conn = 0
       /\ \A b \in Addrs : run[i].conn # 0 /\ listeners[b] = run[i].conn => b = run[i].of

GroupTypes ==
  /\ services \in [Starters -> 0 .. Len(run)]
  /\ waiter \in [Starters -> [at : WaiterPlaces, conn : Nat]]
  /\ queue \in Seq(Starters)
  /\ op \in {"idle", "start", "wait"}
  /\ size \in Int
  /\ failed \subseteq Starters

Quiet == \A s \in Starters : waiter[s].at \in {"off", "done"}

\* The errors of the call under way are queued, or about to be; the owner
\* counts them when nobody queues any more.
ErrorsInv ==
  /\ op = "idle" => size = -1 /\ Quiet
  /\ size # -1 => size = Len(queue) /\ Quiet
  /\ op # "idle" => failed = {s \in Starters : waiter[s].at = "queueing"} \cup Elements(queue)

\* Each service is still waited for, or about to be reported, or at its end.
WaitInv ==
  /\ \A s \in Starters : waiter[s].at = "waiting" => services[s] # 0
  /\ op = "wait" =>
       \A s \in Starters : services[s] # 0 =>
         waiter[s].at = "waiting" \/ s \in failed \/ run[services[s]].at = "closed"

GroupInv == ConnInv /\ RunInv /\ GroupTypes /\ ErrorsInv /\ WaitInv

-----------------------------------------------------------------------------
\* What the map does in a step, as far as the runs are concerned.
ConnStep ==
  /\ made \in Nat /\ made' \in Nat /\ made <= made'
  /\ \A b \in Addrs : listeners'[b] \in {listeners[b], 0} \/ listeners'[b] > made

LEMMA ListenerForKeeps ==
  ASSUME ConnInv, NEW a \in Addrs, listenerFor(a)
  PROVE  /\ ConnInv' /\ ConnStep /\ UNCHANGED <<closed, spent>>
         /\ Listener(a) \in 1 .. made' /\ listeners'[a] = Listener(a)
         /\ Listener(a) \in closed => a \in spent
<1>1. made \in Nat /\ listeners \in [Addrs -> 0 .. made] /\ closed \subseteq 0 .. made /\ spent \subseteq Addrs
  BY DEF ConnInv, ConnTypes
<1>2. /\ \A c, b \in Addrs : listeners[c] = listeners[b] /\ listeners[c] # 0 => c = b
      /\ \A b \in Addrs : listeners[b] # 0 /\ listeners[b] \in closed => b \in spent
  BY DEF ConnInv
<1>3. UNCHANGED <<closed, spent>>
  BY DEF listenerFor
<1>4. CASE listeners[a] = 0
  <2>1. made' = made + 1 /\ listeners' = [listeners EXCEPT ![a] = made + 1] /\ Listener(a) = made + 1
    BY <1>4 DEF listenerFor, Listener
  <2>2. listeners'[a] = made + 1 /\ \A b \in Addrs \ {a} : listeners'[b] = listeners[b]
    BY <1>1, <2>1
  <2>3. listeners' \in [Addrs -> 0 .. made + 1]
    BY <1>1, <2>1
  <2>4. made + 1 \notin closed
    BY <1>1
  <2>5. ConnTypes'
    BY <1>1, <1>3, <2>1, <2>3 DEF ConnTypes
  <2>6. \A b \in Addrs : listeners[b] # made + 1
    BY <1>1
  <2>7. \A c, b \in Addrs : listeners'[c] = listeners'[b] /\ listeners'[c] # 0 => c = b
    BY <1>2, <2>2, <2>6
  <2>8. \A b \in Addrs : listeners'[b] # 0 /\ listeners'[b] \in closed => b \in spent
    BY <1>2, <2>2, <2>4
  <2>9. ConnInv'
    BY <1>3, <2>5, <2>7, <2>8 DEF ConnInv
  <2>10. ConnStep
    BY <1>1, <2>1, <2>2 DEF ConnStep
  <2> QED
    BY <1>1, <1>3, <2>1, <2>2, <2>4, <2>9, <2>10
<1>5. CASE listeners[a] # 0
  <2>1. UNCHANGED <<listeners, made>> /\ Listener(a) = listeners[a]
    BY <1>5 DEF listenerFor, Listener
  <2>2. ConnInv'
    BY <1>3, <2>1 DEF ConnInv, ConnTypes
  <2>3. ConnStep
    BY <1>1, <2>1 DEF ConnStep
  <2> QED
    BY <1>1, <1>2, <1>3, <1>5, <2>1, <2>2, <2>3
<1> QED
  BY <1>4, <1>5

\* Closing the listener of an address, whether it is still the one of the map.
LEMMA CloseListenerKeeps ==
  ASSUME ConnInv, NEW a \in Addrs, NEW l \in 0 .. made, CloseListener(a, l),
         \A b \in Addrs : l # 0 /\ listeners[b] = l => b = a
  PROVE  ConnInv' /\ ConnStep
<1>1. UNCHANGED <<listeners, made>> /\ closed' = closed \cup {l}
  BY DEF CloseListener
<1>2. spent' \subseteq Addrs /\ spent \subseteq spent' /\ (listeners[a] = l => a \in spent')
  BY DEF CloseListener, ConnInv, ConnTypes
<1>3. ConnTypes' /\ ConnStep
  BY <1>1, <1>2 DEF ConnInv, ConnTypes, ConnStep
<1>4. \A b \in Addrs : listeners[b] # 0 /\ listeners[b] \in closed' => b \in spent'
  BY <1>1, <1>2 DEF ConnInv
<1> QED
  BY <1>1, <1>3, <1>4 DEF ConnInv

LEMMA CloseKeeps ==
  ASSUME ConnInv, NEW a \in Addrs, Close(a)
  PROVE  ConnInv' /\ ConnStep
<1>0. made \in Nat /\ listeners \in [Addrs -> 0 .. made] /\ closed \subseteq 0 .. made /\ spent \subseteq Addrs
  BY DEF ConnInv, ConnTypes
<1>1. UNCHANGED made /\ spent' = spent \ {a}
  BY DEF Close
<1>2. /\ listeners' \in [Addrs -> 0 .. made] /\ listeners'[a] = 0
      /\ \A b \in Addrs \ {a} : listeners'[b] = listeners[b]
      /\ closed' \subseteq closed \cup {listeners[a]}
  <2>1. CASE listeners[a] = 0
    BY <1>0, <2>1 DEF Close
  <2>2. CASE listeners[a] # 0
    <3>1. listeners' = [listeners EXCEPT ![a] = 0] /\ closed' = closed \cup {listeners[a]}
      BY <2>2 DEF Close
    <3> QED
      BY <1>0, <3>1
  <2> QED
    BY <2>1, <2>2
<1>3. ConnTypes' /\ ConnStep
  BY <1>0, <1>1, <1>2 DEF ConnTypes, ConnStep
<1>4. \A c, b \in Addrs : listeners'[c] = listeners'[b] /\ listeners'[c] # 0 => c = b
  BY <1>2 DEF ConnInv
<1>5. \A b \in Addrs : listeners'[b] # 0 /\ listeners'[b] \in closed' => b \in spent'
  <2> SUFFICES ASSUME NEW b \in Addrs, listeners'[b] # 0, listeners'[b] \in closed' PROVE b \in spent'
    OBVIOUS
  <2>1. b # a /\ listeners[b] = listeners'[b]
    BY <1>2
  <2>2. listeners[b] # listeners[a]
    BY <2>1 DEF ConnInv
  <2>3. listeners[b] \in closed
    BY <1>2, <2>1, <2>2
  <2> QED
    BY <1>1, <2>1, <2>3 DEF ConnInv
<1> QED
  BY <1>3, <1>4, <1>5 DEF ConnInv

LEMMA CloseAllKeeps == ASSUME ConnInv, CloseAll PROVE ConnInv' /\ ConnStep
  BY DEF ConnInv, ConnTypes, CloseAll, ConnStep

LEMMA CloseNextKeeps ==
  ASSUME ConnInv, NEW a \in Addrs, CloseNext(a)
  PROVE  ConnInv' /\ ConnStep
<1>1. UNCHANGED <<listeners, made>>
  BY DEF CloseNext
<1>2. closed' = closed \cup {listeners[a]} /\ spent' = spent \cup {a}
  BY DEF CloseNext
<1>3. ConnTypes'
  <2>1. /\ made \in Nat /\ listeners \in [Addrs -> 0 .. made]
        /\ closed \subseteq 0 .. made /\ spent \subseteq Addrs
    BY DEF ConnInv, ConnTypes
  <2>2. listeners[a] \in 0 .. made
    BY <2>1
  <2> QED
    BY <1>1, <1>2, <2>1, <2>2 DEF ConnTypes
<1>4. ConnStep
  BY <1>1 DEF ConnInv, ConnTypes, ConnStep
<1>5. \A b \in Addrs : listeners[b] # 0 /\ listeners[b] \in closed' => b \in spent'
  BY <1>1, <1>2 DEF ConnInv
<1> QED
  BY <1>1, <1>3, <1>4, <1>5 DEF ConnInv

LEMMA SameConnKeeps == ASSUME ConnInv, UNCHANGED connVars PROVE ConnInv' /\ ConnStep
  BY DEF ConnInv, ConnTypes, connVars, ConnStep

-----------------------------------------------------------------------------
\* The runs keep their listeners, their order and their ends, and none goes back.
RunStep ==
  /\ run' \in Seq(RunRecords) /\ Len(run') = Len(run)
  /\ \A i \in 1 .. Len(run) :
       /\ run'[i].of = run[i].of /\ run'[i].conn = run[i].conn
       /\ run'[i].at = "starting" => run[i].at = "starting"
       /\ run[i].at = "closed" => run'[i].at = "closed"

LEMMA RunStepKeeps == ASSUME RunInv, ConnStep, RunStep PROVE RunInv'
<1>1. ASSUME NEW i \in 1 .. Len(run)
      PROVE  /\ run'[i].conn <= made'
             /\ run'[i].at = "starting" => run'[i].conn = 0
             /\ \A b \in Addrs : run'[i].conn # 0 /\ listeners'[b] = run'[i].conn => b = run'[i].of
  <2>1. /\ run'[i].of = run[i].of /\ run'[i].conn = run[i].conn
        /\ run'[i].at = "starting" => run[i].at = "starting"
    BY <1>1 DEF RunStep
  <2>2. /\ run[i].conn <= made
        /\ run[i].at = "starting" => run[i].conn = 0
        /\ \A b \in Addrs : run[i].conn # 0 /\ listeners[b] = run[i].conn => b = run[i].of
    BY <1>1 DEF RunInv
  <2>3. run[i] \in RunRecords
    BY <1>1, ElementOfSeq DEF RunInv
  <2>4. run[i].conn \in Nat
    BY <2>3 DEF RunRecords
  <2> QED
    BY <2>1, <2>2, <2>4 DEF ConnStep
<1> QED
  BY <1>1 DEF RunStep, RunInv

LEMMA MoveIs ==
  ASSUME run \in Seq(RunRecords), NEW i \in 1 .. Len(run), NEW at \in Places, Move(i, at)
  PROVE  /\ run' \in Seq(RunRecords) /\ Len(run') = Len(run)
         /\ run'[i].at = at /\ run'[i].of = run[i].of /\ run'[i].conn = run[i].conn
         /\ \A j \in 1 .. Len(run) : j # i => run'[j] = run[j]
<1>1. run[i] \in RunRecords
  BY ElementOfSeq
<1> DEFINE r == [run[i] EXCEPT !.at = at]
<1>2. r \in RunRecords /\ r.at = at /\ r.of = run[i].of /\ r.conn = run[i].conn
  BY <1>1 DEF RunRecords
<1>3. run' = [run EXCEPT ![i] = r]
  BY DEF Move
<1> HIDE DEF r
<1>4. run' \in Seq(RunRecords) /\ Len(run') = Len(run) /\ run'[i] = r
      /\ \A j \in 1 .. Len(run) : j # i => run'[j] = run[j]
  BY <1>2, <1>3
<1> QED
  BY <1>2, <1>4

LEMMA MoveKeeps ==
  ASSUME RunInv, NEW i \in 1 .. Len(run), NEW at \in Places, Move(i, at),
         at # "starting", run[i].at # "closed"
  PROVE  RunStep
<1>1. run \in Seq(RunRecords)
  BY DEF RunInv
<1> QED
  BY <1>1, MoveIs DEF RunStep

LEMMA SameRunsKeep == ASSUME RunInv, UNCHANGED run PROVE RunStep
  BY DEF RunInv, RunStep

\* The map and the runs take their steps, and the call of the owner does not.
GroupPart == GroupTypes /\ ErrorsInv /\ WaitInv

LEMMA AwayFromCall ==
  ASSUME RunInv, GroupPart, UNCHANGED <<services, waiter, queue, op, size, failed>>,
         Len(run') = Len(run),
         \A i \in 1 .. Len(run) : run[i].at = "closed" => run'[i].at = "closed"
  PROVE  GroupPart'
<1>1. \A s \in Starters : services[s] # 0 => services[s] \in 1 .. Len(run)
  BY DEF GroupPart, GroupTypes, RunInv
<1>2. GroupTypes'
  BY DEF GroupPart, GroupTypes
<1>3. ErrorsInv'
  BY DEF GroupPart, ErrorsInv, Quiet
<1>4. WaitInv'
  BY <1>1 DEF GroupPart, WaitInv
<1> QED
  BY <1>2, <1>3, <1>4 DEF GroupPart

-----------------------------------------------------------------------------
(* The goroutines of the services. *)

LEMMA ListenKeeps == ASSUME GroupInv, NEW i \in Runs, Listen(i) PROVE GroupInv'
<1> DEFINE a == run[i].of
           l == Listener(a)
           r == [run[i] EXCEPT !.at = IF l \in closed THEN "sending" ELSE "serving", !.conn = l]
<1>0. ConnInv /\ RunInv /\ GroupPart /\ i \in 1 .. Len(run)
  BY DEF GroupInv, GroupPart, Runs
<1>1. run \in Seq(RunRecords) /\ run[i] \in RunRecords
  BY <1>0, ElementOfSeq DEF RunInv
<1>2. a \in Addrs
  BY <1>1, GroupAssumption DEF RunRecords
<1>3. listenerFor(a)
  BY DEF Listen
<1>4. /\ ConnInv' /\ ConnStep /\ l \in 1 .. made' /\ listeners'[a] = l
  BY <1>0, <1>2, <1>3, ListenerForKeeps
<1>5. l \in Nat /\ l # 0 /\ l <= made'
  BY <1>4 DEF ConnStep
<1>6. run' = [run EXCEPT ![i] = r] /\ run[i].at = "starting"
  BY DEF Listen
<1>7. /\ r \in RunRecords /\ r.of = a /\ r.conn = l /\ r.at \notin {"starting", "closed"}
  BY <1>1, <1>5 DEF RunRecords, Places
<1> HIDE DEF r
<1>8. /\ run' \in Seq(RunRecords) /\ Len(run') = Len(run) /\ run'[i] = r
      /\ \A j \in 1 .. Len(run) : j # i => run'[j] = run[j]
  BY <1>0, <1>1, <1>6, <1>7
<1> HIDE DEF l
<1>9. RunInv'
  <2>1. ASSUME NEW j \in 1 .. Len(run), j # i
        PROVE  /\ run'[j].conn <= made'
               /\ run'[j].at = "starting" => run'[j].conn = 0
               /\ \A b \in Addrs : run'[j].conn # 0 /\ listeners'[b] = run'[j].conn => b = run'[j].of
    <3>1. run[j] \in RunRecords /\ run'[j] = run[j]
      BY <1>1, <1>8, <2>1, ElementOfSeq
    <3>2. run[j].conn \in Nat
      BY <3>1 DEF RunRecords
    <3>3. /\ run[j].conn <= made
          /\ run[j].at = "starting" => run[j].conn = 0
          /\ \A b \in Addrs : run[j].conn # 0 /\ listeners[b] = run[j].conn => b = run[j].of
      BY <1>0, <2>1 DEF RunInv
    <3> QED
      BY <1>4, <3>1, <3>2, <3>3 DEF ConnStep
  <2>2. \A b \in Addrs : listeners'[b] = l => b = a
    BY <1>2, <1>4, <1>5 DEF ConnInv
  <2>3. ASSUME NEW j \in 1 .. Len(run)
        PROVE  /\ run'[j].conn <= made'
               /\ run'[j].at = "starting" => run'[j].conn = 0
               /\ \A b \in Addrs : run'[j].conn # 0 /\ listeners'[b] = run'[j].conn => b = run'[j].of
    BY <1>5, <1>7, <1>8, <2>1, <2>2
  <2> QED
    BY <1>8, <2>3 DEF RunInv
<1>10. GroupPart'
  <2>1. \A j \in 1 .. Len(run) : run[j].at = "closed" => run'[j].at = "closed"
    BY <1>6, <1>8
  <2> QED
    BY <1>0, <1>8, <2>1, AwayFromCall DEF Listen
<1> QED
  BY <1>4, <1>9, <1>10 DEF GroupInv, GroupPart

\* A run moves, while the map takes a step and the owner's call none.
LEMMA RunMoves ==
  ASSUME GroupInv, NEW i \in Runs, NEW at \in Places \ {"starting"}, Move(i, at), run[i].at # "closed",
         ConnInv', ConnStep, UNCHANGED <<services, waiter, queue, op, size, failed>>
  PROVE  GroupInv'
<1>1. RunInv /\ GroupPart /\ i \in 1 .. Len(run)
  BY DEF GroupInv, GroupPart, Runs
<1>2. RunStep
  BY <1>1, MoveKeeps
<1>3. RunInv'
  BY <1>1, <1>2, RunStepKeeps
<1>4. GroupPart'
  BY <1>1, <1>2, AwayFromCall DEF RunStep
<1> QED
  BY <1>3, <1>4 DEF GroupInv, GroupPart

LEMMA ServiceEndsKeeps == ASSUME GroupInv, NEW i \in Runs, ServiceEnds(i) PROVE GroupInv'
<1>1. ConnInv /\ RunInv /\ i \in 1 .. Len(run)
  BY DEF GroupInv, Runs
<1>2. run[i] \in RunRecords
  BY <1>1, ElementOfSeq DEF RunInv
<1>3. run[i].of \in Addrs /\ run[i].conn \in Nat
  BY <1>2, GroupAssumption DEF RunRecords
<1>4. /\ run[i].conn <= made
      /\ \A b \in Addrs : run[i].conn # 0 /\ listeners[b] = run[i].conn => b = run[i].of
  BY <1>1 DEF RunInv
<1>5. run[i].conn \in 0 .. made
  BY <1>1, <1>3, <1>4 DEF ConnInv, ConnTypes
<1>6. CloseListener(run[i].of, run[i].conn)
  BY DEF ServiceEnds
<1>7. ConnInv' /\ ConnStep
  BY <1>1, <1>3, <1>4, <1>5, <1>6, CloseListenerKeeps
<1>8. PICK at \in {"sending", "closing"} : Move(i, at)
  BY DEF ServiceEnds
<1>9. at \in Places \ {"starting"} /\ run[i].at # "closed"
  BY DEF Places, ServiceEnds
<1> QED
  BY <1>7, <1>8, <1>9, RunMoves DEF ServiceEnds

LEMMA ServiceFailsKeeps == ASSUME GroupInv, NEW i \in Runs, ServiceFails(i) PROVE GroupInv'
<1>1. ConnInv' /\ ConnStep
  BY SameConnKeeps DEF GroupInv, ServiceFails
<1>2. "sending" \in Places \ {"starting"} /\ run[i].at # "closed"
  BY DEF Places, ServiceFails
<1> QED
  BY <1>1, <1>2, RunMoves DEF ServiceFails

LEMMA CloseChannelKeeps == ASSUME GroupInv, NEW i \in Runs, CloseChannel(i) PROVE GroupInv'
<1>1. ConnInv' /\ ConnStep
  BY SameConnKeeps DEF GroupInv, CloseChannel
<1>2. "closed" \in Places \ {"starting"} /\ run[i].at # "closed"
  BY DEF Places, CloseChannel
<1> QED
  BY <1>1, <1>2, RunMoves DEF CloseChannel

-----------------------------------------------------------------------------
(* The goroutines that wait. *)

LEMMA InElements ==
  ASSUME NEW S, NEW q \in Seq(S), NEW x \in S
  PROVE  Elements(Append(q, x)) = Elements(q) \cup {x} /\ Elements(q) \subseteq S
<1>1. /\ Append(q, x) \in Seq(S) /\ Len(Append(q, x)) = Len(q) + 1 /\ Len(q) \in Nat
      /\ \A i \in 1 .. Len(q) : Append(q, x)[i] = q[i]
      /\ Append(q, x)[Len(q) + 1] = x
  OBVIOUS
<1>2. Elements(Append(q, x)) \subseteq Elements(q) \cup {x}
  <2> SUFFICES ASSUME NEW i \in 1 .. Len(q) + 1 PROVE Append(q, x)[i] \in Elements(q) \cup {x}
    BY <1>1 DEF Elements
  <2>1. CASE i = Len(q) + 1
    BY <1>1, <2>1
  <2>2. CASE i \in 1 .. Len(q)
    BY <1>1, <2>2 DEF Elements
  <2> QED
    BY <1>1, <2>1, <2>2
<1>3. Elements(q) \subseteq Elements(Append(q, x))
  <2> SUFFICES ASSUME NEW i \in 1 .. Len(q) PROVE q[i] \in Elements(Append(q, x))
    BY DEF Elements
  <2>1. i \in 1 .. Len(Append(q, x)) /\ Append(q, x)[i] = q[i]
    BY <1>1
  <2> QED
    BY <2>1 DEF Elements
<1>4. x \in Elements(Append(q, x))
  BY <1>1 DEF Elements
<1>5. Elements(q) \subseteq S
  BY ElementOfSeq DEF Elements
<1> QED
  BY <1>2, <1>3, <1>4, <1>5

\* A waiter that is not at its end takes a step to another place, and reports
\* an error if it has met one; the map and the runs may take steps with it.
WaiterGoes(s, at) ==
  /\ waiter' \in [Starters -> [at : WaiterPlaces, conn : Nat]]
  /\ waiter'[s].at = at
  /\ \A t \in Starters : t # s => waiter'[t] = waiter[t]
  /\ failed' = IF at = "queueing" THEN failed \cup {s} ELSE failed

LEMMA AtIs ==
  ASSUME GroupTypes, NEW s \in Starters, NEW at \in WaiterPlaces, At(s, at)
  PROVE  /\ waiter' \in [Starters -> [at : WaiterPlaces, conn : Nat]]
         /\ waiter'[s].at = at
         /\ \A t \in Starters : t # s => waiter'[t] = waiter[t]
<1>1. waiter \in [Starters -> [at : WaiterPlaces, conn : Nat]]
  BY DEF GroupTypes
<1> DEFINE w == [waiter[s] EXCEPT !.at = at]
<1>2. w \in [at : WaiterPlaces, conn : Nat] /\ w.at = at
  BY <1>1
<1>3. waiter' = [waiter EXCEPT ![s] = w]
  BY DEF At
<1> HIDE DEF w
<1> QED
  BY <1>1, <1>2, <1>3

LEMMA WaiterKeeps ==
  ASSUME GroupInv, NEW s \in Starters, NEW at \in {"check", "queueing", "done"}, WaiterGoes(s, at),
         waiter[s].at \in {"client", "check", "waiting"},
         ConnInv', ConnStep, RunStep,
         UNCHANGED <<services, queue, op, size>>,
         waiter[s].at = "waiting" /\ at # "queueing" => run'[services[s]].at = "closed"
  PROVE  GroupInv'
<1>1. RunInv /\ GroupTypes /\ ErrorsInv /\ WaitInv
  BY DEF GroupInv
<1>2. RunInv' /\ Len(run') = Len(run)
  BY <1>1, RunStepKeeps DEF RunStep
<1>3. ~Quiet
  BY DEF Quiet
<1>4. op # "idle" /\ size = -1
  BY <1>1, <1>3 DEF ErrorsInv
<1>5. GroupTypes'
  BY <1>1, <1>2 DEF GroupTypes, WaiterGoes
<1>6. failed' = {t \in Starters : waiter'[t].at = "queueing"} \cup Elements(queue)
  <2>1. failed = {t \in Starters : waiter[t].at = "queueing"} \cup Elements(queue)
    BY <1>1, <1>4 DEF ErrorsInv
  <2>2. {t \in Starters : waiter'[t].at = "queueing"} =
          {t \in Starters : waiter[t].at = "queueing"} \cup (IF at = "queueing" THEN {s} ELSE {})
    BY DEF WaiterGoes
  <2> QED
    BY <2>1, <2>2 DEF WaiterGoes
<1>7. ErrorsInv'
  BY <1>4, <1>6 DEF ErrorsInv
<1>8. WaitInv'
  <2>1. \A t \in Starters : waiter'[t].at = "waiting" => services[t] # 0
    BY <1>1 DEF WaitInv, WaiterGoes
  <2>2. ASSUME op = "wait", NEW t \in Starters, services[t] # 0
        PROVE  waiter'[t].at = "waiting" \/ t \in failed' \/ run'[services[t]].at = "closed"
    <3>1. waiter[t].at = "waiting" \/ t \in failed \/ run[services[t]].at = "closed"
      BY <1>1, <2>2 DEF WaitInv
    <3>2. services[t] \in 1 .. Len(run)
      BY <1>1, <2>2 DEF GroupTypes, RunInv
    <3>3. run[services[t]].at = "closed" => run'[services[t]].at = "closed"
      BY <3>2 DEF RunStep
    <3>4. failed \subseteq failed' /\ (at = "queueing" => s \in failed')
      BY DEF WaiterGoes
    <3>5. CASE t = s
      BY <3>1, <3>3, <3>4, <3>5
    <3>6. CASE t # s
      BY <3>1, <3>3, <3>4, <3>6 DEF WaiterGoes
    <3> QED
      BY <3>5, <3>6
  <2> QED
    BY <2>1, <2>2 DEF WaitInv
<1> QED
  BY <1>2, <1>5, <1>7, <1>8 DEF GroupInv

LEMMA FailsGoes ==
  ASSUME GroupInv, NEW s \in Starters, Fails(s) PROVE WaiterGoes(s, "queueing")
  BY AtIs DEF GroupInv, Fails, WaiterGoes, WaiterPlaces

LEMMA SucceedGoes ==
  ASSUME GroupInv, NEW s \in Starters, Succeed(s) PROVE WaiterGoes(s, "done")
  BY AtIs DEF GroupInv, Succeed, WaiterGoes, WaiterPlaces

LEMMA NewClientKeeps == ASSUME GroupInv, NEW s \in Starters, NewClient(s) PROVE GroupInv'
<1>1. RunStep
  BY SameRunsKeep DEF GroupInv, NewClient
<1>2. waiter[s].at = "client" /\ UNCHANGED <<services, queue, op, size>>
  BY DEF NewClient
<1>3. CASE /\ listenerFor(s)
           /\ waiter' = [waiter EXCEPT ![s].at = "check", ![s].conn = Listener(s)]
           /\ UNCHANGED failed
  <2>1. ConnInv' /\ ConnStep /\ Listener(s) \in Nat
    <3>1. ConnInv' /\ ConnStep /\ Listener(s) \in 1 .. made'
      BY <1>3, GroupAssumption, ListenerForKeeps DEF GroupInv
    <3> QED
      BY <3>1 DEF ConnStep
  <2> DEFINE w == [waiter[s] EXCEPT !.at = "check", !.conn = Listener(s)]
  <2>2. waiter \in [Starters -> [at : WaiterPlaces, conn : Nat]]
    BY DEF GroupInv, GroupTypes
  <2>3. w \in [at : WaiterPlaces, conn : Nat] /\ w.at = "check" /\ waiter' = [waiter EXCEPT ![s] = w]
    BY <1>3, <2>1, <2>2 DEF WaiterPlaces
  <2> HIDE DEF w
  <2>4. WaiterGoes(s, "check")
    BY <1>3, <2>2, <2>3 DEF WaiterGoes
  <2> QED
    BY <1>1, <1>2, <2>1, <2>4, WaiterKeeps
<1>4. CASE Fails(s) /\ UNCHANGED connVars
  BY <1>1, <1>2, <1>4, FailsGoes, SameConnKeeps, WaiterKeeps DEF GroupInv
<1> QED
  BY <1>3, <1>4 DEF NewClient

LEMMA HealthyKeeps == ASSUME GroupInv, NEW s \in Starters, Healthy(s) PROVE GroupInv'
<1>1. RunStep /\ ConnInv' /\ ConnStep
  BY SameRunsKeep, SameConnKeeps DEF GroupInv, Healthy
<1>2. waiter[s].at = "check" /\ UNCHANGED <<services, queue, op, size>>
  BY DEF Healthy
<1>3. WaiterGoes(s, "done") \/ WaiterGoes(s, "queueing")
  BY FailsGoes, SucceedGoes DEF Healthy
<1> QED
  BY <1>1, <1>2, <1>3, WaiterKeeps

LEMMA TimeoutKeeps == ASSUME GroupInv, NEW s \in Starters, Timeout(s) PROVE GroupInv'
<1>1. RunStep /\ ConnInv' /\ ConnStep
  BY SameRunsKeep, SameConnKeeps DEF GroupInv, Timeout
<1>2. waiter[s].at \in {"check", "waiting"} /\ UNCHANGED <<services, queue, op, size>>
  BY DEF Timeout
<1>3. WaiterGoes(s, "queueing")
  BY FailsGoes DEF Timeout
<1> QED
  BY <1>1, <1>2, <1>3, WaiterKeeps

LEMMA ReceiveErrorKeeps == ASSUME GroupInv, NEW s \in Starters, ReceiveError(s) PROVE GroupInv'
<1>1. ConnInv' /\ ConnStep
  BY SameConnKeeps DEF GroupInv, ReceiveError
<1>2. /\ waiter[s].at = "waiting" /\ UNCHANGED <<services, queue, op, size>>
      /\ Move(services[s], "closing") /\ run[services[s]].at = "sending"
  BY DEF ReceiveError
<1>3. services[s] \in 1 .. Len(run)
  BY <1>2 DEF GroupInv, GroupTypes, WaitInv, RunInv
<1>4. RunStep
  BY <1>2, <1>3, MoveKeeps DEF GroupInv, Places
<1>5. WaiterGoes(s, "queueing")
  BY FailsGoes DEF ReceiveError
<1> QED
  BY <1>1, <1>2, <1>4, <1>5, WaiterKeeps

LEMMA ReceiveClosedKeeps == ASSUME GroupInv, NEW s \in Starters, ReceiveClosed(s) PROVE GroupInv'
<1>1. RunStep /\ ConnInv' /\ ConnStep
  BY SameRunsKeep, SameConnKeeps DEF GroupInv, ReceiveClosed
<1>2. /\ waiter[s].at = "waiting" /\ UNCHANGED <<services, run, queue, op, size>>
      /\ run[services[s]].at = "closed"
  BY DEF ReceiveClosed
<1>3. WaiterGoes(s, "done")
  BY SucceedGoes DEF ReceiveClosed
<1> QED
  BY <1>1, <1>2, <1>3, WaiterKeeps

LEMMA QueueErrorKeeps == ASSUME GroupInv, NEW s \in Starters, QueueError(s) PROVE GroupInv'
<1>1. RunStep /\ ConnInv' /\ ConnStep
  BY SameRunsKeep, SameConnKeeps DEF GroupInv, QueueError
<1>2. RunInv' /\ GroupTypes /\ ErrorsInv /\ WaitInv /\ Len(run') = Len(run)
  BY <1>1, RunStepKeeps DEF GroupInv, RunStep
<1>3. /\ waiter[s].at = "queueing" /\ queue' = Append(queue, s) /\ At(s, "done")
      /\ UNCHANGED <<services, run, op, size, failed>>
  BY DEF QueueError
<1>4. /\ waiter' \in [Starters -> [at : WaiterPlaces, conn : Nat]]
      /\ waiter'[s].at = "done" /\ \A t \in Starters : t # s => waiter'[t] = waiter[t]
  BY <1>2, <1>3, AtIs DEF WaiterPlaces
<1>5. ~Quiet
  BY <1>3 DEF Quiet
<1>6. op # "idle" /\ size = -1
  BY <1>2, <1>5 DEF ErrorsInv
<1>7. queue \in Seq(Starters)
  BY <1>2 DEF GroupTypes
<1>8. queue' \in Seq(Starters) /\ Elements(queue') = Elements(queue) \cup {s}
  BY <1>3, <1>7, InElements
<1>9. GroupTypes'
  BY <1>2, <1>3, <1>4, <1>8 DEF GroupTypes
<1>10. ErrorsInv'
  <2>1. failed = {t \in Starters : waiter[t].at = "queueing"} \cup Elements(queue)
    BY <1>2, <1>6 DEF ErrorsInv
  <2>2. {t \in Starters : waiter'[t].at = "queueing"} = {t \in Starters : waiter[t].at = "queueing"} \ {s}
    BY <1>4
  <2>3. failed = {t \in Starters : waiter'[t].at = "queueing"} \cup Elements(queue')
    BY <1>3, <1>8, <2>1, <2>2
  <2> QED
    BY <1>3, <1>6, <2>3 DEF ErrorsInv
<1>11. WaitInv'
  BY <1>2, <1>3, <1>4 DEF WaitInv
<1> QED
  BY <1>1, <1>2, <1>9, <1>10, <1>11 DEF GroupInv

-----------------------------------------------------------------------------
(* The owner of the group. *)

LEMMA GroupInitOK == GroupInit => GroupInv
<1> SUFFICES ASSUME GroupInit PROVE GroupInv
  OBVIOUS
<1>1. ConnInv
  BY DEF GroupInit, ConnInit, ConnInv, ConnTypes
<1>2. run = <<>> /\ Len(run) = 0 /\ queue = <<>> /\ Elements(queue) = {}
  BY DEF GroupInit, Elements
<1>3. RunInv
  BY <1>2 DEF RunInv
<1>4. services \in [Starters -> 0 .. Len(run)] /\ \A s \in Starters : services[s] = 0
  BY <1>2 DEF GroupInit
<1>5. /\ waiter \in [Starters -> [at : WaiterPlaces, conn : Nat]]
      /\ \A s \in Starters : waiter[s].at = "off"
  BY DEF GroupInit, NoWaiter, WaiterPlaces
<1>6. op = "idle" /\ size = -1 /\ failed = {}
  BY DEF GroupInit
<1>7. GroupTypes
  BY <1>2, <1>4, <1>5, <1>6 DEF GroupTypes
<1>8. ErrorsInv /\ WaitInv
  BY <1>4, <1>5, <1>6 DEF ErrorsInv, WaitInv, Quiet
<1> QED
  BY <1>1, <1>3, <1>7, <1>8 DEF GroupInv

\* A call begins with no errors, and with waiters that are all at their start.
LEMMA BeginKeeps ==
  ASSUME GroupInv, NEW name \in {"start", "wait"}, Begin(name), UNCHANGED size,
         waiter' \in [Starters -> [at : WaiterPlaces, conn : Nat]],
         \A s \in Starters : waiter'[s].at # "queueing",
         services' \in [Starters -> 0 .. Len(run')]
  PROVE  GroupTypes' /\ ErrorsInv'
<1>1. /\ op = "idle" /\ op' = name /\ failed' = {} /\ queue' = <<>>
  BY DEF Begin
<1>2. size' = -1
  BY <1>1 DEF GroupInv, ErrorsInv
<1>3. GroupTypes'
  BY <1>1, <1>2 DEF GroupTypes
<1>4. Elements(queue') = {}
  BY <1>1 DEF Elements
<1>5. failed' = {s \in Starters : waiter'[s].at = "queueing"} \cup Elements(queue')
  BY <1>1, <1>4
<1>6. op' # "idle"
  BY <1>1
<1>7. ErrorsInv'
  BY <1>2, <1>5, <1>6 DEF ErrorsInv
<1> QED
  BY <1>3, <1>7

\* New runs at the end of the others, each of a starter.
LEMMA StartAppends ==
  ASSUME GroupInv, NEW starters \in SUBSET Starters, Start(starters)
  PROVE  /\ run' \in Seq(RunRecords) /\ Len(run) <= Len(run')
         /\ \A i \in 1 .. Len(run) : run'[i] = run[i]
         /\ \A i \in 1 .. Len(run') : i > Len(run) => run'[i].conn = 0
         /\ services' \in [Starters -> 0 .. Len(run')]
<1> DEFINE n == Cardinality(starters)
           order == CHOOSE f \in [starters -> 1 .. n] : \A s, t \in starters : s # t => f[s] # f[t]
           At0(k) == CHOOSE s \in starters : order[s] = k
           news == [k \in 1 .. n |-> [of |-> At0(k), at |-> "starting", conn |-> 0]]
<1>1. IsFiniteSet(starters) /\ n \in Nat
  BY GroupAssumption, FS_Subset, FS_CardinalityType
<1>2. IsFiniteSet(1 .. n) /\ Cardinality(1 .. n) = n
  BY <1>1, FS_Interval
<1>3. ExistsBijection(starters, 1 .. n)
  BY <1>1, <1>2, FS_SameCardinalityBij
<1>4. \E f \in [starters -> 1 .. n] : \A s, t \in starters : s # t => f[s] # f[t]
  BY <1>3 DEF ExistsBijection, Bijection, Injection, IsInjective
<1>5. order \in [starters -> 1 .. n] /\ \A s, t \in starters : s # t => order[s] # order[t]
  BY <1>4
<1>6. order \in Injection(starters, 1 .. n)
  BY <1>5 DEF Injection, IsInjective
<1>7. order \in Surjection(starters, 1 .. n)
  BY <1>2, <1>6, FS_Injection
<1>8. /\ Begin("start") /\ UNCHANGED <<connVars, size>> /\ run' = run \o news
      /\ services' = [s \in Starters |-> IF s \in starters THEN Len(run) + order[s] ELSE services[s]]
      /\ waiter' = [s \in Starters |-> IF s \in starters THEN [at |-> "client", conn |-> 0] ELSE NoWaiter]
  BY DEF Start
<1> HIDE DEF order
<1>9. \A k \in 1 .. n : At0(k) \in starters
  BY <1>7 DEF Surjection
<1> HIDE DEF At0
<1>10. \A k \in 1 .. n : [of |-> At0(k), at |-> "starting", conn |-> 0] \in RunRecords
  BY <1>9 DEF RunRecords, Places
<1>11. news \in Seq(RunRecords) /\ Len(news) = n
  <2> HIDE DEF n
  <2> QED
    BY <1>1, <1>10
<1>12. \A k \in 1 .. n : news[k].conn = 0
  OBVIOUS
<1> HIDE DEF n, news
<1>13. run \in Seq(RunRecords) /\ Len(run) \in Nat
  BY DEF GroupInv, RunInv
<1>14. /\ run' \in Seq(RunRecords) /\ Len(run') = Len(run) + n
       /\ \A i \in 1 .. Len(run) : run'[i] = run[i]
       /\ \A i \in 1 .. Len(run') : i > Len(run) => i - Len(run) \in 1 .. n /\ run'[i] = news[i - Len(run)]
  <2>1. /\ run \o news \in Seq(RunRecords) /\ Len(run \o news) = Len(run) + Len(news)
        /\ \A i \in 1 .. Len(run) + Len(news) :
             (run \o news)[i] = IF i <= Len(run) THEN run[i] ELSE news[i - Len(run)]
    BY <1>11, <1>13, ConcatProperties
  <2> QED
    BY <1>1, <1>8, <1>11, <1>13, <2>1
<1>15. services \in [Starters -> 0 .. Len(run)]
  BY DEF GroupInv, GroupTypes
<1>16. services' \in [Starters -> 0 .. Len(run')]
  BY <1>1, <1>5, <1>8, <1>13, <1>14, <1>15
<1> QED
  BY <1>1, <1>12, <1>13, <1>14, <1>16

LEMMA StartKeeps == ASSUME GroupInv, NEW starters \in SUBSET Starters, Start(starters) PROVE GroupInv'
<1>1. /\ Begin("start") /\ UNCHANGED <<connVars, size>>
      /\ waiter' = [s \in Starters |-> IF s \in starters THEN [at |-> "client", conn |-> 0] ELSE NoWaiter]
  BY DEF Start
<1>2. /\ run' \in Seq(RunRecords)
      /\ \A i \in 1 .. Len(run) : run'[i] = run[i]
      /\ \A i \in 1 .. Len(run') : i > Len(run) => run'[i].conn = 0
      /\ services' \in [Starters -> 0 .. Len(run')]
  BY StartAppends
<1>3. ConnInv' /\ UNCHANGED <<made, listeners>>
  BY <1>1, SameConnKeeps DEF GroupInv, connVars
<1>4. RunInv'
  <2>1. made \in Nat /\ Len(run) \in Nat /\ Len(run') \in Nat
    BY <1>2 DEF GroupInv, ConnInv, ConnTypes, RunInv
  <2>2. ASSUME NEW i \in 1 .. Len(run')
        PROVE  /\ run'[i].conn <= made
               /\ run'[i].at = "starting" => run'[i].conn = 0
               /\ \A b \in Addrs : run'[i].conn # 0 /\ listeners[b] = run'[i].conn => b = run'[i].of
    <3>1. CASE i \in 1 .. Len(run)
      BY <1>2, <3>1 DEF GroupInv, RunInv
    <3>2. CASE i > Len(run)
      BY <1>2, <2>1, <3>2
    <3> QED
      BY <2>1, <3>1, <3>2
  <2> QED
    BY <1>2, <1>3, <2>2 DEF RunInv
<1>5. /\ waiter' \in [Starters -> [at : WaiterPlaces, conn : Nat]]
      /\ \A s \in Starters : waiter'[s].at \in {"client", "off"}
  BY <1>1 DEF NoWaiter, WaiterPlaces
<1>6. GroupTypes' /\ ErrorsInv'
  BY <1>1, <1>2, <1>5, BeginKeeps
<1>7. WaitInv'
  BY <1>1, <1>5 DEF WaitInv, Begin
<1> QED
  BY <1>3, <1>4, <1>6, <1>7 DEF GroupInv

LEMMA WaitKeeps == ASSUME GroupInv, WaitUntilStopped PROVE GroupInv'
<1>1. /\ Begin("wait") /\ UNCHANGED <<connVars, services, run, size>>
      /\ waiter' = [s \in Starters |-> IF services[s] # 0 THEN [at |-> "waiting", conn |-> 0] ELSE NoWaiter]
  BY DEF WaitUntilStopped
<1>2. ConnInv' /\ ConnStep /\ RunStep
  BY <1>1, SameConnKeeps, SameRunsKeep DEF GroupInv
<1>3. RunInv'
  BY <1>2, RunStepKeeps DEF GroupInv
<1>4. /\ waiter' \in [Starters -> [at : WaiterPlaces, conn : Nat]]
      /\ \A s \in Starters : waiter'[s].at # "queueing"
      /\ \A s \in Starters : waiter'[s].at = "waiting" <=> services[s] # 0
  BY <1>1 DEF NoWaiter, WaiterPlaces
<1>5. services' \in [Starters -> 0 .. Len(run')]
  BY <1>1 DEF GroupInv, GroupTypes
<1>6. GroupTypes' /\ ErrorsInv'
  BY <1>1, <1>4, <1>5, BeginKeeps
<1>7. WaitInv'
  BY <1>1, <1>4 DEF WaitInv
<1> QED
  BY <1>2, <1>3, <1>6, <1>7 DEF GroupInv

\* The owner counts the errors and takes them, when all waiters are done.
LEMMA ReturnKeeps == ASSUME GroupInv, AllDone \/ Return PROVE GroupInv'
<1>1. ConnInv' /\ ConnStep /\ RunStep
  BY SameConnKeeps, SameRunsKeep DEF GroupInv, AllDone, Return
<1>2. RunInv'
  BY <1>1, RunStepKeeps DEF GroupInv
<1>3. /\ UNCHANGED <<services, run, waiter, failed>>
  BY DEF AllDone, Return
<1>4. queue \in Seq(Starters) /\ Len(queue) \in Nat /\ GroupTypes /\ ErrorsInv /\ WaitInv
  BY DEF GroupInv, GroupTypes
<1>5. CASE AllDone
  <2>1. op # "idle" /\ Quiet /\ size' = Len(queue) /\ UNCHANGED <<queue, op>>
    BY <1>5 DEF AllDone, Quiet
  <2>2. GroupTypes' /\ WaitInv'
    BY <1>3, <1>4, <2>1 DEF GroupTypes, WaitInv
  <2>3. ErrorsInv'
    BY <1>3, <1>4, <2>1 DEF ErrorsInv, Quiet
  <2> QED
    BY <1>1, <1>2, <2>2, <2>3 DEF GroupInv
<1>6. CASE Return
  <2>1. size >= 0 /\ queue' = Rest(queue, size) /\ op' = "idle" /\ size' = -1
    BY <1>6 DEF Return
  <2>2. size = Len(queue) /\ Quiet
    BY <1>4, <2>1 DEF ErrorsInv
  <2>3. queue' \in Seq(Starters)
    BY <1>4, <2>1, <2>2, RestIs
  <2>4. GroupTypes' /\ WaitInv'
    BY <1>3, <1>4, <2>1, <2>3 DEF GroupTypes, WaitInv
  <2>5. ErrorsInv'
    BY <1>3, <2>1, <2>2 DEF ErrorsInv, Quiet
  <2> QED
    BY <1>1, <1>2, <2>4, <2>5 DEF GroupInv
<1> QED
  BY <1>5, <1>6

LEMMA CleanUpKeeps == ASSUME GroupInv, CleanUp \/ \E a \in Addrs : CleanUpNext(a) PROVE GroupInv'
<1>1. ConnInv' /\ ConnStep
  <2>1. ASSUME NEW a \in Addrs, CleanUpNext(a) PROVE ConnInv' /\ ConnStep
    BY <2>1, CloseNextKeeps DEF GroupInv, CleanUpNext
  <2>2. CASE CleanUp
    BY <2>2, CloseAllKeeps, CloseKeeps DEF GroupInv, CleanUp
  <2> QED
    BY <2>1, <2>2
<1>2. UNCHANGED <<services, run, waiter, queue, op, size, failed>>
  BY DEF CleanUp, CleanUpNext, groupVars
<1>3. RunInv'
  BY <1>1, <1>2, SameRunsKeep, RunStepKeeps DEF GroupInv
<1>4. GroupPart'
  BY <1>2, AwayFromCall DEF GroupInv, GroupPart
<1> QED
  BY <1>1, <1>3, <1>4 DEF GroupInv, GroupPart

LEMMA GroupStutterKeeps == GroupInv /\ UNCHANGED allVars => GroupInv'
<1> SUFFICES ASSUME GroupInv, UNCHANGED allVars PROVE GroupInv'
  OBVIOUS
<1>1. UNCHANGED connVars /\ UNCHANGED <<services, run, waiter, queue, op, size, failed>>
  BY DEF allVars, groupVars
<1>2. ConnInv' /\ ConnStep
  BY <1>1, SameConnKeeps DEF GroupInv
<1>3. RunInv'
  BY <1>1, <1>2, SameRunsKeep, RunStepKeeps DEF GroupInv
<1>4. GroupPart'
  BY <1>1, AwayFromCall DEF GroupInv, GroupPart
<1> QED
  BY <1>2, <1>3, <1>4 DEF GroupInv, GroupPart

LEMMA GroupNextOK == GroupInv /\ [GroupNext]_allVars => GroupInv'
<1> SUFFICES ASSUME GroupInv, [GroupNext]_allVars PROVE GroupInv'
  OBVIOUS
<1>1. CASE Owner
  BY <1>1, StartKeeps, WaitKeeps, CleanUpKeeps DEF Owner
<1>2. ASSUME NEW s \in Starters, Waiter(s) PROVE GroupInv'
  BY <1>2, NewClientKeeps, HealthyKeeps, TimeoutKeeps, ReceiveErrorKeeps, ReceiveClosedKeeps, QueueErrorKeeps
     DEF Waiter
<1> QED
  BY <1>1, <1>2, GroupStutterKeeps, ReturnKeeps, CleanUpKeeps, ListenKeeps, ServiceEndsKeeps,
     ServiceFailsKeeps, CloseChannelKeeps
     DEF GroupNext

\* For any services and any number of calls: Start and WaitUntilStopped return
\* the errors of their goroutines, all of them and no others, and when
\* WaitUntilStopped returns none, every service of the group is at its end.
THEOREM ResultsAreTrue == GroupSpec => ResultsTrue
<1> DEFINE P == op # "idle" /\ op' = "idle" =>
                  /\ result' = failed
                  /\ op = "wait" /\ result' = {} =>
                       \A s \in Starters : services[s] # 0 => run[services[s]].at = "closed"
<1>1. GroupInv /\ [GroupNext]_allVars => [P]_allVars
  <2> SUFFICES ASSUME GroupInv, GroupNext, op # "idle", op' = "idle"
               PROVE  /\ result' = failed
                      /\ op = "wait" /\ result' = {} =>
                           \A s \in Starters : services[s] # 0 => run[services[s]].at = "closed"
    OBVIOUS
  <2>1. Return
    <3>1. ASSUME Owner PROVE FALSE
      BY <3>1 DEF Owner, Start, WaitUntilStopped, Begin, CleanUp
    <3>2. ASSUME NEW s \in Starters, Waiter(s) PROVE FALSE
      BY <3>2 DEF Waiter, NewClient, Healthy, Timeout, ReceiveError, ReceiveClosed, QueueError
    <3>3. ASSUME AllDone \/ \E a \in Addrs : CleanUpNext(a) PROVE FALSE
      BY <3>3 DEF AllDone, CleanUpNext, groupVars
    <3>4. ASSUME NEW i \in Runs, Listen(i) \/ ServiceEnds(i) \/ ServiceFails(i) \/ CloseChannel(i) PROVE FALSE
      BY <3>4 DEF Listen, ServiceEnds, ServiceFails, CloseChannel
    <3> QED
      BY <3>1, <3>2, <3>3, <3>4 DEF GroupNext
  <2>2. size >= 0 /\ result' = Elements(Front(queue, size))
    BY <2>1 DEF Return
  <2>3. size = Len(queue) /\ Quiet /\ queue \in Seq(Starters)
    BY <2>2 DEF GroupInv, GroupTypes, ErrorsInv
  <2>4. result' = Elements(queue)
    BY <2>2, <2>3, FrontIsAll
  <2>5. failed = {s \in Starters : waiter[s].at = "queueing"} \cup Elements(queue)
    BY DEF GroupInv, ErrorsInv
  <2>6. result' = failed
    BY <2>3, <2>4, <2>5 DEF Quiet
  <2>7. ASSUME op = "wait", result' = {}, NEW s \in Starters, services[s] # 0
        PROVE  run[services[s]].at = "closed"
    BY <2>3, <2>6, <2>7 DEF GroupInv, WaitInv, Quiet
  <2> QED
    BY <2>6, <2>7
<1> QED
  BY <1>1, GroupInitOK, GroupNextOK, PTL DEF GroupSpec, ResultsTrue

\* For any addresses: a service that listens at an address and is refused at
\* once meets a listener that was closed and left in the map.
THEOREM OnlySpentAddressesFail == GroupSpec => ListenFailsOnlyIfSpent
<1> DEFINE P == \A i \in Runs :
                  run[i].at = "starting" /\ run'[i].at = "sending" /\ run'[i].conn # 0
                    => run[i].of \in spent
<1>1. GroupInv /\ [GroupNext]_allVars => [P]_allVars
  <2> SUFFICES ASSUME GroupInv, GroupNext, NEW i \in Runs,
                      run[i].at = "starting", run'[i].at = "sending", run'[i].conn # 0
               PROVE  run[i].of \in spent
    OBVIOUS
  <2>1. RunInv /\ ConnInv /\ i \in 1 .. Len(run) /\ run \in Seq(RunRecords) /\ run[i] \in RunRecords
    BY ElementOfSeq DEF GroupInv, RunInv, Runs
  <2>2. run[i].conn = 0
    BY <2>1 DEF RunInv
  <2>3. CASE Listen(i)
    <3> DEFINE a == run[i].of
    <3>1. a \in Addrs /\ listenerFor(a)
      BY <2>1, <2>3, GroupAssumption DEF RunRecords, Listen
    <3>2. Listener(a) \in closed => a \in spent
      BY <2>1, <3>1, ListenerForKeeps
    <3>3. run' = [run EXCEPT ![i].at = IF Listener(a) \in closed THEN "sending" ELSE "serving",
                             ![i].conn = Listener(a)]
      BY <2>3 DEF Listen
    <3>4. run'[i].at = IF Listener(a) \in closed THEN "sending" ELSE "serving"
      BY <2>1, <3>3 DEF RunRecords
    <3> QED
      BY <3>2, <3>4
  <2>4. CASE ~Listen(i)
    <3>1. UNCHANGED run \/ run'[i].conn = run[i].conn \/ run'[i].at = run[i].at
      <4>1. CASE Owner
        <5>1. ASSUME NEW starters \in SUBSET Starters, Start(starters) PROVE run'[i] = run[i]
          BY <2>1, <5>1, StartAppends
        <5> QED
          BY <4>1, <5>1 DEF Owner, WaitUntilStopped, CleanUp
      <4>2. CASE \E s \in Starters : Waiter(s)
        <5>1. ASSUME NEW s \in Starters, ReceiveError(s) PROVE run'[i].at = run[i].at \/ run'[i].conn = run[i].conn
          <6>1. Move(services[s], "closing") /\ services[s] \in 1 .. Len(run)
            BY <5>1 DEF ReceiveError, GroupInv, GroupTypes, WaitInv, RunInv
          <6>2. "closing" \in Places
            BY DEF Places
          <6> QED
            BY <2>1, <6>1, <6>2, MoveIs
        <5> QED
          BY <4>2, <5>1 DEF Waiter, NewClient, Healthy, Timeout, ReceiveClosed, QueueError
      <4>3. ASSUME NEW j \in Runs, ServiceEnds(j) \/ ServiceFails(j) \/ CloseChannel(j)
            PROVE  run'[i].conn = run[i].conn
        <5>1. PICK at \in Places : Move(j, at)
          BY <4>3 DEF ServiceEnds, ServiceFails, CloseChannel, Places
        <5> QED
          BY <2>1, <5>1, MoveIs DEF Runs
      <4>4. ASSUME NEW j \in Runs, j # i, Listen(j) PROVE run'[i] = run[i]
        BY <4>4, <2>1 DEF Listen, Runs
      <4>5. CASE AllDone \/ Return \/ \E a \in Addrs : CleanUpNext(a)
        BY <4>5 DEF AllDone, Return, CleanUpNext, groupVars
      <4> QED
        BY <2>4, <4>1, <4>2, <4>3, <4>4, <4>5 DEF GroupNext
    <3> QED
      BY <2>2, <3>1
  <2> QED
    BY <2>3, <2>4
<1> QED
  BY <1>1, GroupInitOK, GroupNextOK, PTL DEF GroupSpec, ListenFailsOnlyIfSpent
=============================================================================
