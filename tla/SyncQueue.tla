----------------------------- MODULE SyncQueue -----------------------------
(***************************************************************************)
(* collection.SyncQueue: a slice behind a mutex.  Most methods lock once   *)
(* and are one step; DequeueAll and Peek lock twice, first for the size.   *)
(* Goroutines call every method, in any order.                             *)
(***************************************************************************)
EXTENDS QueueSlice

CONSTANTS
  Procs,  \* goroutines
  Items,  \* elements
  Sizes,  \* arguments of DequeueN and PeekSlice
  Idle    \* not in a method

ASSUME QueueAssumption == Sizes \subseteq Int /\ Idle \notin {"DequeueAll", "Peek"}

VARIABLES
  data,     \* the slice
  call,     \* goroutine -> the method that is between its two locks
  length,   \* what that method has read under the first lock
  seen,     \* the slice as it was then
  raced,    \* whether other goroutines have taken elements since
  crashed   \* an index out of range, or a negative length

qVars == <<data, call, length, seen, raced, crashed>>

QueueInit ==
  /\ data = <<>>
  /\ call = [p \in Procs |-> Idle]
  /\ length = [p \in Procs |-> 0]
  /\ seen = [p \in Procs |-> {}]
  /\ raced = [p \in Procs |-> FALSE]
  /\ crashed = FALSE

\* The elements are taken from the slice while the others may be in a call.
Take(p, rest) ==
  /\ data' = rest
  /\ raced' = [q \in Procs |-> raced[q] \/ (q # p /\ call[q] # Idle /\ rest # data)]

\* Every element is a new one, to the slice and to the calls under way.
Queue(x) ==
  /\ x \notin Elements(data) \cup UNION {seen[p] : p \in Procs}
  /\ data' = Append(data, x)
  /\ UNCHANGED <<call, length, seen, raced, crashed>>

Dequeue(p) ==
  /\ crashed' = (data = <<>>)
  /\ IF data = <<>> THEN UNCHANGED <<data, raced>> ELSE Take(p, Tail(data))
  /\ UNCHANGED <<call, length, seen>>

\* make panics on a negative length.
DequeueN(p, n) ==
  /\ crashed' = (n < 0)
  /\ IF n < 0 THEN UNCHANGED <<data, raced>> ELSE Take(p, Rest(data, n))
  /\ UNCHANGED <<call, length, seen>>

Clear(p) ==
  /\ Take(p, <<>>)
  /\ UNCHANGED <<call, length, seen, crashed>>

\* The first lock of DequeueAll and Peek.
Size(p, method) ==
  /\ call' = [call EXCEPT ![p] = method]
  /\ length' = [length EXCEPT ![p] = Len(data)]
  /\ seen' = [seen EXCEPT ![p] = Elements(data)]
  /\ raced' = [raced EXCEPT ![p] = FALSE]
  /\ UNCHANGED <<data, crashed>>

Out(p) ==
  /\ call' = [call EXCEPT ![p] = Idle]
  /\ length' = [length EXCEPT ![p] = 0]
  /\ seen' = [seen EXCEPT ![p] = {}]

\* Mutant of DequeueAll: it gives up when the size is no longer the one it read.
DequeueAllUnlessRaced(p) ==
  /\ call[p] = "DequeueAll"
  /\ Take(p, IF Len(data) = length[p] THEN <<>> ELSE data)
  /\ Out(p)
  /\ UNCHANGED crashed

DequeueAll(p) ==
  /\ call[p] = "DequeueAll"
  /\ Take(p, Rest(data, length[p]))
  /\ Out(p)
  /\ UNCHANGED crashed

\* A queue that was empty at the first lock gives the zero value.
Peek(p) ==
  /\ call[p] = "Peek"
  /\ crashed' = (length[p] > 0 /\ PeekSlice(data, 1) = <<>>)
  /\ Out(p)
  /\ UNCHANGED <<data, raced>>

QueueNext ==
  /\ ~crashed
  /\ \/ \E x \in Items : Queue(x)
     \/ \E p \in Procs :
          \/ /\ call[p] = Idle
             /\ \/ Dequeue(p) \/ Clear(p)
                \/ \E n \in Sizes : DequeueN(p, n)
                \/ \E method \in {"DequeueAll", "Peek"} : Size(p, method)
          \/ DequeueAll(p) \/ Peek(p)

QueueSpec == QueueInit /\ [][QueueNext]_qVars

-----------------------------------------------------------------------------
(* Properties. *)

\* Between the two locks (syncqueue.go:35 and 73) other goroutines may act.
\* DequeueAll still leaves nothing behind of what was there when it began,
\* and Peek panics only when somebody has taken elements in between.
TwoLocksSafe ==
  [][\A p \in Procs :
       call[p] # Idle /\ call'[p] = Idle =>
         /\ call[p] = "DequeueAll" => seen[p] \cap Elements(data') = {}
         /\ crashed' => raced[p]]_qVars
=============================================================================
