--------------------------- MODULE StatusBarrier ---------------------------
(***************************************************************************)
(* pkg/broadcaster/statusBarrier.go: a started/stopped flag guarded by a   *)
(* sync.RWMutex.  A barrier is a record                                    *)
(*                                                                         *)
(*   started   the flag                                                    *)
(*   writer    the goroutine that called Lock, announced or inside ({} or  *)
(*             a singleton)                                                *)
(*   readers   the goroutines that hold the read lock                      *)
(*   waiting   the goroutines blocked in RLock behind the writer           *)
(*                                                                         *)
(* sync.RWMutex prefers writers: once Lock has announced itself a new      *)
(* RLock blocks, the writer enters when the readers that were already in   *)
(* have left, and Unlock admits every blocked reader before it lets the    *)
(* next writer announce itself.                                            *)
(***************************************************************************)

newStatusBarrier == [started |-> FALSE, writer |-> {}, readers |-> {}, waiting |-> {}]

\* RLock: in at once, or blocked when a writer has announced itself.
Entering(b, g) ==
  IF b.writer = {} THEN [b EXCEPT !.readers = @ \cup {g}]
                   ELSE [b EXCEPT !.waiting = @ \cup {g}]

\* RUnlock.
Out(b, g) == [b EXCEPT !.readers = @ \ {g}]

\* A read lock taken by g is released later by h (Write's goroutine).
HandOver(b, g, h) == [b EXCEPT !.readers = (@ \ {g}) \cup {h}]

\* The first half of Lock; the second half waits for InStatusArea.
EnteringStatusArea(b, g) == [b EXCEPT !.writer = {g}]

InStatusArea(b, g) == b.writer = {g} /\ b.readers = {}

\* Unlock: the blocked readers are admitted together.
OutOfStatusArea(b) == [b EXCEPT !.writer = {}, !.readers = b.waiting, !.waiting = {}]

MarkStopped(b) == [b EXCEPT !.started = FALSE]

MarkStarted(b) == [b EXCEPT !.started = TRUE]

IsStopped(b) == ~b.started

\* The barriers that goroutines of the set G can use.
Barriers(G) ==
  [started : BOOLEAN, writer : SUBSET G, readers : SUBSET G, waiting : SUBSET G]
=============================================================================
