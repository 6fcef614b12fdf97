----------------------------- MODULE QueueSlice -----------------------------
(* What the locked sections of collection.SyncQueue do to its slice.       *)
EXTENDS Integers, Sequences

Elements(q) == {q[i] : i \in 1 .. Len(q)}

AtMost(q, n) == IF n > Len(q) THEN Len(q) ELSE n

Front(q, n) == SubSeq(q, 1, AtMost(q, n))

Rest(q, n) == SubSeq(q, AtMost(q, n) + 1, Len(q))

\* The result of PeekSlice(n): -1 stands for all, less for nothing.
PeekSlice(q, n) ==
  IF n < -1 THEN <<>> ELSE IF n = -1 THEN q ELSE Front(q, n)
=============================================================================
