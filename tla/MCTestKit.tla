----------------------------- MODULE MCTestKit -----------------------------
(***************************************************************************)
(* The test kit, a service group over in-memory connections and the        *)
(* synchronised queue under every method; and LastLines, the other helper  *)
(* that has to return whatever goes on beside it.  A behavior exercises    *)
(* one of them, the others stay as they are.                               *)
(***************************************************************************)
EXTENDS ServiceGroup, SyncQueue, LastLines

VARIABLE kit

kitVars == <<allVars, qVars, tailVars, kit>>

\* Arguments of DequeueN and PeekSlice.
MCSizes == -2 .. 2

\* Every file of up to 4 bytes, and of up to 5 that are text or newlines.
Upto(n, bytes) == UNION {[1 .. i -> bytes] : i \in 0 .. n}
MCContents == Upto(4, Bytes) \cup Upto(5, {"a", "n", "r"})

Init ==
  /\ kit \in {"group", "queue", "tail"}
  /\ GroupInit /\ QueueInit /\ TailInit
  /\ kit = "tail" \/ (content = <<>> /\ arg = [nlines |-> 0, skipEmpty |-> FALSE, noincludecrlf |-> FALSE])

Next ==
  \/ kit = "group" /\ GroupNext /\ UNCHANGED <<qVars, tailVars, kit>>
  \/ kit = "queue" /\ QueueNext /\ UNCHANGED <<allVars, tailVars, kit>>
  \/ kit = "tail" /\ TailNext /\ UNCHANGED <<allVars, qVars, kit>>

\* The fairness of the group asks nothing of a group that stays as it is; the
\* loop of LastLines is assumed to go on.
Spec ==
  /\ Init /\ [][Next]_kitVars
  /\ GroupFairness
  /\ WF_tailVars(kit = "tail" /\ Reader)
=============================================================================
