----------------------------- MODULE Broadcast -----------------------------
(***************************************************************************)
(* A broadcaster as its clients see it: what OrderedBroadcast promises, as *)
(* operators on a record, for models that contain several broadcasters.    *)
(*                                                                         *)
(*   log     the messages the worker took, in order                        *)
(*   next    for each listener, how much of log the worker is through with *)
(*   chan    the content of the listener's channel                         *)
(*   status  of each listener: "new", "open" or "closed"                   *)
(*   over    Stop has returned                                             *)
(*                                                                         *)
(* Each operator is a step of OrderedBroadcast; Stopped is its Leave of    *)
(* every open listener followed by End.                                    *)
(***************************************************************************)
EXTENDS Naturals, Sequences

NewBroadcast(L) ==
  [log |-> << >>, next |-> [l \in L |-> 0], chan |-> [l \in L |-> << >>],
   status |-> [l \in L |-> "new"], over |-> FALSE]

Broadcasts(L, M) ==
  [log : Seq(M), next : [L -> Nat], chan : [L -> Seq(M)],
   status : [L -> {"new", "open", "closed"}], over : BOOLEAN]

\* The worker takes m from b.c.
Published(b, m) == [b EXCEPT !.log = Append(@, m)]

\* Subscribe; the Range over the latest message may or may not meet the new key.
Positions(b) == {n \in {Len(b.log) - 1, Len(b.log)} : n \in Nat}
Subscribed(b, l, n) == [b EXCEPT !.status[l] = "open", !.next[l] = n]

\* The next message for l goes into its channel, or is given up after the timeout.
CanDeliver(b, l) == b.status[l] = "open" /\ b.next[l] < Len(b.log)
Delivered(b, l) == [b EXCEPT !.next[l] = @ + 1, !.chan[l] = Append(@, b.log[b.next[l] + 1])]
Dropped(b, l) == [b EXCEPT !.next[l] = @ + 1]

\* The owner of l receives from its channel, which keeps its content when closed.
Received(b, l) == [b EXCEPT !.chan[l] = Tail(@)]

Unsubscribed(b, l) == [b EXCEPT !.status[l] = IF @ = "open" THEN "closed" ELSE @]

Stopped(b) ==
  [b EXCEPT !.status = [l \in DOMAIN @ |-> IF @[l] = "open" THEN "closed" ELSE @[l]],
            !.over = TRUE]
=============================================================================
