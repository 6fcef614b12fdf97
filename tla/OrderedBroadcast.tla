-------------------------- MODULE OrderedBroadcast --------------------------
(***************************************************************************)
(* What a broadcaster promises to its clients.  Published messages form a  *)
(* log.  A listener that joined receives messages of the log in its order, *)
(* each at most once (a slow listener may miss some), until it leaves; its *)
(* channel is then closed and nothing more arrives.  The broadcast ends    *)
(* once, when every listener has left, and then nothing happens any more.  *)
(***************************************************************************)
EXTENDS Naturals, Sequences

CONSTANTS Messages, Listeners

VARIABLES
  published,  \* the log
  inbox,      \* for each listener, the indices of the log it was given
  status,     \* of each listener: "new", "open" or "closed"
  over        \* the broadcast has ended

vars == <<published, inbox, status, over>>

Init ==
  /\ published = << >>
  /\ inbox = [l \in Listeners |-> << >>]
  /\ status = [l \in Listeners |-> "new"]
  /\ over = FALSE

Publish(m) ==
  /\ ~over
  /\ \A i \in 1 .. Len(published) : published[i] # m
  /\ published' = Append(published, m)
  /\ UNCHANGED <<inbox, status, over>>

Join(l) ==
  /\ ~over
  /\ status[l] = "new"
  /\ status' = [status EXCEPT ![l] = "open"]
  /\ UNCHANGED <<published, inbox, over>>

Deliver(l) ==
  /\ status[l] = "open"
  /\ \E i \in 1 .. Len(published) :
       /\ \A k \in 1 .. Len(inbox[l]) : inbox[l][k] < i
       /\ inbox' = [inbox EXCEPT ![l] = Append(@, i)]
  /\ UNCHANGED <<published, status, over>>

Leave(l) ==
  /\ status[l] = "open"
  /\ status' = [status EXCEPT ![l] = "closed"]
  /\ UNCHANGED <<published, inbox, over>>

End ==
  /\ ~over
  /\ \A l \in Listeners : status[l] # "open"
  /\ over' = TRUE
  /\ UNCHANGED <<published, inbox, status>>

Next ==
  \/ \E m \in Messages : Publish(m)
  \/ \E l \in Listeners : Join(l) \/ Deliver(l) \/ Leave(l)
  \/ End

Spec == Init /\ [][Next]_vars
=============================================================================
